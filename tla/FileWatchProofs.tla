--------------------------- MODULE FileWatchProofs ---------------------------
(***************************************************************************)
(* Proofs about FileWatch, for any folders, files and names, any limit of  *)
(* the kernel's queue and any number of changes.                           *)
(***************************************************************************)
EXTENDS FileWatch, Integers, FiniteSets, FiniteSetsExt, FiniteSetTheorems, WellFoundedInduction, TLAPS

-----------------------------------------------------------------------------
\* A non-empty set of natural numbers has a least one, which Min() gives.
LEMMA MinIsLeast ==
  ASSUME NEW S, S \subseteq Nat, S # {}
  PROVE  Min(S) \in S /\ \A n \in S : Min(S) <= n
<1> PICK n \in S : TRUE
  OBVIOUS
<1> DEFINE T == {0..k : k \in {m \in S : m <= n}}
<1>1. IsFiniteSet(0..n)
  BY FS_Interval
<1>2. IsWellFoundedOn(StrictSubsetOrdering(0..n), SUBSET (0..n))
  <2>1. IsWellFoundedOn(StrictSubsetOrdering(0..n), FiniteSubsetsOf(0..n))
    BY FS_StrictSubsetOrderingWellFounded
  <2> QED BY <2>1, <1>1, FS_FiniteSubsetsOfFinite
<1>3. T \subseteq SUBSET (0..n) /\ T # {}
  OBVIOUS
<1>4. PICK x \in T : \A y \in T : ~(<<y, x>> \in StrictSubsetOrdering(0..n))
  BY <1>2, <1>3, WFMin
<1>5. PICK k \in S : k <= n /\ x = 0..k
  OBVIOUS
<1>6. \A m \in S : k <= m
  <2> SUFFICES ASSUME NEW m \in S, m < k PROVE FALSE
    OBVIOUS
  <2>1. 0..m \in T /\ 0..m \subseteq 0..k /\ k \in 0..k /\ k \notin 0..m
    BY <1>5
  <2>2. <<0..m, 0..k>> \in StrictSubsetOrdering(0..n)
    BY <2>1, <1>5 DEF StrictSubsetOrdering
  <2> QED BY <2>1, <2>2, <1>4, <1>5
<1> QED BY <1>6 DEF Min

-----------------------------------------------------------------------------
(* Paths in a tree. *)

Size == Cardinality(Inodes)

LEMMA SizeIsNat == Size \in Nat
BY ConstantsAssumption, FS_CardinalityType DEF Size

LEMMA Appended ==
  ASSUME NEW S, NEW s \in Seq(S), NEW x \in S
  PROVE  /\ Append(s, x) \in Seq(S) /\ Len(s) \in Nat /\ Len(Append(s, x)) = Len(s) + 1
         /\ Append(s, x)[Len(s) + 1] = x
         /\ \A n \in 1..Len(s) : Append(s, x)[n] = s[n]
OBVIOUS

LEMMA PlacesAre ==
  ASSUME NEW at \in Places
  PROVE  at = <<at[1], at[2]>> /\ at[1] \in Ids /\ at[2] \in Names
BY DEF Places, Parents, Ids, Inodes

\* The recursive functions in pathsIn() and below(), by the value before.
longer(tree, above) ==
  [i \in Ids |-> IF i = Home THEN <<>>
                 ELSE IF i = Outside THEN NoPath
                 ELSE IF tree[i] \notin Places THEN NoPath
                 ELSE IF above[tree[i][1]] = NoPath THEN NoPath
                 ELSE Append(above[tree[i][1]], tree[i][2])]
shortest == [i \in Ids |-> IF i = Home THEN <<>> ELSE NoPath]

ArePaths(tree, path, m) ==
  path = [n \in 0..m |-> IF n = 0 THEN shortest ELSE longer(tree, path[n - 1])]

farther(tree, i, nearer) == {i} \cup {j \in Inodes : tree[j] \in Places /\ tree[j][1] \in nearer}

AreWithin(tree, i, within, m) ==
  within = [n \in 0..m |-> IF n = 0 THEN {i} ELSE farther(tree, i, within[n - 1])]

LEMMA PathsExist ==
  ASSUME NEW tree, NEW m \in Nat
  PROVE  \E path : ArePaths(tree, path, m)
<1> DEFINE Bad == {k \in Nat : ~ \E path : ArePaths(tree, path, k)}
<1> SUFFICES ASSUME Bad # {} PROVE FALSE
  OBVIOUS
<1>1. PICK k \in Bad : \A l \in Bad : k <= l
  BY MinIsLeast
<1>2. CASE k = 0
  <2> DEFINE p == [n \in 0..0 |-> shortest]
  <2>1. ArePaths(tree, p, 0)
    BY DEF ArePaths
  <2> QED BY <1>2, <2>1
<1>3. CASE k # 0
  <2>1. k - 1 \in Nat /\ k - 1 \notin Bad
    BY <1>1, <1>3
  <2>2. PICK path : ArePaths(tree, path, k - 1)
    BY <2>1
  <2> DEFINE p == [n \in 0..k |-> IF n = 0 THEN shortest ELSE longer(tree, path[n - 1])]
  <2>3. \A n \in 0..(k - 1) : p[n] = path[n]
    BY <2>2, <2>1 DEF ArePaths
  <2>4. ASSUME NEW n \in 0..k, n # 0 PROVE longer(tree, path[n - 1]) = longer(tree, p[n - 1])
    <3>1. n - 1 \in 0..(k - 1)
      BY <2>1, <2>4
    <3> QED BY <3>1, <2>3
  <2>5. p = [n \in 0..k |-> IF n = 0 THEN shortest ELSE longer(tree, p[n - 1])]
    BY <2>4
  <2>6. ArePaths(tree, p, k)
    BY <2>5 DEF ArePaths
  <2> QED BY <2>6
<1> QED BY <1>2, <1>3

LEMMA WithinExist ==
  ASSUME NEW tree, NEW i, NEW m \in Nat
  PROVE  \E within : AreWithin(tree, i, within, m)
<1> DEFINE Bad == {k \in Nat : ~ \E within : AreWithin(tree, i, within, k)}
<1> SUFFICES ASSUME Bad # {} PROVE FALSE
  OBVIOUS
<1>1. PICK k \in Bad : \A l \in Bad : k <= l
  BY MinIsLeast
<1>2. CASE k = 0
  <2> DEFINE w == [n \in 0..0 |-> {i}]
  <2>1. w = [n \in 0..0 |-> IF n = 0 THEN {i} ELSE farther(tree, i, w[n - 1])]
    <3>1. \A n \in 0..0 : n = 0
      OBVIOUS
    <3> QED BY <3>1
  <2>2. AreWithin(tree, i, w, 0)
    BY <2>1 DEF AreWithin
  <2> QED BY <1>2, <2>2
<1>3. CASE k # 0
  <2>1. k - 1 \in Nat /\ k - 1 \notin Bad
    BY <1>1, <1>3
  <2>2. PICK within : AreWithin(tree, i, within, k - 1)
    BY <2>1
  <2> DEFINE w == [n \in 0..k |-> IF n = 0 THEN {i} ELSE farther(tree, i, within[n - 1])]
  <2>3. ASSUME NEW n \in 0..(k - 1) PROVE w[n] = within[n]
    <3>1. n \in 0..k
      BY <2>1
    <3>2. within[n] = IF n = 0 THEN {i} ELSE farther(tree, i, within[n - 1])
      BY <2>2 DEF AreWithin
    <3> QED BY <3>1, <3>2
  <2>4. ASSUME NEW n \in 0..k, n # 0 PROVE farther(tree, i, within[n - 1]) = farther(tree, i, w[n - 1])
    <3>1. n - 1 \in 0..(k - 1)
      BY <2>1, <2>4
    <3> QED BY <3>1, <2>3
  <2>5. w = [n \in 0..k |-> IF n = 0 THEN {i} ELSE farther(tree, i, w[n - 1])]
    BY <2>4
  <2>6. AreWithin(tree, i, w, k)
    BY <2>5 DEF AreWithin
  <2> QED BY <2>6
<1> QED BY <1>2, <1>3

\* pathsIn() and below() are the last values.
PathTable(tree, path, m) ==
  path = [n \in 0..m |-> [i \in Ids |->
           IF i = Home THEN <<>>
           ELSE IF i = Outside \/ n = 0 THEN NoPath
           ELSE IF tree[i] \notin Places THEN NoPath
           ELSE LET above == path[n - 1][tree[i][1]]
                IN  IF above = NoPath THEN NoPath ELSE Append(above, tree[i][2])]]

LEMMA PathTableIs ==
  ASSUME NEW tree, NEW path, NEW m \in Nat
  PROVE  PathTable(tree, path, m) <=> ArePaths(tree, path, m)
<1> DEFINE T == [n \in 0..m |-> [i \in Ids |->
                   IF i = Home THEN <<>>
                   ELSE IF i = Outside \/ n = 0 THEN NoPath
                   ELSE IF tree[i] \notin Places THEN NoPath
                   ELSE LET above == path[n - 1][tree[i][1]]
                        IN  IF above = NoPath THEN NoPath ELSE Append(above, tree[i][2])]]
           U == [n \in 0..m |-> IF n = 0 THEN shortest ELSE longer(tree, path[n - 1])]
<1>1. ASSUME NEW n \in 0..m PROVE T[n] = U[n]
  <2>1. CASE n = 0
    <3>1. T[n] = [i \in Ids |-> IF i = Home THEN <<>> ELSE NoPath]
      BY <2>1
    <3>2. U[n] = shortest
      BY <2>1
    <3> QED BY <3>1, <3>2 DEF shortest
  <2>2. CASE n # 0
    <3>1. T[n] = [i \in Ids |-> IF i = Home THEN <<>>
                                ELSE IF i = Outside THEN NoPath
                                ELSE IF tree[i] \notin Places THEN NoPath
                                ELSE IF path[n - 1][tree[i][1]] = NoPath THEN NoPath
                                ELSE Append(path[n - 1][tree[i][1]], tree[i][2])]
      BY <2>2
    <3>2. U[n] = longer(tree, path[n - 1])
      BY <2>2
    <3> QED BY <3>1, <3>2 DEF longer
  <2> QED BY <2>1, <2>2
<1> HIDE DEF T, U
<1>2. T = U
  <2>1. T = [n \in 0..m |-> T[n]] /\ U = [n \in 0..m |-> U[n]]
    BY DEF T, U
  <2> QED BY <2>1, <1>1
<1>3. (PathTable(tree, path, m) <=> path = T) /\ (ArePaths(tree, path, m) <=> path = U)
  BY DEF PathTable, ArePaths, T, U
<1> QED BY <1>2, <1>3

LEMMA PathsAre ==
  ASSUME NEW tree
  PROVE  \E path : ArePaths(tree, path, Size) /\ pathsIn(tree) = path[Size]
<1> DEFINE p == CHOOSE path : PathTable(tree, path, Size)
<1>1. \E path : PathTable(tree, path, Size)
  BY PathsExist, SizeIsNat, PathTableIs
<1>2. ArePaths(tree, p, Size)
  BY <1>1, SizeIsNat, PathTableIs
<1>3. pathsIn(tree) = p[Size]
  BY DEF pathsIn, PathTable, Size
<1> QED BY <1>2, <1>3

LEMMA BelowIs ==
  ASSUME NEW tree, NEW i
  PROVE  \E within : AreWithin(tree, i, within, Size) /\ below(tree, i) = within[Size] \cap Inodes
<1> DEFINE w == CHOOSE within : AreWithin(tree, i, within, Size)
<1>1. AreWithin(tree, i, w, Size)
  BY WithinExist, SizeIsNat
<1>2. below(tree, i) = w[Size] \cap Inodes
  BY DEF below, AreWithin, farther, Size
<1> QED BY <1>1, <1>2

\* A path is that of the folder above and a name; Home has the empty one.
PathOf(tree, path, m) ==
  \A i \in Ids, n \in 0..m :
    path[n][i] # NoPath =>
      \/ i = Home /\ path[n][i] = <<>>
      \/ /\ i \in Inodes /\ tree[i] \in Places /\ n > 0
         /\ path[n - 1][tree[i][1]] # NoPath
         /\ path[n][i] = Append(path[n - 1][tree[i][1]], tree[i][2])

LEMMA LongerIs ==
  ASSUME NEW tree, NEW above, NEW i \in Ids, longer(tree, above)[i] # NoPath
  PROVE  \/ i = Home /\ longer(tree, above)[i] = <<>>
         \/ /\ i \in Inodes /\ tree[i] \in Places
            /\ above[tree[i][1]] # NoPath
            /\ longer(tree, above)[i] = Append(above[tree[i][1]], tree[i][2])
<1>1. longer(tree, above)[i] = IF i = Home THEN <<>>
                              ELSE IF i = Outside THEN NoPath
                              ELSE IF tree[i] \notin Places THEN NoPath
                              ELSE IF above[tree[i][1]] = NoPath THEN NoPath
                              ELSE Append(above[tree[i][1]], tree[i][2])
  BY DEF longer
<1>2. i = Home \/ i = Outside \/ i \in Inodes
  BY DEF Ids
<1> QED BY <1>1, <1>2

LEMMA PathSteps ==
  ASSUME NEW tree, NEW m \in Nat, NEW path, ArePaths(tree, path, m)
  PROVE  PathOf(tree, path, m)
<1> SUFFICES ASSUME NEW i \in Ids, NEW n \in 0..m, path[n][i] # NoPath
             PROVE  \/ i = Home /\ path[n][i] = <<>>
                    \/ /\ i \in Inodes /\ tree[i] \in Places /\ n > 0
                       /\ path[n - 1][tree[i][1]] # NoPath
                       /\ path[n][i] = Append(path[n - 1][tree[i][1]], tree[i][2])
  BY DEF PathOf
<1>1. CASE n = 0
  <2>1. path[n] = shortest
    BY <1>1 DEF ArePaths
  <2> QED BY <2>1 DEF shortest
<1>2. CASE n # 0
  <2>1. path[n] = longer(tree, path[n - 1]) /\ n > 0
    BY <1>2 DEF ArePaths
  <2>2. longer(tree, path[n - 1])[i] # NoPath
    BY <2>1
  <2> HIDE DEF ArePaths
  <2>3. \/ i = Home /\ longer(tree, path[n - 1])[i] = <<>>
        \/ /\ i \in Inodes /\ tree[i] \in Places
           /\ path[n - 1][tree[i][1]] # NoPath
           /\ longer(tree, path[n - 1])[i] = Append(path[n - 1][tree[i][1]], tree[i][2])
    BY <2>2, LongerIs
  <2> QED BY <2>1, <2>3
<1> QED BY <1>1, <1>2

\* The names of a path
LEMMA PathsAreNames ==
  ASSUME NEW tree, NEW m \in Nat, NEW path, ArePaths(tree, path, m)
  PROVE  \A i \in Ids, n \in 0..m : path[n][i] # NoPath => path[n][i] \in Seq(Names)
<1>2. PathOf(tree, path, m)
  BY PathSteps
<1> DEFINE Bad == {n \in Nat : n <= m /\ \E j \in Ids : path[n][j] # NoPath /\ path[n][j] \notin Seq(Names)}
<1>3. Bad = {}
  <2> SUFFICES ASSUME Bad # {} PROVE FALSE
    OBVIOUS
  <2>1. PICK n \in Bad : \A k \in Bad : n <= k
    BY MinIsLeast
  <2>2. PICK j \in Ids : path[n][j] # NoPath /\ path[n][j] \notin Seq(Names)
    OBVIOUS
  <2>3. n \in 0..m
    OBVIOUS
  <2>4. /\ j \in Inodes /\ tree[j] \in Places /\ n > 0
        /\ path[n - 1][tree[j][1]] # NoPath
        /\ path[n][j] = Append(path[n - 1][tree[j][1]], tree[j][2])
    <3>1. <<>> \in Seq(Names)
      OBVIOUS
    <3>2. \/ j = Home /\ path[n][j] = <<>>
          \/ /\ j \in Inodes /\ tree[j] \in Places /\ n > 0
             /\ path[n - 1][tree[j][1]] # NoPath
             /\ path[n][j] = Append(path[n - 1][tree[j][1]], tree[j][2])
      BY <1>2, <2>2, <2>3 DEF PathOf
    <3> QED BY <3>2, <2>2, <3>1
  <2>5. tree[j][1] \in Ids /\ tree[j][2] \in Names
    BY <2>4, PlacesAre
  <2>6. n - 1 \in Nat /\ n - 1 <= m /\ n - 1 \notin Bad
    BY <2>1, <2>3, <2>4
  <2>7. path[n - 1][tree[j][1]] \in Seq(Names)
    BY <2>4, <2>5, <2>6
  <2> QED BY <2>2, <2>4, <2>5, <2>7
<1> QED BY <1>3

\* What has a path is in a folder.
LEMMA WithinTree ==
  ASSUME NEW tree, NEW i \in Inodes, pathsIn(tree)[i] # NoPath
  PROVE  /\ tree[i] \in Places
         /\ \E s \in Seq(Names) : pathsIn(tree)[i] = Append(s, tree[i][2])
<1>1. PICK path : ArePaths(tree, path, Size) /\ pathsIn(tree) = path[Size]
  BY PathsAre
<1>2. PathOf(tree, path, Size)
  BY <1>1, PathSteps, SizeIsNat
<1>3. Size \in 0..Size /\ i \in Ids /\ i # Home
  BY SizeIsNat, ConstantsAssumption DEF Ids
<1>4. /\ tree[i] \in Places /\ Size > 0
      /\ path[Size - 1][tree[i][1]] # NoPath
      /\ path[Size][i] = Append(path[Size - 1][tree[i][1]], tree[i][2])
  BY <1>1, <1>2, <1>3 DEF PathOf
<1>5. tree[i][1] \in Ids /\ Size - 1 \in 0..Size
  BY <1>4, SizeIsNat, PlacesAre
<1>6. path[Size - 1][tree[i][1]] \in Seq(Names)
  BY <1>1, <1>4, <1>5, SizeIsNat, PathsAreNames
<1> QED BY <1>1, <1>4, <1>6

LEMMA PathIsNames ==
  ASSUME NEW tree, NEW i \in Ids, pathsIn(tree)[i] # NoPath
  PROVE  pathsIn(tree)[i] \in Seq(Names)
<1>1. PICK path : ArePaths(tree, path, Size) /\ pathsIn(tree) = path[Size]
  BY PathsAre
<1>2. Size \in 0..Size
  BY SizeIsNat
<1> QED BY <1>1, <1>2, SizeIsNat, PathsAreNames

\* Whatever is above an inode that has a path has a name in that path.
NameIsIn(tree, j, i) == \E n \in 1..Len(pathsIn(tree)[i]) : tree[j][2] = pathsIn(tree)[i][n]

LEMMA NamesAbove ==
  ASSUME NEW tree, NEW i \in Inodes, pathsIn(tree)[i] # NoPath,
         NEW j \in Inodes, i \in below(tree, j)
  PROVE  tree[j] \in Places /\ NameIsIn(tree, j, i)
<1>1. PICK path : ArePaths(tree, path, Size) /\ pathsIn(tree) = path[Size]
  BY PathsAre
<1>2. PathOf(tree, path, Size)
  BY <1>1, PathSteps, SizeIsNat
<1>3. PICK within : AreWithin(tree, j, within, Size) /\ below(tree, j) = within[Size] \cap Inodes
  BY BelowIs
<1> DEFINE Named(k, l, m) == tree[j] \in Places /\ \E n \in 1..Len(path[m][l]) : tree[j][2] = path[m][l][n]
           Bad == {k \in Nat : /\ k <= Size
                               /\ \E l \in Inodes, m \in 0..Size :
                                    l \in within[k] /\ path[m][l] # NoPath /\ ~Named(k, l, m)}
<1>4. Bad = {}
  <2> SUFFICES ASSUME Bad # {} PROVE FALSE
    OBVIOUS
  <2>1. PICK k \in Bad : \A o \in Bad : k <= o
    BY MinIsLeast
  <2>2. PICK l \in Inodes, m \in 0..Size : l \in within[k] /\ path[m][l] # NoPath /\ ~Named(k, l, m)
    OBVIOUS
  <2> DEFINE up == tree[l][1]
  <2>3. /\ tree[l] \in Places /\ m > 0 /\ path[m - 1][up] # NoPath
        /\ path[m][l] = Append(path[m - 1][up], tree[l][2])
    BY <1>2, <2>2, ConstantsAssumption DEF PathOf, Ids
  <2>4. up \in Ids /\ tree[l][2] \in Names
    BY <2>3, PlacesAre
  <2>5. path[m - 1][up] \in Seq(Names)
    <3>1. m - 1 \in 0..Size
      BY <2>3, SizeIsNat
    <3> QED BY <1>1, <2>3, <2>4, <3>1, SizeIsNat, PathsAreNames
  <2> DEFINE s == path[m - 1][up]
             t == path[m][l]
  <2>a. t = Append(s, tree[l][2]) /\ s \in Seq(Names) /\ tree[l][2] \in Names
    BY <2>3, <2>4, <2>5
  <2>b. \/ ~ tree[j] \in Places
        \/ \A n \in 1..Len(t) : tree[j][2] # t[n]
    BY <2>2
  <2>c. /\ Len(t) = Len(s) + 1 /\ Len(s) \in Nat
        /\ t[Len(s) + 1] = tree[l][2]
        /\ \A n \in 1..Len(s) : t[n] = s[n]
    <3> HIDE DEF s, t
    <3> QED BY <2>a, Appended
  <2>6. CASE l = j
    <3> HIDE DEF s, t
    <3>1. Len(s) + 1 \in 1..Len(t)
      BY <2>c
    <3> QED BY <2>3, <2>6, <2>b, <2>c, <3>1
  <2>7. CASE l # j
    <3>1. k # 0
      BY <1>3, <2>2, <2>7, SizeIsNat DEF AreWithin
    <3>2. up \in within[k - 1]
      BY <1>3, <2>2, <2>7, <3>1, SizeIsNat DEF AreWithin, farther
    <3>3. up \in Inodes
      BY <1>3, <3>1, <3>2, SizeIsNat DEF AreWithin, farther
    <3>4. Named(k - 1, up, m - 1)
      <4>1. k - 1 \in Nat /\ k - 1 <= Size /\ k - 1 \notin Bad
        BY <2>1, <3>1, SizeIsNat
      <4>2. m - 1 \in 0..Size
        BY <2>3, SizeIsNat
      <4> QED BY <4>1, <4>2, <2>3, <3>2, <3>3
    <3>5. tree[j] \in Places /\ \E n \in 1..Len(s) : tree[j][2] = s[n]
      BY <3>4
    <3> HIDE DEF s, t
    <3>6. PICK n \in 1..Len(s) : tree[j][2] = s[n]
      BY <3>5
    <3>7. n \in 1..Len(t) /\ tree[j][2] = t[n]
      BY <2>c, <3>6
    <3> QED BY <2>b, <3>5, <3>7
  <2> QED BY <2>6, <2>7
<1>5. i \in within[Size] /\ path[Size][i] # NoPath
  BY <1>1, <1>3
<1>6. Named(Size, i, Size)
  BY <1>4, <1>5, SizeIsNat
<1> QED BY <1>1, <1>6 DEF NameIsIn

-----------------------------------------------------------------------------
(* The inductive invariant. *)

\* No name on the way is hidden.
Shown(path) == \A n \in DOMAIN path : path[n] \notin Hidden

\* Only the last name of a path that waits may be hidden: the jobs look at it
\* again. No folder is on its way to a hidden name, and none with one is watched.
MovesAreShown ==
  \A n \in DOMAIN queue :
    queue[n].event = "MoveTo" /\ queue[n].isDir => queue[n].name \notin Hidden
WatchesAreShown   == \A i \in Watchable : watches.path[i] # NoPath => Shown(watches.path[i])
WaitingIsShown    == \A e \in pending \cup lists : Shown(folderOf(e.path))
DocumentsAreShown == \A i \in Inodes : Known(i) => doc[i][2] \notin Hidden

HiddenInv ==
  disturbed = {} => MovesAreShown /\ WatchesAreShown /\ WaitingIsShown /\ DocumentsAreShown

-----------------------------------------------------------------------------
(* Sequences and paths. *)

LEMMA FolderOfAppended ==
  ASSUME NEW s \in Seq(Names), NEW x \in Names
  PROVE  folderOf(Append(s, x)) = s /\ Last(Append(s, x)) = x
<1>1. folderOf(Append(s, x)) = SubSeq(Append(s, x), 1, Len(s))
  BY DEF folderOf
<1>2. SubSeq(Append(s, x), 1, Len(s)) = s
  OBVIOUS
<1> QED BY <1>1, <1>2 DEF Last

LEMMA FolderOfNames ==
  ASSUME NEW s \in Seq(Names), s # <<>>
  PROVE  /\ folderOf(s) \in Seq(Names) /\ Last(s) \in Names /\ Last(s) = s[Len(s)]
         /\ DOMAIN folderOf(s) = 1..(Len(s) - 1)
         /\ \A n \in 1..(Len(s) - 1) : folderOf(s)[n] = s[n]
BY DEF folderOf, Last

LEMMA FolderIsShown ==
  ASSUME NEW s \in Seq(Names), Shown(s)
  PROVE  folderOf(s) \in Seq(Names) /\ Shown(folderOf(s))
BY DEF folderOf, Shown

\* shouldBeIndexed() looks at every name.
LEMMA IndexedIsShown ==
  ASSUME NEW path, shouldBeIndexed(path)
  PROVE  path # NoPath /\ Shown(path)
BY DEF shouldBeIndexed, indexable, shouldFileBeIndexed, Shown

\* What there is at a path in the tree of folders and files
LEMMA AtPath ==
  ASSUME NEW tree, NEW path, NEW i \in At(tree, path)
  PROVE  i \in Inodes \cup {Home} /\ path # NoPath /\ pathsIn(tree)[i] = path /\ path \in Seq(Names)
<1>1. i \in Inodes \cup {Home} /\ path # NoPath /\ pathsIn(tree)[i] = path
  BY DEF At
<1>2. i \in Ids
  BY <1>1 DEF Ids
<1> QED BY <1>1, <1>2, PathIsNames

\* The folders that addPath() enters are on the way to the file.
OnTheWay(d, S, j) ==
  \/ entered(d, S)[j] = d[j]
  \/ /\ entered(d, S)[j] = place[j] /\ place[j] \in Places
     /\ \E i \in S : NameIsIn(place, j, i)

LEMMA EnteredIs ==
  ASSUME NEW d, NEW S \in SUBSET Inodes, \A i \in S : pathsIn(place)[i] # NoPath
  PROVE  \A j \in Inodes : OnTheWay(d, S, j)
<1> SUFFICES ASSUME NEW j \in Inodes, entered(d, S)[j] # d[j]
             PROVE  /\ entered(d, S)[j] = place[j] /\ place[j] \in Places
                    /\ \E i \in S : NameIsIn(place, j, i)
  BY DEF OnTheWay
<1>1. entered(d, S)[j] = place[j] /\ \E i \in S : i \in below(place, j)
  BY DEF entered
<1>2. PICK i \in S : i \in below(place, j)
  BY <1>1
<1>3. i \in Inodes /\ pathsIn(place)[i] # NoPath
  OBVIOUS
<1>4. place[j] \in Places /\ NameIsIn(place, j, i)
  BY <1>2, <1>3, NamesAbove
<1> QED BY <1>1, <1>4

-----------------------------------------------------------------------------
(* TypeOK. *)

LEMMA Heard ==
  ASSUME TypeOK, NEW e \in [event : Kinds, wd : Parents, name : Names, isDir : BOOLEAN, cookie : Nat]
  PROVE  /\ heard(e) \in Seq(Events)
         /\ \A n \in DOMAIN heard(e) : heard(e)[n] = e /\ e.wd \in watches.kernel
<1>1. CASE e.wd \in watches.kernel
  <2>1. e \in Events
    BY <1>1 DEF TypeOK, Events, Parents, Watchable
  <2> QED BY <1>1, <2>1 DEF heard
<1>2. CASE e.wd \notin watches.kernel
  BY <1>2 DEF heard
<1> QED BY <1>1, <1>2

LEMMA Queued ==
  ASSUME TypeOK, NEW events \in Seq(Events)
  PROVE  /\ queued(events) \in Seq(Events \cup {Overflow})
         /\ \A n \in DOMAIN queued(events) :
              \/ queued(events)[n] = Overflow
              \/ \E m \in DOMAIN queue : queued(events)[n] = queue[m]
              \/ \E m \in DOMAIN events : queued(events)[n] = events[m]
<1> DEFINE seen == queue \o events
           S == Events \cup {Overflow}
<1>0. queue \in Seq(S) /\ events \in Seq(S)
  <2>1. queue \in Seq(S)
    BY DEF TypeOK
  <2>2. \A A, B : A \subseteq B => Seq(A) \subseteq Seq(B)
    OBVIOUS
  <2>3. Events \subseteq S
    OBVIOUS
  <2> HIDE DEF S
  <2>4. Seq(Events) \subseteq Seq(S)
    BY <2>2, <2>3
  <2> QED BY <2>1, <2>4
<1>1. /\ seen \in Seq(Events \cup {Overflow})
      /\ \A n \in DOMAIN seen : \/ \E m \in DOMAIN queue : seen[n] = queue[m]
                                \/ \E m \in DOMAIN events : seen[n] = events[m]
  <2> HIDE DEF S
  <2>1. /\ seen \in Seq(S)
        /\ \A n \in DOMAIN seen : \/ \E m \in DOMAIN queue : seen[n] = queue[m]
                                  \/ \E m \in DOMAIN events : seen[n] = events[m]
    BY <1>0
  <2> QED BY <2>1 DEF S
<1>2. CASE Len(seen) <= QueueLimit
  BY <1>1, <1>2 DEF queued
<1>3. CASE ~(Len(seen) <= QueueLimit)
  <2> DEFINE kept == SubSeq(seen, 1, QueueLimit)
  <2> HIDE DEF seen
  <2>1. QueueLimit \in Nat
    BY ConstantsAssumption
  <2>2. /\ kept \in Seq(Events \cup {Overflow}) /\ Len(kept) = QueueLimit
        /\ \A n \in 1..QueueLimit : n \in DOMAIN seen /\ kept[n] = seen[n]
    BY <1>1, <1>3, <2>1
  <2>3. queued(events) = Append(kept, Overflow)
    BY <1>3 DEF queued, seen
  <2> HIDE DEF kept
  <2>4. /\ Append(kept, Overflow) \in Seq(Events \cup {Overflow})
        /\ Len(Append(kept, Overflow)) = QueueLimit + 1
        /\ Append(kept, Overflow)[QueueLimit + 1] = Overflow
        /\ \A n \in 1..QueueLimit : Append(kept, Overflow)[n] = kept[n]
    BY <2>1, <2>2
  <2>5. ASSUME NEW n \in 1..(QueueLimit + 1) 
        PROVE  \/ Append(kept, Overflow)[n] = Overflow
               \/ \E m \in DOMAIN queue : Append(kept, Overflow)[n] = queue[m]
               \/ \E m \in DOMAIN events : Append(kept, Overflow)[n] = events[m]
    <3>1. n = QueueLimit + 1 \/ n \in 1..QueueLimit
      BY <2>1
    <3> QED BY <3>1, <2>4, <2>2, <1>1
  <2>6. DOMAIN Append(kept, Overflow) = 1..(QueueLimit + 1)
    BY <2>4, <2>1
  <2> QED BY <2>3, <2>4, <2>5, <2>6
<1> QED BY <1>2, <1>3

\* The event that is handled, and the path it is about
LEMMA HeadOfQueue ==
  ASSUME TypeOK, queue # <<>>
  PROVE  /\ Head(queue) \in Events \cup {Overflow} /\ Head(queue) = queue[1] /\ 1 \in DOMAIN queue
         /\ Tail(queue) \in Seq(Events \cup {Overflow})
         /\ \A n \in DOMAIN Tail(queue) : n + 1 \in DOMAIN queue /\ Tail(queue)[n] = queue[n + 1]
<1>1. queue \in Seq(Events \cup {Overflow})
  BY DEF TypeOK
<1> DEFINE S == Events \cup {Overflow}
<1> HIDE DEF S
<1>2. queue \in Seq(S)
  BY <1>1 DEF S
<1>3. /\ Head(queue) \in S /\ Head(queue) = queue[1] /\ 1 \in DOMAIN queue
      /\ Tail(queue) \in Seq(S)
      /\ \A n \in DOMAIN Tail(queue) : n + 1 \in DOMAIN queue /\ Tail(queue)[n] = queue[n + 1]
  BY <1>2
<1> QED BY <1>3 DEF S

LEMMA PathOfEvent ==
  ASSUME TypeOK, NEW e \in Events \cup {Overflow}, e.event \in Kinds, pathOf(e) # NoPath
  PROVE  /\ e \in Events /\ pathOf(e) \in Seq(Names)
         /\ e.event # "DeleteSelf" =>
              /\ watches.path[e.wd] # NoPath /\ watches.path[e.wd] \in Seq(Names)
              /\ pathOf(e) = Append(watches.path[e.wd], e.name)
<1>1. e # Overflow
  BY DEF Overflow, Kinds
<1>2. e \in Events /\ e.wd \in Watchable /\ e.name \in Names
  BY <1>1 DEF Events
<1>3. watches.path[e.wd] \in {NoPath} \cup Seq(Names)
  BY <1>2 DEF TypeOK
<1>4. CASE e.event = "DeleteSelf"
  BY <1>1, <1>2, <1>3, <1>4 DEF pathOf
<1>5. CASE e.event # "DeleteSelf"
  BY <1>1, <1>2, <1>3, <1>5, Appended DEF pathOf
<1> QED BY <1>4, <1>5

LEMMA AddedWatches ==
  ASSUME TypeOK, NEW S \in SUBSET Watchable
  PROVE  /\ addWatches(watches, S) \in [kernel : SUBSET Watchable,
                                       path   : [Watchable -> {NoPath} \cup Seq(Names)],
                                       wd     : SUBSET (({NoPath} \cup Seq(Names)) \X Watchable)]
         /\ \A i \in Watchable : addWatches(watches, S).path[i] =
                                  IF i \in S THEN pathsIn(place)[i] ELSE watches.path[i]
<1>1. \A i \in S : pathsIn(place)[i] \in {NoPath} \cup Seq(Names)
  BY PathIsNames DEF Watchable, Ids, Inodes
<1>2. DOMAIN watches.path = Watchable
  BY DEF TypeOK
<1> DEFINE k == watches.kernel \cup S
           p == [i \in Watchable |-> IF i \in S THEN pathsIn(place)[i] ELSE watches.path[i]]
           w == {e \in watches.wd : \A i \in S : e[1] # pathsIn(place)[i]} \cup {<<pathsIn(place)[i], i>> : i \in S}
<1>3. addWatches(watches, S) = [kernel |-> k, path |-> p, wd |-> w]
  BY <1>2 DEF addWatches
<1>4. k \in SUBSET Watchable
  BY DEF TypeOK
<1>5. p \in [Watchable -> {NoPath} \cup Seq(Names)]
  BY <1>1 DEF TypeOK
<1>6. w \in SUBSET (({NoPath} \cup Seq(Names)) \X Watchable)
  BY <1>1 DEF TypeOK
<1> QED BY <1>3, <1>4, <1>5, <1>6

LEMMA RemovedWatches ==
  ASSUME TypeOK, NEW S \in SUBSET Watchable
  PROVE  /\ removeWatches(watches, S) \in [kernel : SUBSET Watchable,
                                          path   : [Watchable -> {NoPath} \cup Seq(Names)],
                                          wd     : SUBSET (({NoPath} \cup Seq(Names)) \X Watchable)]
         /\ \A i \in Watchable : removeWatches(watches, S).path[i] =
                                  IF i \in S THEN NoPath ELSE watches.path[i]
<1>2. DOMAIN watches.path = Watchable
  BY DEF TypeOK
<1> DEFINE k == watches.kernel \ S
           p == [i \in Watchable |-> IF i \in S THEN NoPath ELSE watches.path[i]]
           w == {e \in watches.wd : \A i \in S : e[1] # watches.path[i]}
<1>3. removeWatches(watches, S) = [kernel |-> k, path |-> p, wd |-> w]
  BY <1>2 DEF removeWatches
<1>4. k \in SUBSET Watchable
  BY DEF TypeOK
<1>5. p \in [Watchable -> {NoPath} \cup Seq(Names)]
  BY DEF TypeOK
<1>6. w \in SUBSET (({NoPath} \cup Seq(Names)) \X Watchable)
  BY DEF TypeOK
<1> QED BY <1>3, <1>4, <1>5, <1>6

LEMMA MovedWatch ==
  ASSUME TypeOK, NEW from, NEW i \in Watchable, NEW to \in Seq(Names)
  PROVE  /\ movedWatch(watches, from, i, to) \in [kernel : SUBSET Watchable,
                                          path   : [Watchable -> {NoPath} \cup Seq(Names)],
                                          wd     : SUBSET (({NoPath} \cup Seq(Names)) \X Watchable)]
         /\ \A j \in Watchable : movedWatch(watches, from, i, to).path[j] =
                                  IF j = i THEN to ELSE watches.path[j]
<1> DEFINE p == [watches.path EXCEPT ![i] = to]
           w == {e \in watches.wd \ {<<from, i>>} : e[1] # to} \cup {<<to, i>>}
<1>1. movedWatch(watches, from, i, to) = [watches EXCEPT !.path = p, !.wd = w]
  BY DEF movedWatch, insertWatch, TypeOK
<1>2. p \in [Watchable -> {NoPath} \cup Seq(Names)]
  BY DEF TypeOK
<1>3. w \in SUBSET (({NoPath} \cup Seq(Names)) \X Watchable)
  BY DEF TypeOK
<1> QED BY <1>1, <1>2, <1>3 DEF TypeOK

LEMMA Notified ==
  ASSUME TypeOK, NEW events \in Seq(Events), NEW causes, Notify(events, causes)
  PROVE  /\ queue' \in Seq(Events \cup {Overflow})
         /\ \A n \in DOMAIN queue' :
              \/ queue'[n] = Overflow
              \/ \E m \in DOMAIN queue : queue'[n] = queue[m]
              \/ \E m \in DOMAIN events : queue'[n] = events[m]
         /\ disturbed \cup causes \subseteq disturbed'
<1>1. queue' = queued(events) /\ disturbed \cup causes \subseteq disturbed'
  BY DEF Notify
<1> QED BY <1>1, Queued

\* What a look into a new folder finds
LEMMA FoundIs ==
  ASSUME NEW path, NEW isDir, NEW i \in found(path, isDir)
  PROVE  /\ i \in Inodes /\ pathsIn(place)[i] # NoPath /\ pathsIn(place)[i] \in Seq(Names)
         /\ Shown(pathsIn(place)[i])
<1>1. /\ i \in Inodes /\ pathsIn(place)[i] # NoPath /\ shouldBeIndexed(pathsIn(place)[i])
  BY DEF found, foundIn
<1>2. i \in Ids
  BY <1>1 DEF Ids
<1> QED BY <1>1, <1>2, PathIsNames, IndexedIsShown

LEMMA AnnouncedNew ==
  ASSUME TypeOK, NEW path \in Seq(Names), NEW isDir, announceNew(path, isDir)
  PROVE  /\ pending' \subseteq Jobs
         /\ \A e \in pending' : \/ e \in pending \/ e.path = path
                                \/ e.path \in Seq(Names) /\ Shown(e.path)
<1>1. pending' = pending \cup {Job("new", path)} \cup {Job("new", pathsIn(place)[i]) : i \in found(path, isDir)}
  BY DEF announceNew
<1>2. Job("new", path) \in Jobs /\ Job("new", path).path = path
  BY DEF Job, Jobs
<1>3. ASSUME NEW i \in found(path, isDir)
      PROVE  Job("new", pathsIn(place)[i]) \in Jobs /\ Shown(Job("new", pathsIn(place)[i]).path)
  <2>1. pathsIn(place)[i] \in Seq(Names) /\ Shown(pathsIn(place)[i])
    BY FoundIs
  <2> QED BY <2>1 DEF Job, Jobs
<1> HIDE DEF Job
<1>4. pending \subseteq Jobs
  BY DEF TypeOK
<1>5. \A e \in Jobs : e.path \in Seq(Names)
  BY DEF Jobs
<1> QED BY <1>1, <1>2, <1>3, <1>4, <1>5

LEMMA CreatedIs ==
  ASSUME TypeOK, NEW path \in Seq(Names), NEW isDir, created(path, isDir)
  PROVE  /\ pending' \subseteq Jobs
         /\ \A e \in pending' : \/ e \in pending \/ e.path = path
                                \/ e.path \in Seq(Names) /\ Shown(e.path)
         /\ watches' \in [kernel : SUBSET Watchable,
                          path   : [Watchable -> {NoPath} \cup Seq(Names)],
                          wd     : SUBSET (({NoPath} \cup Seq(Names)) \X Watchable)]
         /\ \A i \in Watchable : watches'.path[i] = watches.path[i] \/ Shown(watches'.path[i])
<1>1. announceNew(path, isDir)
  BY DEF created
<1> DEFINE S == found(path, isDir) \cap Folders
<1>2. watches' = addWatches(watches, S)
  BY DEF created
<1>3. S \in SUBSET Watchable
  BY DEF Watchable
<1>4. \A i \in S : Shown(pathsIn(place)[i])
  BY FoundIs
<1> HIDE DEF S
<1>5. /\ watches' \in [kernel : SUBSET Watchable,
                       path   : [Watchable -> {NoPath} \cup Seq(Names)],
                       wd     : SUBSET (({NoPath} \cup Seq(Names)) \X Watchable)]
      /\ \A i \in Watchable : watches'.path[i] = IF i \in S THEN pathsIn(place)[i] ELSE watches.path[i]
  BY <1>2, <1>3, AddedWatches
<1> QED BY <1>1, <1>4, <1>5, AnnouncedNew

DocPlaces == (Ids \X Names) \cup {Gone}

LEMMA RemovedMetadata ==
  ASSUME NEW d, NEW path, NEW isDir
  PROVE  /\ removeMetadata(d, path, isDir) = [j \in Inodes |-> removeMetadata(d, path, isDir)[j]]
         /\ \A j \in Inodes : removeMetadata(d, path, isDir)[j] \in {d[j], Gone}
BY DEF removeMetadata

LEMMA UpdatedMetadata ==
  ASSUME NEW d \in [Inodes -> DocPlaces], NEW id, NEW parent \in SUBSET (Inodes \cup {Home}),
         NEW to, Last(to) \in Names
  PROVE  /\ updateMetadata(d, id, parent, to) \in [Inodes -> DocPlaces]
         /\ \A j \in Inodes : \/ updateMetadata(d, id, parent, to)[j] = d[j]
                              \/ updateMetadata(d, id, parent, to)[j][2] = Last(to)
<1>1. CASE id = {} \/ parent = {}
  BY <1>1 DEF updateMetadata
<1>2. CASE ~(id = {} \/ parent = {})
  <2> DEFINE c == CHOOSE i \in id : TRUE
             p == CHOOSE q \in parent : TRUE
  <2>1. updateMetadata(d, id, parent, to) = [d EXCEPT ![c] = <<p, Last(to)>>]
    BY <1>2 DEF updateMetadata
  <2>2. p \in Ids
    BY <1>2 DEF Ids
  <2> HIDE DEF c, p
  <2>3. <<p, Last(to)>> \in DocPlaces /\ <<p, Last(to)>>[2] = Last(to)
    BY <2>2 DEF DocPlaces
  <2> QED BY <2>1, <2>3
<1> QED BY <1>1, <1>2

LEMMA DocumentIds == ASSUME NEW d, NEW path PROVE documentId(d, path) \subseteq Inodes \cup {Home}
<1>1. CASE At(d, path) = {}
  BY <1>1 DEF documentId
<1>2. CASE At(d, path) # {}
  <2>1. (CHOOSE i \in At(d, path) : TRUE) \in At(d, path)
    BY <1>2
  <2>2. At(d, path) \subseteq Inodes \cup {Home}
    BY DEF At
  <2> QED BY <1>2, <2>1, <2>2 DEF documentId
<1> QED BY <1>1, <1>2

LEMMA MovedMetadata ==
  ASSUME TypeOK, NEW from, NEW to \in Seq(Names), to # <<>>, NEW isDir, slotFileMoved(from, to, isDir)
  PROVE  /\ doc' \in [Inodes -> DocPlaces]
         /\ \A j \in Inodes : doc'[j] \in {doc[j], Gone} \/ (doc'[j][2] = Last(to) /\ Shown(to))
         /\ pending' \subseteq pending
         /\ lists' \subseteq Jobs
         /\ \A e \in lists' : e \in lists \/ (e.path \in Seq(Names) /\ Shown(e.path))
         /\ disturbed \subseteq disturbed'
<1>1. doc \in [Inodes -> DocPlaces] /\ lists \subseteq Jobs /\ pending \subseteq Jobs
  BY DEF TypeOK, DocPlaces
<1>2. CASE shouldBeIndexed(to)
  <2> DEFINE removed == removeMetadata(doc, to, isDir)
             id      == documentId(removed, from)
             parent  == documentId(removed, folderOf(to))
  <2>1. /\ doc' = updateMetadata(removed, id, parent, to)
        /\ lists' = without(lists, to, isDir) \cup movedWithoutData(id, parent, to)
        /\ disturbed \subseteq disturbed' /\ pending' = pending
    BY <1>2 DEF slotFileMoved, moveFileMetadata
  <2>2. Shown(to)
    BY <1>2, IndexedIsShown
  <2>3. /\ removed \in [Inodes -> DocPlaces] /\ \A j \in Inodes : removed[j] \in {doc[j], Gone}
    BY <1>1, RemovedMetadata DEF DocPlaces
  <2>4. parent \in SUBSET (Inodes \cup {Home}) /\ Last(to) \in Names
    BY DocumentIds, FolderOfNames
  <2> HIDE DEF removed, id, parent
  <2>5. /\ doc' \in [Inodes -> DocPlaces]
        /\ \A j \in Inodes : doc'[j] = removed[j] \/ doc'[j][2] = Last(to)
    <3> DEFINE u == updateMetadata(removed, id, parent, to)
    <3>1. removed \in [Inodes -> DocPlaces] /\ parent \in SUBSET (Inodes \cup {Home}) /\ Last(to) \in Names
      BY <2>3, <2>4
    <3>2. u \in [Inodes -> DocPlaces] /\ \A j \in Inodes : u[j] = removed[j] \/ u[j][2] = Last(to)
      <4> HIDE DEF u
      <4>1. ASSUME NEW d, NEW q, NEW k, d = removed, q = parent, k = id
            PROVE  /\ updateMetadata(d, k, q, to) \in [Inodes -> DocPlaces]
                   /\ \A j \in Inodes : updateMetadata(d, k, q, to)[j] = d[j] \/ updateMetadata(d, k, q, to)[j][2] = Last(to)
        <5>1. d \in [Inodes -> DocPlaces] /\ q \in SUBSET (Inodes \cup {Home}) /\ Last(to) \in Names
          BY <3>1, <4>1
        <5> QED BY <5>1, UpdatedMetadata
      <4> QED BY <4>1 DEF u
    <3> QED BY <2>1, <3>2
  <2>6. \A e \in movedWithoutData(id, parent, to) : e \in Jobs /\ Shown(e.path)
    <3>1. folderOf(to) \in Seq(Names) /\ Shown(folderOf(to))
      BY <2>2, FolderIsShown
    <3>2. movedWithoutData(id, parent, to) \subseteq {Job("new", to), Job("new", folderOf(to))}
      BY DEF movedWithoutData
    <3>3. \A p \in Seq(Names) : Job("new", p) \in Jobs /\ Job("new", p).path = p
      BY DEF Job, Jobs
    <3> HIDE DEF Job
    <3> QED BY <2>2, <3>1, <3>2, <3>3
  <2>7. without(lists, to, isDir) \subseteq lists
    BY DEF without
  <2>8. \A e \in Jobs : e.path \in Seq(Names)
    BY DEF Jobs
  <2> QED BY <1>1, <2>1, <2>2, <2>3, <2>5, <2>6, <2>7, <2>8
<1>3. CASE ~shouldBeIndexed(to)
  <2>1. /\ doc' = removeMetadata(doc, from, isDir)
        /\ pending' = without(pending, from, isDir) /\ lists' = without(lists, from, isDir)
        /\ disturbed' = disturbed
    BY <1>3 DEF slotFileMoved, removeFileMetadata
  <2>2. pending' \subseteq pending /\ lists' \subseteq lists
    BY <2>1 DEF without
  <2>3. doc' \in [Inodes -> DocPlaces] /\ \A j \in Inodes : doc'[j] \in {doc[j], Gone}
    BY <1>1, <2>1, RemovedMetadata DEF DocPlaces
  <2> QED BY <1>1, <2>1, <2>2, <2>3
<1> QED BY <1>2, <1>3

LEMMA RemovedFile ==
  ASSUME TypeOK, NEW path, NEW isDir, removeFileMetadata(path, isDir)
  PROVE  /\ doc' \in [Inodes -> DocPlaces] /\ \A j \in Inodes : doc'[j] \in {doc[j], Gone}
         /\ pending' \subseteq pending /\ lists' \subseteq lists
<1>1. doc \in [Inodes -> DocPlaces]
  BY DEF TypeOK, DocPlaces
<1>2. doc' = removeMetadata(doc, path, isDir)
  BY DEF removeFileMetadata
<1>3. doc' \in [Inodes -> DocPlaces] /\ \A j \in Inodes : doc'[j] \in {doc[j], Gone}
  BY <1>1, <1>2, RemovedMetadata DEF DocPlaces
<1> QED BY <1>3 DEF removeFileMetadata, without

\* The steps keep the types.
WatchTypes == [kernel : SUBSET Watchable,
               path   : [Watchable -> {NoPath} \cup Seq(Names)],
               wd     : SUBSET (({NoPath} \cup Seq(Names)) \X Watchable)]

LEMMA WatchesAt ==
  ASSUME TypeOK, NEW path, NEW isDir
  PROVE  watchesAt(path, isDir) \in SUBSET Watchable
BY DEF TypeOK, watchesAt

LEMMA RemovedWatch ==
  ASSUME TypeOK, NEW path, NEW isDir, removeWatch(path, isDir)
  PROVE  /\ watches' \in WatchTypes
         /\ \A i \in Watchable : watches'.path[i] \in {watches.path[i], NoPath}
<1>1. watches' = removeWatches(watches, watchesAt(path, isDir))
  BY DEF removeWatch
<1> QED BY <1>1, WatchesAt, RemovedWatches DEF WatchTypes

WalkTypes == m_paths \subseteq Seq(Names) /\ m_dirIter \in {NoPath} \cup Walks

LEMMA StoppedWalks ==
  ASSUME TypeOK, NEW path, NEW isDir, removeWatch(path, isDir)
  PROVE  WalkTypes'
<1>1. m_paths' \subseteq m_paths /\ m_dirIter' \in {NoPath, m_dirIter}
  BY DEF removeWatch
<1> QED BY <1>1 DEF TypeOK, WalkTypes

LEMMA TypesUser == ASSUME TypeOK, User PROVE TypeOK'
<1> USE DEF DocPlaces
<1>0. /\ place \in [Inodes -> Places \cup {Unborn, Gone}] /\ changes \in 0..MaxChanges /\ MaxChanges \in Nat
      /\ touched \in [Inodes -> SUBSET {"mtime", "ctime"}]
      /\ {Unborn, Gone} \cap Places = {} /\ Folders \subseteq Inodes /\ Files \subseteq Inodes
  BY ConstantsAssumption DEF TypeOK, Inodes
<1>1. ASSUME NEW i \in Inodes, NEW at \in Places, create(i, at) PROVE TypeOK'
  <2> DEFINE e == Event("Create", at[1], at[2], i \in Folders, 0)
  <2>1. e \in [event : Kinds, wd : Parents, name : Names, isDir : BOOLEAN, cookie : Nat]
    BY DEF Event, Kinds, Places
  <2>2. heard(e) \in Seq(Events)
    BY <2>1, Heard
  <2>3. queue' \in Seq(Events \cup {Overflow})
    BY <1>1, <2>2, Notified DEF create
  <2>4. place' \in [Inodes -> Places \cup {Unborn, Gone}] /\ changes' \in 0..MaxChanges
    BY <1>1, <1>0 DEF create, Change
  <2> QED BY <1>1, <2>3, <2>4 DEF create, TypeOK, kinotify, index, waiting, settings
<1>2. ASSUME NEW i \in Inodes, NEW at \in Places, rename(i, at) PROVE TypeOK'
  <2> DEFINE e == Event("MoveFrom", place[i][1], place[i][2], i \in Folders, changes')
             f == Event("MoveTo", at[1], at[2], i \in Folders, changes')
  <2>1. place' \in [Inodes -> Places \cup {Unborn, Gone}] /\ changes' \in 0..MaxChanges
    BY <1>2, <1>0 DEF rename, Change
  <2>2. place[i] \in Places /\ changes' \in Nat
    BY <1>2, <2>1, <1>0 DEF rename
  <2>3. /\ e \in [event : Kinds, wd : Parents, name : Names, isDir : BOOLEAN, cookie : Nat]
        /\ f \in [event : Kinds, wd : Parents, name : Names, isDir : BOOLEAN, cookie : Nat]
    BY <2>2 DEF Event, Kinds, Places
  <2>4. heard(e) \o heard(f) \in Seq(Events)
    BY <2>3, Heard
  <2> HIDE DEF e, f
  <2>5. queue' \in Seq(Events \cup {Overflow})
    BY <1>2, <2>4, Notified DEF rename, e, f
  <2>6. touched' \in [Inodes -> SUBSET {"mtime", "ctime"}]
    BY <1>2, <1>0 DEF rename
  <2> QED BY <1>2, <2>1, <2>5, <2>6 DEF rename, TypeOK, kinotify, waiting, settings
<1>3. ASSUME NEW f \in Files, write(f) PROVE TypeOK'
  <2> DEFINE e == Event("Modify", place[f][1], place[f][2], FALSE, 0)
  <2>1. e \in [event : Kinds, wd : Parents, name : Names, isDir : BOOLEAN, cookie : Nat]
    BY <1>3 DEF Event, Kinds, Places, write
  <2>2. queue' \in Seq(Events \cup {Overflow})
    BY <1>3, <2>1, Heard, Notified DEF write
  <2>3. touched' \in [Inodes -> SUBSET {"mtime", "ctime"}] /\ changes' \in 0..MaxChanges
    BY <1>3, <1>0 DEF write, Change
  <2> QED BY <1>3, <2>2, <2>3 DEF write, TypeOK, kinotify, waiting, settings
<1>4. ASSUME NEW i \in Inodes, remove(i) PROVE TypeOK'
  <2> DEFINE e == Event("DeleteSelf", i, place[i][2], TRUE, 0)
             f == Event("Delete", place[i][1], place[i][2], FALSE, 0)
  <2>0. place[i] \in Places /\ place[i][1] \in Parents /\ place[i][2] \in Names
    BY <1>4 DEF remove, Places
  <2>1. f \in [event : Kinds, wd : Parents, name : Names, isDir : BOOLEAN, cookie : Nat]
    BY <2>0 DEF Event, Kinds
  <2>2. i \in Folders => e \in [event : Kinds, wd : Parents, name : Names, isDir : BOOLEAN, cookie : Nat]
    BY <2>0 DEF Event, Kinds, Parents
  <2>3. heard(f) \in Seq(Events) /\ (i \in Folders => heard(e) \in Seq(Events))
    BY <2>1, <2>2, Heard
  <2>4. queue' \in Seq(Events \cup {Overflow})
    <3>1. CASE i \in Folders
      BY <1>4, <2>3, <3>1, Notified DEF remove
    <3>2. CASE i \notin Folders
      BY <1>4, <2>3, <3>2, Notified DEF remove
    <3> QED BY <3>1, <3>2
  <2>5. place' \in [Inodes -> Places \cup {Unborn, Gone}] /\ changes' \in 0..MaxChanges
    BY <1>4, <1>0 DEF remove, Change
  <2>6. watches' \in WatchTypes
    BY <1>4 DEF remove, TypeOK, WatchTypes
  <2> QED BY <1>4, <2>4, <2>5, <2>6 DEF remove, TypeOK, index, waiting, settings, WatchTypes
<1>5. ASSUME NEW n \in Names, configure(<<n>>) PROVE TypeOK'
  <2>1. watches' \in WatchTypes
    <3>1. CASE <<n>> \in excluded
      BY <1>5, <3>1 DEF configure, TypeOK, WatchTypes
    <3>2. CASE <<n>> \notin excluded
      BY <1>5, <3>2, RemovedWatch DEF configure
    <3> QED BY <3>1, <3>2
  <2>2. lists' \subseteq lists /\ configs' \in 0..MaxConfigs /\ housekeeping' \subseteq {"stale", "unindexed"}
    BY <1>5, ConstantsAssumption DEF configure, TypeOK
  <2>3. excluded' \subseteq Seq(Names)
    <3>1. excluded' \in {excluded \ {<<n>>}, excluded \cup {<<n>>}}
      BY <1>5 DEF configure
    <3>2. <<n>> \in Seq(Names) /\ excluded \subseteq Seq(Names)
      BY DEF TypeOK
    <3> QED BY <3>1, <3>2
  <2>4. WalkTypes'
    <3>1. CASE <<n>> \in excluded
      BY <1>5, <3>1 DEF configure, TypeOK, WalkTypes
    <3>2. CASE <<n>> \notin excluded
      BY <1>5, <3>2, StoppedWalks DEF configure
    <3> QED BY <3>1, <3>2
  <2> QED BY <1>5, <2>1, <2>2, <2>3, <2>4 DEF configure, TypeOK, WatchTypes, WalkTypes, fileSystem, index
<1> QED BY <1>1, <1>2, <1>3, <1>4, <1>5 DEF User

LEMMA WatchTypesKept ==
  ASSUME TypeOK
  PROVE  /\ watches \in WatchTypes
         /\ \A S \in SUBSET Watchable : addWatches(watches, S) \in WatchTypes
         /\ \A S \in SUBSET Watchable : removeWatches(watches, S) \in WatchTypes
BY AddedWatches, RemovedWatches DEF WatchTypes, TypeOK

LEMMA TypesWatcher == ASSUME TypeOK, Watcher PROVE TypeOK'
<1>0. /\ doc \in [Inodes -> DocPlaces] /\ watches \in WatchTypes
      /\ pending \subseteq Jobs /\ lists \subseteq Jobs /\ cookies \subseteq Cookies
  BY DEF TypeOK, WatchTypes, DocPlaces
<1>1. CASE nextWalk
  <2>1. watches' \in WatchTypes
    <3>1. \A p : foldersAt(p) \in SUBSET Watchable
      BY DEF foldersAt, At, Watchable
    <3>2. \A p : addWatches(watches, foldersAt(p)) \in WatchTypes
      BY <3>1, WatchTypesKept
    <3>3. watches' = watches \/ \E p \in m_paths : watches' = addWatches(watches, foldersAt(p))
      BY <1>1 DEF nextWalk
    <3> QED BY <1>0, <3>2, <3>3
  <2>2. WalkTypes'
    <3>1. CASE m_paths = {}
      BY <1>1, <3>1 DEF nextWalk, TypeOK, WalkTypes
    <3>2. CASE m_paths # {}
      <4>1. PICK p \in m_paths : /\ m_paths' = m_paths \ {p}
                                /\ m_dirIter' \in {[filePath |-> p, toList |-> {p}],
                                                  [filePath |-> NoPath, toList |-> {}]}
        BY <1>1, <3>2 DEF nextWalk
      <4>2. m_paths \subseteq Seq(Names)
        BY DEF TypeOK
      <4>3. [filePath |-> p, toList |-> {p}] \in Walks /\ [filePath |-> NoPath, toList |-> {}] \in Walks
        BY <4>2 DEF Walks
      <4> QED BY <4>1, <4>2, <4>3 DEF WalkTypes
    <3> QED BY <3>1, <3>2
  <2> QED BY <1>1, <2>1, <2>2 DEF nextWalk, TypeOK, WatchTypes, WalkTypes, fileSystem, index, waiting, settings
<1>2. CASE addNextWatches
  <2>1. watches' \in WatchTypes
    <3>1. \A p : subfolders(p) \in SUBSET Watchable
      BY DEF subfolders, Watchable
    <3>2. \A p : addWatches(watches, subfolders(p)) \in WatchTypes
      BY <3>1, WatchTypesKept
    <3>3. \E p \in m_dirIter.toList : watches' = addWatches(watches, subfolders(p))
      BY <1>2 DEF addNextWatches
    <3> QED BY <3>2, <3>3
  <2>2. WalkTypes'
    <3>1. PICK p \in m_dirIter.toList :
            LET paths == {pathsIn(place)[i] : i \in subfolders(p)} IN
            \E last \in paths \cup {IF paths = {} THEN m_dirIter.filePath ELSE CHOOSE q \in paths : TRUE} :
               m_dirIter' = [filePath |-> last, toList |-> (m_dirIter.toList \ {p}) \cup paths]
      BY <1>2 DEF addNextWatches
    <3> DEFINE paths == {pathsIn(place)[i] : i \in subfolders(p)}
    <3>2. paths \subseteq Seq(Names)
      BY PathIsNames DEF subfolders, Ids, Inodes
    <3>3. m_dirIter \in Walks
      BY <1>2 DEF addNextWatches, TypeOK
    <3>4. m_dirIter.toList \subseteq Seq(Names) /\ m_dirIter.filePath \in {NoPath} \cup Seq(Names)
      BY <3>3 DEF Walks
    <3> HIDE DEF paths
    <3>5. (IF paths = {} THEN m_dirIter.filePath ELSE CHOOSE q \in paths : TRUE) \in {NoPath} \cup Seq(Names)
      BY <3>2, <3>4
    <3>6. PICK last \in paths \cup {IF paths = {} THEN m_dirIter.filePath ELSE CHOOSE q \in paths : TRUE} :
            m_dirIter' = [filePath |-> last, toList |-> (m_dirIter.toList \ {p}) \cup paths]
      BY <3>1 DEF paths
    <3>7. [filePath |-> last, toList |-> (m_dirIter.toList \ {p}) \cup paths] \in Walks
      BY <3>2, <3>4, <3>5 DEF Walks
    <3>8. m_paths' = m_paths
      BY <1>2 DEF addNextWatches
    <3> QED BY <3>6, <3>7, <3>8 DEF WalkTypes, TypeOK
  <2> QED BY <1>2, <2>1, <2>2 DEF addNextWatches, TypeOK, WatchTypes, WalkTypes, fileSystem, index, waiting,
             settings
<1>3. CASE ignore
  <2>1. Tail(queue) \in Seq(Events \cup {Overflow})
    BY <1>3, HeadOfQueue DEF ignore, NextEvent
  <2> QED BY <1>3, <2>1 DEF ignore, TypeOK, Handled, fileSystem, settings
<1>4. CASE eventCreate
  <2> DEFINE e == Head(queue)
  <2>1. e \in Events \cup {Overflow} /\ e.event \in Kinds /\ Tail(queue) \in Seq(Events \cup {Overflow})
    BY <1>4, HeadOfQueue DEF eventCreate, NextEvent, Kinds
  <2>2. pathOf(e) \in Seq(Names)
    BY <1>4, <2>1, PathOfEvent DEF eventCreate
  <2>3. pending' \subseteq Jobs /\ watches' \in WatchTypes
    BY <1>4, <2>2, CreatedIs DEF eventCreate, WatchTypes
  <2> QED BY <1>4, <2>1, <2>3 DEF eventCreate, created, TypeOK, WatchTypes, Handled, fileSystem, settings
<1>5. CASE eventModify
  <2> DEFINE e == Head(queue)
  <2>1. e \in Events \cup {Overflow} /\ e.event \in Kinds /\ Tail(queue) \in Seq(Events \cup {Overflow})
    BY <1>5, HeadOfQueue DEF eventModify, NextEvent, Kinds
  <2>2. pathOf(e) \in Seq(Names)
    BY <1>5, <2>1, PathOfEvent DEF eventModify
  <2>3. Job("modified", pathOf(e)) \in Jobs
    BY <2>2 DEF Job, Jobs
  <2>4. pending' \subseteq Jobs
    BY <1>0, <1>5, <2>3 DEF eventModify
  <2> QED BY <1>5, <2>1, <2>4 DEF eventModify, TypeOK, Handled, fileSystem, settings
<1>6. CASE eventDelete
  <2> DEFINE e == Head(queue)
  <2>1. e \in Events \cup {Overflow} /\ Tail(queue) \in Seq(Events \cup {Overflow})
    BY <1>6, HeadOfQueue DEF eventDelete, NextEvent
  <2>2. /\ doc' \in [Inodes -> DocPlaces] /\ pending' \subseteq Jobs /\ lists' \subseteq Jobs
    BY <1>0, <1>6, RemovedFile DEF eventDelete
  <2>3. watches' \in WatchTypes
    <3>1. CASE e.event = "DeleteSelf"
      <4>1. {e.wd} \in SUBSET Watchable
        BY <2>1, <3>1 DEF Overflow, Events
      <4> QED BY <1>6, <3>1, <4>1, WatchTypesKept DEF eventDelete
    <3>2. CASE e.event # "DeleteSelf"
      BY <1>0, <1>6, <3>2 DEF eventDelete
    <3> QED BY <3>1, <3>2
  <2> QED BY <1>6, <2>1, <2>2, <2>3 DEF eventDelete, TypeOK, WatchTypes, DocPlaces, Handled, fileSystem,
             settings
<1>7. CASE eventMoveFrom
  <2> DEFINE e == Head(queue)
  <2>1. e \in Events \cup {Overflow} /\ e.event \in Kinds /\ Tail(queue) \in Seq(Events \cup {Overflow})
    BY <1>7, HeadOfQueue DEF eventMoveFrom, NextEvent, Kinds
  <2>2. e \in Events /\ pathOf(e) \in Seq(Names)
    BY <1>7, <2>1, PathOfEvent DEF eventMoveFrom
  <2>3. [cookie |-> e.cookie, path |-> pathOf(e), isDir |-> e.isDir] \in Cookies
    BY <2>2 DEF Events, Cookies
  <2>4. cookies' \subseteq Cookies
    BY <1>0, <1>7, <2>3 DEF eventMoveFrom
  <2> QED BY <1>7, <2>1, <2>4 DEF eventMoveFrom, TypeOK, Handled, fileSystem, settings
<1>8. CASE eventMoved
  <2> DEFINE e == Head(queue)
  <2>1. /\ e \in Events \cup {Overflow} /\ e.event \in Kinds /\ e.event # "DeleteSelf"
        /\ Tail(queue) \in Seq(Events \cup {Overflow})
    BY <1>8, HeadOfQueue DEF eventMoved, NextEvent, Kinds
  <2>2. pathOf(e) \in Seq(Names) /\ pathOf(e) # <<>>
    <3>1. /\ e \in Events /\ watches.path[e.wd] \in Seq(Names)
          /\ pathOf(e) = Append(watches.path[e.wd], e.name) /\ pathOf(e) \in Seq(Names)
      BY <1>8, <2>1, PathOfEvent DEF eventMoved
    <3>2. e.name \in Names
      BY <3>1 DEF Events
    <3> QED BY <3>1, <3>2
  <2>3. PICK c \in firstHalf(e) :
          /\ slotFileMoved(c.path, pathOf(e), e.isDir)
          /\ watches' = IF e.isDir /\ watchedAs(c.path) # {}
                        THEN movedWatch(watches, c.path, CHOOSE i \in watchedAs(c.path) : TRUE, pathOf(e))
                        ELSE watches
    BY <1>8 DEF eventMoved
  <2>4. /\ doc' \in [Inodes -> DocPlaces] /\ pending' \subseteq Jobs /\ lists' \subseteq Jobs
    BY <1>0, <2>2, <2>3, MovedMetadata
  <2>5. watches' \in WatchTypes
    <3> DEFINE w == CHOOSE i \in watchedAs(c.path) : TRUE
    <3>1. CASE e.isDir /\ watchedAs(c.path) # {}
      <4>1. w \in Watchable
        BY <3>1 DEF watchedAs, TypeOK
      <4> HIDE DEF w
      <4>2. movedWatch(watches, c.path, w, pathOf(e)) \in WatchTypes
        BY <2>2, <4>1, MovedWatch DEF WatchTypes
      <4> QED BY <2>3, <3>1, <4>2 DEF w
    <3>2. CASE ~(e.isDir /\ watchedAs(c.path) # {})
      BY <1>0, <2>3, <3>2
    <3> QED BY <3>1, <3>2
  <2> QED BY <1>8, <2>1, <2>4, <2>5 DEF eventMoved, TypeOK, WatchTypes, DocPlaces, Handled, fileSystem, settings
<1>9. CASE eventMovedIn
  <2> DEFINE e == Head(queue)
  <2>1. e \in Events \cup {Overflow} /\ e.event \in Kinds /\ Tail(queue) \in Seq(Events \cup {Overflow})
    BY <1>9, HeadOfQueue DEF eventMovedIn, NextEvent, Kinds
  <2>2. pathOf(e) \in Seq(Names)
    BY <1>9, <2>1, PathOfEvent DEF eventMovedIn
  <2>3. pending' \subseteq Jobs /\ watches' \in WatchTypes
    BY <1>9, <2>2, CreatedIs DEF eventMovedIn, WatchTypes
  <2> QED BY <1>9, <2>1, <2>3 DEF eventMovedIn, created, TypeOK, WatchTypes, Handled, fileSystem, settings
<1>10. CASE expireCookie
  <2>1. PICK c \in cookies : /\ removeWatch(c.path, c.isDir)
                             /\ removeFileMetadata(c.path, c.isDir)
                             /\ cookies' = cookies \ {c}
    BY <1>10 DEF expireCookie
  <2>2. watches' \in WatchTypes
    BY <2>1, RemovedWatch
  <2>3. /\ doc' \in [Inodes -> DocPlaces] /\ pending' \subseteq Jobs /\ lists' \subseteq Jobs
    BY <1>0, <2>1, RemovedFile
  <2>4. WalkTypes'
    BY <2>1, StoppedWalks
  <2> QED BY <1>0, <1>10, <2>1, <2>2, <2>3, <2>4
          DEF expireCookie, TypeOK, WatchTypes, WalkTypes, DocPlaces, fileSystem, settings
<1>11. CASE reachLimit
  <2> DEFINE e == Head(queue)
  <2>1. pending' \subseteq Jobs
    <3>1. CASE Walking /\ pending' = pending
      BY <1>0, <3>1
    <3>2. CASE /\ NextEvent({"Create", "MoveTo"}) /\ pathOf(e) # NoPath
               /\ announceNew(pathOf(e), TRUE)
      <4>1. e \in Events \cup {Overflow} /\ e.event \in Kinds
        BY <3>2, HeadOfQueue DEF NextEvent, Kinds
      <4>2. pathOf(e) \in Seq(Names)
        BY <3>2, <4>1, PathOfEvent
      <4> QED BY <3>2, <4>2, AnnouncedNew
    <3> QED BY <1>11, <3>1, <3>2 DEF reachLimit
  <2>2. watches' \in WatchTypes
    <3>1. NoWatches \in WatchTypes
      BY DEF NoWatches, WatchTypes, Watchable
    <3> QED BY <1>11, <3>1 DEF reachLimit
  <2>3. queue' \in Seq(Events \cup {Overflow}) /\ cookies' = {} /\ m_dirWatch' \in BOOLEAN
    <3>1. queue' = <<>> /\ cookies' = {} /\ m_dirWatch' = FALSE
      BY <1>11 DEF reachLimit
    <3>2. <<>> \in Seq(Events \cup {Overflow})
      OBVIOUS
    <3> QED BY <3>1, <3>2
  <2> QED BY <1>11, <2>1, <2>2, <2>3 DEF reachLimit, TypeOK, WatchTypes, fileSystem, index, settings
<1> QED BY <1>1, <1>2, <1>3, <1>4, <1>5, <1>6, <1>7, <1>8, <1>9, <1>10, <1>11 DEF Watcher

\* What the jobs enter is found on the disk.
LEMMA EnteredTypes ==
  ASSUME TypeOK, NEW S \in SUBSET Inodes, \A i \in S : pathsIn(place)[i] # NoPath
  PROVE  /\ entered(doc, S) \in [Inodes -> DocPlaces]
         /\ enteredTimes(doc, S) \in [Inodes -> SUBSET {"mtime", "ctime"}]
<1>1. \A j \in Inodes : OnTheWay(doc, S, j)
  BY EnteredIs
<1>2. \A j \in Inodes : entered(doc, S)[j] \in DocPlaces
  <2>1. ASSUME NEW j \in Inodes PROVE entered(doc, S)[j] \in DocPlaces
    <3>1. doc[j] \in DocPlaces
      BY DEF TypeOK, DocPlaces
    <3>2. place[j] \in Places => place[j] \in DocPlaces
      BY DEF Places, Parents, Ids, Inodes, DocPlaces
    <3>3. OnTheWay(doc, S, j)
      BY <1>1
    <3> QED BY <3>1, <3>2, <3>3 DEF OnTheWay
  <2> QED BY <2>1
<1>3. entered(doc, S) = [j \in Inodes |-> entered(doc, S)[j]]
  BY DEF entered
<1>4. enteredTimes(doc, S) \in [Inodes -> SUBSET {"mtime", "ctime"}]
  BY DEF enteredTimes, TypeOK
<1> QED BY <1>2, <1>3, <1>4

LEMMA TypesIndexers == ASSUME TypeOK, Indexers PROVE TypeOK'
<1>0. /\ doc \in [Inodes -> DocPlaces] /\ touched \in [Inodes -> SUBSET {"mtime", "ctime"}]
      /\ pending \subseteq Jobs /\ lists \subseteq Jobs /\ housekeeping \subseteq {"stale", "unindexed"}
  BY DEF TypeOK, DocPlaces
<1>1. CASE announce
  <2>1. pending' \subseteq Jobs /\ lists' \subseteq Jobs
    BY <1>0, <1>1 DEF announce
  <2> QED BY <1>1, <2>1 DEF announce, TypeOK, fileSystem, kinotify, index, settings
<1>2. CASE clean
  <2>1. doc' \in [Inodes -> DocPlaces] /\ housekeeping' \subseteq {"stale", "unindexed"}
    BY <1>0, <1>2 DEF clean, DocPlaces
  <2> QED BY <1>2, <2>1 DEF clean, TypeOK, DocPlaces, fileSystem, kinotify, settings
<1>3. CASE check
  <2> DEFINE paths   == pathsIn(place)
             walked  == {i \in Inodes : shouldBeIndexed(paths[i])}
             changed == {i \in walked : Known(i) /\ touched[i] # {} /\ (i \in Folders => "ctime" \in touched[i])}
             new     == {i \in walked : ~Known(i)}
  <2>1. new \in SUBSET Inodes /\ \A i \in walked : paths[i] # NoPath
    BY DEF shouldBeIndexed
  <2>2. entered(doc, new) \in [Inodes -> DocPlaces]
    BY <2>1, EnteredTypes
  <2>3. \A i \in walked : place[i] \in Places
    BY <2>1, WithinTree
  <2>4. \A i \in changed : place[i] \in DocPlaces
    BY <2>3 DEF Places, Parents, Ids, Inodes, DocPlaces
  <2>5. /\ doc' = [j \in Inodes |-> IF j \in changed /\ "ctime" \in touched[j] THEN place[j]
                                  ELSE entered(doc, new)[j]]
        /\ touched' = [j \in Inodes |-> IF j \in changed \cup new THEN {} ELSE touched[j]]
        /\ housekeeping' = {}
    BY <1>3 DEF check
  <2> HIDE DEF changed, new
  <2>6. doc' \in [Inodes -> DocPlaces]
    BY <2>2, <2>4, <2>5
  <2>7. touched' \in [Inodes -> SUBSET {"mtime", "ctime"}]
    BY <1>0, <2>5
  <2> QED BY <1>3, <2>5, <2>6, <2>7 DEF check, TypeOK, DocPlaces, fileSystem, kinotify, settings
<1>4. ASSUME NEW e \in lists, newFile(e.path) PROVE TypeOK'
  <2> DEFINE new == {i \in At(place, e.path) \cap Inodes : mayBeNew(i, e.path) /\ ~Known(i)}
  <2>1. new \in SUBSET Inodes /\ \A i \in new : pathsIn(place)[i] # NoPath
    BY AtPath
  <2>2. doc' \in [Inodes -> DocPlaces] /\ touched' \in [Inodes -> SUBSET {"mtime", "ctime"}]
    BY <1>4, <2>1, EnteredTypes DEF newFile, addDocuments
  <2>3. lists' \subseteq Jobs
    BY <1>0, <1>4 DEF newFile, Takes
  <2> QED BY <1>4, <2>2, <2>3 DEF newFile, Takes, TypeOK, DocPlaces, fileSystem, kinotify, settings
<1>5. ASSUME NEW e \in lists, modifiedFile(e.path) PROVE TypeOK'
  <2> DEFINE here    == {i \in At(place, e.path) \cap Inodes : shouldFileBeIndexed(Last(e.path))}
             known   == {i \in here : Known(i)}
             renamed == {i \in known : "ctime" \in touched[i]}
             content == {i \in known \cap Files : touched[i] # {}}
             S       == here \ known
  <2>1. S \in SUBSET Inodes /\ here \subseteq Inodes /\ \A i \in here : pathsIn(place)[i] # NoPath
    BY AtPath
  <2>2. entered(doc, S) \in [Inodes -> DocPlaces] /\ enteredTimes(doc, S) \in [Inodes -> SUBSET {"mtime", "ctime"}]
    BY <2>1, EnteredTypes
  <2>3. \A i \in here : place[i] \in Places
    BY <2>1, WithinTree
  <2>4. \A i \in renamed : place[i] \in DocPlaces
    BY <2>3 DEF Places, Parents, Ids, Inodes, DocPlaces
  <2>5. /\ doc' = [j \in Inodes |-> IF j \in renamed THEN place[j] ELSE entered(doc, S)[j]]
        /\ touched' = [j \in Inodes |-> IF j \in renamed \cup content THEN {} ELSE enteredTimes(doc, S)[j]]
    BY <1>5 DEF modifiedFile
  <2> HIDE DEF renamed, content, S
  <2>6. doc' \in [Inodes -> DocPlaces] /\ touched' \in [Inodes -> SUBSET {"mtime", "ctime"}]
    BY <2>2, <2>4, <2>5
  <2>7. lists' \subseteq Jobs
    BY <1>0, <1>5 DEF modifiedFile, Takes
  <2> QED BY <1>5, <2>6, <2>7 DEF modifiedFile, Takes, TypeOK, DocPlaces, fileSystem, kinotify, settings
<1> QED BY <1>1, <1>2, <1>3, <1>4, <1>5 DEF Indexers

LEMMA TypesInit == Init => TypeOK
<1> SUFFICES ASSUME Init PROVE TypeOK
  OBVIOUS
<1>1. watches \in WatchTypes
  <2>1. NoWatches \in WatchTypes
    BY DEF NoWatches, WatchTypes, Watchable
  <2> QED BY <2>1 DEF Init
<1>2. place \in [Inodes -> Places \cup {Unborn, Gone}] /\ changes \in 0..MaxChanges /\ configs \in 0..MaxConfigs
  BY ConstantsAssumption DEF Init
<1>3. queue \in Seq(Events \cup {Overflow})
  BY DEF Init
<1> QED BY <1>1, <1>2, <1>3 DEF Init, TypeOK, WatchTypes

LEMMA TypesNext == ASSUME TypeOK, [Next]_vars PROVE TypeOK'
<1>1. CASE Done \/ UNCHANGED vars
  BY <1>1 DEF TypeOK, Done, vars, fileSystem, kinotify, index, waiting, settings
<1> QED BY <1>1, TypesUser, TypesWatcher, TypesIndexers DEF Next

-----------------------------------------------------------------------------
(* Hidden names. *)

LEMMA DisturbedStays == ASSUME Next PROVE disturbed \subseteq disturbed'
<1>1. CASE User
  BY <1>1 DEF User, create, rename, write, remove, configure, Notify
<1>2. CASE Watcher
  <2>1. CASE eventMoved
    <3>1. ASSUME NEW from, NEW to, NEW isDir, slotFileMoved(from, to, isDir)
          PROVE  disturbed \subseteq disturbed'
      BY <3>1 DEF slotFileMoved, moveFileMetadata
    <3> QED BY <2>1, <3>1 DEF eventMoved
  <2> QED BY <1>2, <2>1 DEF Watcher, nextWalk, addNextWatches, ignore, eventCreate, eventModify, eventDelete,
                            eventMoveFrom, eventMovedIn, expireCookie, reachLimit, created
<1>3. CASE Indexers
  BY <1>3 DEF Indexers, announce, clean, check, newFile, modifiedFile, Takes
<1>4. CASE Done
  BY <1>4 DEF Done, vars
<1> QED BY <1>1, <1>2, <1>3, <1>4 DEF Next

\* Events of folders that are moved are the only ones whose name matters.
LEMMA ShownEvents ==
  ASSUME TypeOK, MovesAreShown, NEW events \in Seq(Events), NEW causes, Notify(events, causes),
         \A n \in DOMAIN events :
           events[n].event = "MoveTo" /\ events[n].isDir => events[n].name \notin Hidden
  PROVE  MovesAreShown'
<1> SUFFICES ASSUME NEW n \in DOMAIN queue', queue'[n].event = "MoveTo", queue'[n].isDir
             PROVE  queue'[n].name \notin Hidden
  BY DEF MovesAreShown
<1>1. \/ queue'[n] = Overflow
      \/ \E m \in DOMAIN queue : queue'[n] = queue[m]
      \/ \E m \in DOMAIN events : queue'[n] = events[m]
  BY Notified
<1>2. queue'[n] # Overflow
  BY DEF Overflow
<1> QED BY <1>1, <1>2 DEF MovesAreShown

LEMMA ShownUser == ASSUME TypeOK, HiddenInv, User, disturbed \subseteq disturbed' PROVE HiddenInv'
<1> SUFFICES ASSUME disturbed = {}, disturbed' = {}
             PROVE  (MovesAreShown /\ WatchesAreShown /\ WaitingIsShown /\ DocumentsAreShown)'
  BY DEF HiddenInv
<1>0. MovesAreShown /\ WatchesAreShown /\ WaitingIsShown /\ DocumentsAreShown
  BY DEF HiddenInv
<1>f. Files \subseteq Inodes
  BY DEF Inodes
<1>1. ASSUME NEW i \in Inodes, NEW at \in Places, create(i, at)
      PROVE  (MovesAreShown /\ WatchesAreShown /\ WaitingIsShown /\ DocumentsAreShown)'
  <2> DEFINE e == Event("Create", at[1], at[2], i \in Folders, 0)
  <2>1. e \in [event : Kinds, wd : Parents, name : Names, isDir : BOOLEAN, cookie : Nat] /\ e.event = "Create"
    BY DEF Event, Kinds, Places
  <2> HIDE DEF e
  <2>2. heard(e) \in Seq(Events) /\ \A n \in DOMAIN heard(e) : heard(e)[n].event # "MoveTo"
    BY <2>1, Heard
  <2>3. MovesAreShown'
    BY <1>0, <1>1, <2>2, ShownEvents DEF create, e
  <2> QED BY <1>0, <1>1, <2>3 DEF create, kinotify, index, waiting, WatchesAreShown, WaitingIsShown,
             DocumentsAreShown, Known
<1>2. ASSUME NEW i \in Inodes, NEW at \in Places, rename(i, at)
      PROVE  (MovesAreShown /\ WatchesAreShown /\ WaitingIsShown /\ DocumentsAreShown)'
  <2> DEFINE e == Event("MoveFrom", place[i][1], place[i][2], i \in Folders, changes')
             f == Event("MoveTo", at[1], at[2], i \in Folders, changes')
             causes == IF keepsUpWithMove(i, at) THEN {} ELSE {"move"}
  <2>1. /\ e \in [event : Kinds, wd : Parents, name : Names, isDir : BOOLEAN, cookie : Nat] /\ e.event = "MoveFrom"
        /\ f \in [event : Kinds, wd : Parents, name : Names, isDir : BOOLEAN, cookie : Nat]
        /\ f.wd = at[1] /\ f.name = at[2] /\ (f.isDir => i \in Folders)
    <3>1. place[i] \in Places /\ changes' \in Nat
      BY <1>2, ConstantsAssumption DEF rename, Change, TypeOK
    <3>2. /\ place[i][1] \in Parents /\ place[i][2] \in Names
          /\ at[1] \in Parents /\ at[2] \in Names
      BY <3>1 DEF Places
    <3>3. /\ e \in [event : Kinds, wd : Parents, name : Names, isDir : BOOLEAN, cookie : Nat]
          /\ f \in [event : Kinds, wd : Parents, name : Names, isDir : BOOLEAN, cookie : Nat]
      BY <3>1, <3>2 DEF Event, Kinds
    <3>4. e.event = "MoveFrom" /\ f.wd = at[1] /\ f.name = at[2] /\ (f.isDir => i \in Folders)
      BY DEF Event
    <3> QED BY <3>3, <3>4
  <2>2. Notify(heard(e) \o heard(f), causes)
    BY <1>2 DEF rename
  <2> HIDE DEF e, f
  <2>3. /\ heard(e) \in Seq(Events) /\ \A n \in DOMAIN heard(e) : heard(e)[n] = e
        /\ heard(f) \in Seq(Events) /\ \A n \in DOMAIN heard(f) : heard(f)[n] = f /\ at[1] \in watches.kernel
    BY <2>1, Heard
  <2>4. heard(e) \o heard(f) \in Seq(Events)
    BY <2>3
  <2>5. keepsUpWithMove(i, at)
    BY <2>2, <2>4, Notified
  <2>6. i \in Folders /\ at[1] \in watches.kernel => at[2] \notin Hidden
    <3> SUFFICES ASSUME i \in Folders, at[1] \in watches.kernel PROVE at[2] \notin Hidden
      OBVIOUS
    <3> DEFINE to == pathsIn(place)[at[1]]
    <3>1. to # NoPath /\ shouldBeIndexed(Append(to, at[2]))
      BY <2>5 DEF keepsUpWithMove
    <3>2. at[1] \in Ids /\ at[2] \in Names
      BY PlacesAre
    <3>3. to \in Seq(Names)
      BY <3>1, <3>2, PathIsNames
    <3>4. Shown(Append(to, at[2]))
      BY <3>1, IndexedIsShown
    <3> HIDE DEF to
    <3>5. Len(to) + 1 \in DOMAIN Append(to, at[2]) /\ Append(to, at[2])[Len(to) + 1] = at[2]
      BY <3>2, <3>3, Appended
    <3> QED BY <3>4, <3>5 DEF Shown
  <2>7. ASSUME NEW n \in DOMAIN (heard(e) \o heard(f)), (heard(e) \o heard(f))[n].event = "MoveTo",
               (heard(e) \o heard(f))[n].isDir
        PROVE  (heard(e) \o heard(f))[n].name \notin Hidden
    <3>1. \/ \E m \in DOMAIN heard(e) : (heard(e) \o heard(f))[n] = heard(e)[m]
          \/ \E m \in DOMAIN heard(f) : (heard(e) \o heard(f))[n] = heard(f)[m]
      BY <2>3
    <3> QED BY <2>1, <2>3, <2>6, <2>7, <3>1
  <2>8. MovesAreShown'
    BY <1>0, <2>2, <2>4, <2>7, ShownEvents
  <2> QED BY <1>0, <1>2, <2>8 DEF rename, kinotify, waiting, WatchesAreShown, WaitingIsShown,
             DocumentsAreShown, Known
<1>3. ASSUME NEW f \in Files, write(f)
      PROVE  (MovesAreShown /\ WatchesAreShown /\ WaitingIsShown /\ DocumentsAreShown)'
  <2> DEFINE e == Event("Modify", place[f][1], place[f][2], FALSE, 0)
  <2>1. e \in [event : Kinds, wd : Parents, name : Names, isDir : BOOLEAN, cookie : Nat] /\ e.event = "Modify"
    BY <1>3 DEF Event, Kinds, Places, write
  <2>2. Notify(heard(e), {})
    BY <1>3 DEF write
  <2> HIDE DEF e
  <2>3. heard(e) \in Seq(Events) /\ \A n \in DOMAIN heard(e) : heard(e)[n].event # "MoveTo"
    BY <2>1, Heard
  <2>4. MovesAreShown'
    BY <1>0, <2>2, <2>3, ShownEvents
  <2> QED BY <1>0, <1>3, <2>4 DEF write, kinotify, waiting, WatchesAreShown, WaitingIsShown,
             DocumentsAreShown, Known
<1>4. ASSUME NEW i \in Inodes, remove(i)
      PROVE  (MovesAreShown /\ WatchesAreShown /\ WaitingIsShown /\ DocumentsAreShown)'
  <2> DEFINE e == IF i \in Folders THEN Event("DeleteSelf", i, place[i][2], TRUE, 0)
                  ELSE Event("Delete", place[i][1], place[i][2], FALSE, 0)
  <2>0. place[i] \in Places /\ place[i][1] \in Parents /\ place[i][2] \in Names
    BY <1>4 DEF remove, Places
  <2>1. e \in [event : Kinds, wd : Parents, name : Names, isDir : BOOLEAN, cookie : Nat] /\ e.event # "MoveTo"
    BY <2>0 DEF Event, Kinds, Parents
  <2>2. \E causes : Notify(heard(e), causes)
    BY <1>4 DEF remove
  <2> HIDE DEF e
  <2>3. heard(e) \in Seq(Events) /\ \A n \in DOMAIN heard(e) : heard(e)[n].event # "MoveTo"
    BY <2>1, Heard
  <2>4. MovesAreShown'
    BY <1>0, <2>2, <2>3, ShownEvents
  <2>5. watches'.path = watches.path
    BY <1>4 DEF remove, TypeOK
  <2> QED BY <1>0, <1>4, <2>4, <2>5 DEF remove, index, waiting, WatchesAreShown, WaitingIsShown,
             DocumentsAreShown, Known
<1>5. ASSUME NEW n \in Names, configure(<<n>>)
      PROVE  (MovesAreShown /\ WatchesAreShown /\ WaitingIsShown /\ DocumentsAreShown)'
  <2>1. \A i \in Watchable : watches'.path[i] \in {watches.path[i], NoPath}
    <3>1. CASE <<n>> \in excluded
      BY <1>5, <3>1 DEF configure
    <3>2. CASE <<n>> \notin excluded
      BY <1>5, <3>2, RemovedWatch DEF configure
    <3> QED BY <3>1, <3>2
  <2>2. lists' \subseteq lists
    BY <1>5 DEF configure
  <2> QED BY <1>0, <1>5, <2>1, <2>2 DEF configure, index, MovesAreShown, WatchesAreShown, WaitingIsShown,
             DocumentsAreShown, Known
<1> QED BY <1>1, <1>2, <1>3, <1>4, <1>5 DEF User

\* An event that was handled has left the queue.
LEMMA ShownTail ==
  ASSUME TypeOK, MovesAreShown, queue # <<>>, queue' = Tail(queue)
  PROVE  MovesAreShown'
BY HeadOfQueue DEF MovesAreShown

LEMMA ShownPending ==
  ASSUME TypeOK, WaitingIsShown, NEW path, Shown(folderOf(path)),
         \A e \in pending' : \/ e \in pending \/ e.path = path
                             \/ e.path \in Seq(Names) /\ Shown(e.path),
         lists' \subseteq lists
  PROVE  WaitingIsShown'
<1>1. \A e \in pending' : Shown(folderOf(e.path))
  BY FolderIsShown DEF WaitingIsShown
<1> QED BY <1>1 DEF WaitingIsShown

\* The folder of the path that an event is about was watched.
LEMMA EventIsShown ==
  ASSUME TypeOK, WatchesAreShown, NEW e \in Events \cup {Overflow}, e.event \in Kinds, pathOf(e) # NoPath,
         e.event # "DeleteSelf"
  PROVE  /\ e \in Events /\ e.name \in Names /\ pathOf(e) \in Seq(Names) /\ pathOf(e) # <<>>
         /\ Shown(folderOf(pathOf(e))) /\ Last(pathOf(e)) = e.name
         /\ e.name \notin Hidden => Shown(pathOf(e))
<1> DEFINE s == watches.path[e.wd]
<1>1. e \in Events /\ pathOf(e) \in Seq(Names) /\ s # NoPath /\ s \in Seq(Names) /\ pathOf(e) = Append(s, e.name)
  BY PathOfEvent
<1>2. e.name \in Names /\ e.wd \in Watchable
  BY <1>1 DEF Events
<1>3. Shown(s)
  BY <1>1, <1>2 DEF WatchesAreShown
<1> HIDE DEF s
<1>4. folderOf(Append(s, e.name)) = s /\ Last(Append(s, e.name)) = e.name
  BY <1>1, <1>2, FolderOfAppended
<1>5. /\ Len(s) \in Nat /\ Len(Append(s, e.name)) = Len(s) + 1
      /\ Append(s, e.name)[Len(s) + 1] = e.name
      /\ \A n \in 1..Len(s) : Append(s, e.name)[n] = s[n]
  BY <1>1, <1>2, Appended
<1>6. ASSUME e.name \notin Hidden PROVE Shown(Append(s, e.name))
  <2> SUFFICES ASSUME NEW n \in 1..(Len(s) + 1) PROVE Append(s, e.name)[n] \notin Hidden
    BY <1>1, <1>2, <1>5 DEF Shown
  <2>1. n = Len(s) + 1 \/ n \in 1..Len(s)
    BY <1>5
  <2>2. 1..Len(s) = DOMAIN s
    BY <1>1
  <2> QED BY <1>3, <1>5, <1>6, <2>1, <2>2 DEF Shown
<1>7. Append(s, e.name) # <<>>
  BY <1>1, <1>2
<1> QED BY <1>1, <1>2, <1>3, <1>4, <1>6, <1>7

LEMMA ShownWatcher == ASSUME TypeOK, HiddenInv, Watcher, disturbed \subseteq disturbed' PROVE HiddenInv'
<1> SUFFICES ASSUME disturbed = {}, disturbed' = {}
             PROVE  (MovesAreShown /\ WatchesAreShown /\ WaitingIsShown /\ DocumentsAreShown)'
  BY DEF HiddenInv
<1>0. MovesAreShown /\ WatchesAreShown /\ WaitingIsShown /\ DocumentsAreShown
  BY DEF HiddenInv
<1> DEFINE e == Head(queue)
<1>e. queue # <<>> => e \in Events \cup {Overflow}
  BY HeadOfQueue
<1>g. Gone \notin Places
  BY ConstantsAssumption
<1>d. ASSUME \A j \in Inodes : doc'[j] \in {doc[j], Gone}
      PROVE  DocumentsAreShown'
  BY <1>0, <1>g, <1>d DEF DocumentsAreShown, Known
<1>1. CASE nextWalk
  <2>1. ASSUME NEW p, shouldBeIndexed(p), watches' = addWatches(watches, foldersAt(p))
        PROVE  WatchesAreShown'
    <3>1. foldersAt(p) \in SUBSET Watchable
      BY DEF foldersAt, At, Watchable
    <3>2. \A i \in foldersAt(p) : Shown(pathsIn(place)[i])
      BY <2>1, AtPath, IndexedIsShown DEF foldersAt
    <3>3. \A i \in Watchable : watches'.path[i] = IF i \in foldersAt(p) THEN pathsIn(place)[i] ELSE watches.path[i]
      BY <2>1, <3>1, AddedWatches
    <3> QED BY <1>0, <3>2, <3>3 DEF WatchesAreShown
  <2>2. ASSUME watches' = watches PROVE WatchesAreShown'
    BY <1>0, <2>2 DEF WatchesAreShown
  <2>3. watches' = watches \/ \E p \in m_paths : shouldBeIndexed(p) /\ watches' = addWatches(watches, foldersAt(p))
    BY <1>1 DEF nextWalk
  <2> QED BY <1>0, <1>1, <2>1, <2>2, <2>3 DEF nextWalk, index, waiting, MovesAreShown, WaitingIsShown,
             DocumentsAreShown, Known
<1>2. CASE addNextWatches
  <2>1. PICK p : watches' = addWatches(watches, subfolders(p))
    BY <1>2 DEF addNextWatches
  <2>2. subfolders(p) \in SUBSET Watchable
    BY DEF subfolders, Watchable
  <2>3. \A i \in subfolders(p) : Shown(pathsIn(place)[i])
    BY IndexedIsShown DEF subfolders
  <2>4. \A i \in Watchable : watches'.path[i] = IF i \in subfolders(p) THEN pathsIn(place)[i] ELSE watches.path[i]
    BY <2>1, <2>2, AddedWatches
  <2>5. WatchesAreShown'
    BY <1>0, <2>3, <2>4 DEF WatchesAreShown
  <2> QED BY <1>0, <1>2, <2>5 DEF addNextWatches, index, waiting, MovesAreShown, WaitingIsShown,
             DocumentsAreShown, Known
<1>3. CASE ignore
  <2>1. MovesAreShown'
    BY <1>0, <1>3, ShownTail DEF ignore, NextEvent
  <2> QED BY <1>0, <1>3, <2>1 DEF ignore, WatchesAreShown, WaitingIsShown, DocumentsAreShown, Known
<1>4. ASSUME NextEvent({"Create", "MoveTo"}), pathOf(e) # NoPath, created(pathOf(e), e.isDir)
      PROVE  (MovesAreShown /\ WatchesAreShown /\ WaitingIsShown /\ DocumentsAreShown)'
  <2>1. e \in Events \cup {Overflow} /\ e.event \in Kinds /\ e.event # "DeleteSelf" /\ queue # <<>>
    BY <1>4, <1>e DEF NextEvent, Kinds
  <2>2. pathOf(e) \in Seq(Names) /\ Shown(folderOf(pathOf(e)))
    BY <1>0, <1>4, <2>1, EventIsShown
  <2>3. /\ \A f \in pending' : f \in pending \/ f.path = pathOf(e) \/ (f.path \in Seq(Names) /\ Shown(f.path))
        /\ \A i \in Watchable : watches'.path[i] = watches.path[i] \/ Shown(watches'.path[i])
    BY <1>4, <2>2, CreatedIs
  <2>4. MovesAreShown'
    BY <1>0, <1>4, <2>1, ShownTail DEF created
  <2>5. WaitingIsShown'
    BY <1>0, <1>4, <2>2, <2>3, ShownPending DEF created
  <2> QED BY <1>0, <1>4, <2>3, <2>4, <2>5 DEF created, WatchesAreShown, DocumentsAreShown, Known
<1>5. CASE eventModify
  <2>1. e \in Events \cup {Overflow} /\ e.event \in Kinds /\ e.event # "DeleteSelf" /\ queue # <<>>
    BY <1>5, <1>e DEF eventModify, NextEvent, Kinds
  <2>2. Shown(folderOf(pathOf(e)))
    BY <1>0, <1>5, <2>1, EventIsShown DEF eventModify
  <2>3. \A f \in pending' : f \in pending \/ f.path = pathOf(e)
    BY <1>5 DEF eventModify, Job
  <2>4. MovesAreShown'
    BY <1>0, <1>5, <2>1, ShownTail DEF eventModify
  <2>5. WaitingIsShown'
    BY <1>0, <1>5, <2>2, <2>3, ShownPending DEF eventModify
  <2> QED BY <1>0, <1>5, <2>4, <2>5 DEF eventModify, WatchesAreShown, DocumentsAreShown, Known
<1>6. CASE eventDelete
  <2>1. e \in Events \cup {Overflow} /\ queue # <<>>
    BY <1>6, <1>e DEF eventDelete, NextEvent
  <2>2. MovesAreShown'
    BY <1>0, <1>6, <2>1, ShownTail DEF eventDelete
  <2>3. /\ \A j \in Inodes : doc'[j] \in {doc[j], Gone}
        /\ pending' \subseteq pending /\ lists' \subseteq lists
    BY <1>6, RemovedFile DEF eventDelete
  <2>4. \A i \in Watchable : watches'.path[i] \in {watches.path[i], NoPath}
    <3>1. CASE e.event = "DeleteSelf"
      <4>1. {e.wd} \in SUBSET Watchable
        BY <2>1, <3>1 DEF Overflow, Events
      <4> QED BY <1>6, <3>1, <4>1, RemovedWatches DEF eventDelete
    <3>2. CASE e.event # "DeleteSelf"
      BY <1>6, <3>2 DEF eventDelete
    <3> QED BY <3>1, <3>2
  <2> QED BY <1>0, <1>d, <2>2, <2>3, <2>4 DEF WatchesAreShown, WaitingIsShown
<1>7. CASE eventMoveFrom
  <2>1. MovesAreShown'
    BY <1>0, <1>7, ShownTail DEF eventMoveFrom, NextEvent
  <2> QED BY <1>0, <1>7, <2>1 DEF eventMoveFrom, WatchesAreShown, WaitingIsShown, DocumentsAreShown, Known
<1>8. CASE eventMoved
  <2>1. e \in Events \cup {Overflow} /\ e.event \in Kinds /\ e.event = "MoveTo" /\ queue # <<>>
    BY <1>8, <1>e DEF eventMoved, NextEvent, Kinds
  <2>2. /\ pathOf(e) \in Seq(Names) /\ pathOf(e) # <<>> /\ Last(pathOf(e)) = e.name /\ e.name \in Names
        /\ e.name \notin Hidden => Shown(pathOf(e))
    BY <1>0, <1>8, <2>1, EventIsShown DEF eventMoved
  <2>3. MovesAreShown'
    BY <1>0, <1>8, <2>1, ShownTail DEF eventMoved
  <2>4. PICK c \in firstHalf(e) :
          /\ slotFileMoved(c.path, pathOf(e), e.isDir)
          /\ watches' = IF e.isDir /\ watchedAs(c.path) # {}
                        THEN movedWatch(watches, c.path, CHOOSE i \in watchedAs(c.path) : TRUE, pathOf(e))
                        ELSE watches
    BY <1>8 DEF eventMoved
  <2>5. /\ \A j \in Inodes : doc'[j] \in {doc[j], Gone} \/ (doc'[j][2] = Last(pathOf(e)) /\ Shown(pathOf(e)))
        /\ pending' \subseteq pending
        /\ \A f \in lists' : f \in lists \/ (f.path \in Seq(Names) /\ Shown(f.path))
    BY <2>2, <2>4, MovedMetadata
  <2>6. DocumentsAreShown'
    <3>1. Shown(pathOf(e)) => Last(pathOf(e)) \notin Hidden
      BY <2>2, FolderOfNames DEF Shown
    <3> QED BY <1>0, <1>g, <2>5, <3>1 DEF DocumentsAreShown, Known
  <2>7. WaitingIsShown'
    BY <1>0, <2>5, FolderIsShown DEF WaitingIsShown
  <2>8. WatchesAreShown'
    <3> DEFINE w == CHOOSE i \in watchedAs(c.path) : TRUE
    <3>1. CASE e.isDir /\ watchedAs(c.path) # {}
      <4>1. w \in Watchable
        BY <3>1 DEF watchedAs, TypeOK
      <4>2. Shown(pathOf(e))
        BY <1>0, <2>1, <2>2, <3>1, HeadOfQueue DEF MovesAreShown
      <4>3. watches' = movedWatch(watches, c.path, w, pathOf(e))
        BY <2>4, <3>1
      <4> HIDE DEF w
      <4>4. \A i \in Watchable : watches'.path[i] = IF i = w THEN pathOf(e) ELSE watches.path[i]
        <5>1. \A i \in Watchable : movedWatch(watches, c.path, w, pathOf(e)).path[i] =
                                  IF i = w THEN pathOf(e) ELSE watches.path[i]
          <6> DEFINE m == movedWatch(watches, c.path, w, pathOf(e))
          <6>1. m.path = [watches.path EXCEPT ![w] = pathOf(e)]
            BY DEF movedWatch, insertWatch, TypeOK
          <6> QED BY <4>1, <6>1 DEF TypeOK
        <5> QED BY <4>3, <5>1
      <4> QED BY <1>0, <4>2, <4>4 DEF WatchesAreShown
    <3>2. CASE ~(e.isDir /\ watchedAs(c.path) # {})
      BY <1>0, <2>4, <3>2 DEF WatchesAreShown
    <3> QED BY <3>1, <3>2
  <2> QED BY <2>3, <2>6, <2>7, <2>8
<1>9. CASE expireCookie
  <2>1. PICK c \in cookies : /\ removeWatch(c.path, c.isDir)
                             /\ removeFileMetadata(c.path, c.isDir)
    BY <1>9 DEF expireCookie
  <2>2. \A i \in Watchable : watches'.path[i] \in {watches.path[i], NoPath}
    BY <2>1, RemovedWatch
  <2>3. /\ \A j \in Inodes : doc'[j] \in {doc[j], Gone}
        /\ pending' \subseteq pending /\ lists' \subseteq lists
    BY <2>1, RemovedFile
  <2> QED BY <1>0, <1>9, <1>d, <2>2, <2>3 DEF expireCookie, MovesAreShown, WatchesAreShown, WaitingIsShown
<1>10. CASE reachLimit
  BY <1>10 DEF reachLimit
<1> QED BY <1>1, <1>2, <1>3, <1>4, <1>5, <1>6, <1>7, <1>8, <1>9, <1>10
        DEF Watcher, eventCreate, eventMovedIn, NextEvent

\* What a job enters for a path that waits has the names of that path.
LEMMA NameOfWaiting ==
  ASSUME NEW path \in Seq(Names), Shown(folderOf(path)), Last(path) \notin Hidden,
         NEW i \in At(place, path), NEW j \in Inodes, NameIsIn(place, j, i)
  PROVE  place[j][2] \notin Hidden
<1>1. pathsIn(place)[i] = path
  BY AtPath
<1>2. PICK n \in 1..Len(path) : place[j][2] = path[n]
  BY <1>1 DEF NameIsIn
<1>3. path # <<>> /\ Len(path) \in Nat
  BY <1>2
<1>4. CASE n = Len(path)
  <2>1. Last(path) = path[Len(path)]
    BY <1>3, FolderOfNames
  <2> QED BY <1>2, <1>4, <2>1
<1>5. CASE n # Len(path)
  <2>1. n \in 1..(Len(path) - 1)
    BY <1>3, <1>5
  <2>2. n \in DOMAIN folderOf(path) /\ folderOf(path)[n] = path[n]
    BY <1>3, <2>1, FolderOfNames
  <2> QED BY <1>2, <2>2 DEF Shown
<1> QED BY <1>4, <1>5

LEMMA NameOfShown ==
  ASSUME NEW i \in Inodes, pathsIn(place)[i] # NoPath, Shown(pathsIn(place)[i]),
         NEW j \in Inodes, NameIsIn(place, j, i)
  PROVE  place[j][2] \notin Hidden
<1>1. i \in Ids
  BY DEF Ids
<1> DEFINE p == pathsIn(place)[i]
<1>2. p \in Seq(Names) /\ Shown(p)
  BY <1>1, PathIsNames
<1>3. \E n \in 1..Len(p) : place[j][2] = p[n]
  BY DEF NameIsIn
<1> HIDE DEF p
<1>4. PICK n \in 1..Len(p) : place[j][2] = p[n]
  BY <1>3
<1>5. n \in DOMAIN p
  BY <1>2
<1> QED BY <1>2, <1>4, <1>5 DEF Shown

\* The last name of a path is that of what is there.
LEMMA LastName ==
  ASSUME NEW i \in Inodes, pathsIn(place)[i] # NoPath
  PROVE  /\ place[i] \in Places /\ pathsIn(place)[i] # <<>> /\ Last(pathsIn(place)[i]) = place[i][2]
         /\ Shown(pathsIn(place)[i]) => place[i][2] \notin Hidden
<1>1. place[i] \in Places /\ \E s \in Seq(Names) : pathsIn(place)[i] = Append(s, place[i][2])
  BY WithinTree
<1>2. PICK s \in Seq(Names) : pathsIn(place)[i] = Append(s, place[i][2])
  BY <1>1
<1>3. place[i][2] \in Names
  BY <1>1, PlacesAre
<1> DEFINE p == Append(s, place[i][2])
<1>4. p # <<>> /\ Last(p) = place[i][2] /\ Len(s) + 1 \in DOMAIN p /\ p[Len(s) + 1] = place[i][2]
  <2> DEFINE x == place[i][2]
  <2> HIDE DEF x
  <2>1. x \in Names
    BY <1>3 DEF x
  <2>2. /\ Append(s, x) \in Seq(Names) /\ Len(s) \in Nat /\ Len(Append(s, x)) = Len(s) + 1
        /\ Append(s, x)[Len(s) + 1] = x /\ Last(Append(s, x)) = x
    BY <2>1, FolderOfAppended, Appended
  <2>3. Append(s, x) # <<>> /\ Len(s) + 1 \in DOMAIN Append(s, x)
    BY <2>2
  <2> QED BY <2>2, <2>3 DEF x
<1> HIDE DEF p
<1>5. Shown(p) => place[i][2] \notin Hidden
  BY <1>4 DEF Shown
<1> DEFINE q == pathsIn(place)[i]
<1>6. q = p
  BY <1>2 DEF p
<1>7. q # <<>> /\ Last(q) = place[i][2] /\ (Shown(q) => place[i][2] \notin Hidden)
  <2> HIDE DEF q
  <2> QED BY <1>4, <1>5, <1>6
<1> QED BY <1>1, <1>7

LEMMA ShownIndexers == ASSUME TypeOK, HiddenInv, Indexers, disturbed \subseteq disturbed' PROVE HiddenInv'
<1> SUFFICES ASSUME disturbed = {}, disturbed' = {}
             PROVE  (MovesAreShown /\ WatchesAreShown /\ WaitingIsShown /\ DocumentsAreShown)'
  BY DEF HiddenInv
<1>0. MovesAreShown /\ WatchesAreShown /\ WaitingIsShown /\ DocumentsAreShown
  BY DEF HiddenInv
<1>1. CASE announce
  <2>1. pending' \cup lists' \subseteq pending \cup lists
    BY <1>1 DEF announce
  <2> QED BY <1>0, <1>1, <2>1 DEF announce, kinotify, index, MovesAreShown, WatchesAreShown, WaitingIsShown,
             DocumentsAreShown, Known
<1>2. CASE clean
  <2>1. \A j \in Inodes : doc'[j] \in {doc[j], Gone}
    BY <1>2 DEF clean
  <2>2. DocumentsAreShown'
    BY <1>0, <2>1, ConstantsAssumption DEF DocumentsAreShown, Known
  <2> QED BY <1>0, <1>2, <2>2 DEF clean, kinotify, MovesAreShown, WatchesAreShown, WaitingIsShown
<1>3. CASE check
  <2> DEFINE paths   == pathsIn(place)
             walked  == {i \in Inodes : shouldBeIndexed(paths[i])}
             changed == {i \in walked : Known(i) /\ touched[i] # {} /\ (i \in Folders => "ctime" \in touched[i])}
             new     == {i \in walked : ~Known(i)}
  <2>1. \A i \in walked : i \in Inodes /\ paths[i] # NoPath /\ Shown(paths[i])
    BY IndexedIsShown
  <2>2. \A j \in Inodes : doc'[j] = IF j \in changed /\ "ctime" \in touched[j] THEN place[j]
                                  ELSE entered(doc, new)[j]
    BY <1>3 DEF check
  <2>3. new \in SUBSET Inodes /\ new \subseteq walked /\ changed \subseteq walked
    OBVIOUS
  <2> HIDE DEF changed, new
  <2>4. ASSUME NEW j \in Inodes, Known(j)' PROVE doc'[j][2] \notin Hidden
    <3>1. CASE j \in changed /\ "ctime" \in touched[j]
      BY <2>1, <2>2, <2>3, <3>1, LastName
    <3>2. CASE ~(j \in changed /\ "ctime" \in touched[j])
      <4>1. OnTheWay(doc, new, j)
        BY <2>1, <2>3, EnteredIs
      <4>2. doc'[j] = doc[j] \/ (doc'[j] = place[j] /\ \E i \in new : NameIsIn(place, j, i))
        BY <2>2, <3>2, <4>1 DEF OnTheWay
      <4>3. (\E i \in new : NameIsIn(place, j, i)) => place[j][2] \notin Hidden
        BY <2>1, <2>3, NameOfShown
      <4> QED BY <1>0, <2>4, <4>2, <4>3 DEF DocumentsAreShown, Known
    <3> QED BY <3>1, <3>2
  <2>5. DocumentsAreShown'
    BY <2>4 DEF DocumentsAreShown
  <2> QED BY <1>0, <1>3, <2>5 DEF check, kinotify, MovesAreShown, WatchesAreShown, WaitingIsShown
<1>4. ASSUME NEW e \in lists, newFile(e.path)
      PROVE  (MovesAreShown /\ WatchesAreShown /\ WaitingIsShown /\ DocumentsAreShown)'
  <2> DEFINE new == {i \in At(place, e.path) \cap Inodes : mayBeNew(i, e.path) /\ ~Known(i)}
  <2>1. new \in SUBSET Inodes /\ \A i \in new : i \in At(place, e.path) /\ pathsIn(place)[i] # NoPath
                                               /\ pathsIn(place)[i] = e.path /\ mayBeNew(i, e.path)
    BY AtPath
  <2>2. e.path \in Seq(Names) /\ Shown(folderOf(e.path))
    BY <1>0 DEF TypeOK, Jobs, WaitingIsShown
  <2>3. doc' = entered(doc, new)
    BY <1>4 DEF newFile, addDocuments
  <2> HIDE DEF new
  <2>4. ASSUME NEW i \in new PROVE Last(e.path) \notin Hidden
    <3>1. i \in Inodes /\ pathsIn(place)[i] = e.path /\ e.path # NoPath /\ mayBeNew(i, e.path)
      BY <2>1
    <3>2. Last(e.path) = place[i][2] /\ (Shown(e.path) => place[i][2] \notin Hidden)
      BY <3>1, LastName
    <3> QED BY <3>1, <3>2, IndexedIsShown DEF mayBeNew, shouldFileBeIndexed
  <2>5. ASSUME NEW j \in Inodes, Known(j)' PROVE doc'[j][2] \notin Hidden
    <3>1. OnTheWay(doc, new, j)
      BY <2>1, EnteredIs
    <3>2. doc'[j] = doc[j] \/ (doc'[j] = place[j] /\ \E i \in new : NameIsIn(place, j, i))
      BY <2>3, <3>1 DEF OnTheWay
    <3>3. ASSUME NEW i \in new, NameIsIn(place, j, i) PROVE place[j][2] \notin Hidden
      BY <2>1, <2>2, <2>4, <3>3, NameOfWaiting
    <3> QED BY <1>0, <2>5, <3>2, <3>3 DEF DocumentsAreShown, Known
  <2>6. DocumentsAreShown'
    BY <2>5 DEF DocumentsAreShown
  <2> QED BY <1>0, <1>4, <2>6 DEF newFile, Takes, kinotify, MovesAreShown, WatchesAreShown, WaitingIsShown
<1>5. ASSUME NEW e \in lists, modifiedFile(e.path)
      PROVE  (MovesAreShown /\ WatchesAreShown /\ WaitingIsShown /\ DocumentsAreShown)'
  <2> DEFINE here    == {i \in At(place, e.path) \cap Inodes : shouldFileBeIndexed(Last(e.path))}
             known   == {i \in here : Known(i)}
             renamed == {i \in known : "ctime" \in touched[i]}
             S       == here \ known
  <2>1. \A i \in here : /\ i \in Inodes /\ i \in At(place, e.path) /\ pathsIn(place)[i] # NoPath
                        /\ pathsIn(place)[i] = e.path /\ Last(e.path) \notin Hidden
    BY AtPath DEF shouldFileBeIndexed
  <2>2. e.path \in Seq(Names) /\ Shown(folderOf(e.path))
    BY <1>0 DEF TypeOK, Jobs, WaitingIsShown
  <2>3. \A j \in Inodes : doc'[j] = IF j \in renamed THEN place[j] ELSE entered(doc, S)[j]
    BY <1>5 DEF modifiedFile
  <2>4. S \in SUBSET Inodes /\ S \subseteq here /\ renamed \subseteq here
    OBVIOUS
  <2> HIDE DEF here, renamed, S
  <2>5. ASSUME NEW j \in Inodes, Known(j)' PROVE doc'[j][2] \notin Hidden
    <3>1. CASE j \in renamed
      BY <2>1, <2>3, <2>4, <3>1, LastName
    <3>2. CASE j \notin renamed
      <4>1. OnTheWay(doc, S, j)
        BY <2>1, <2>4, EnteredIs
      <4>2. doc'[j] = doc[j] \/ (doc'[j] = place[j] /\ \E i \in S : NameIsIn(place, j, i))
        BY <2>3, <3>2, <4>1 DEF OnTheWay
      <4>3. ASSUME NEW i \in S, NameIsIn(place, j, i) PROVE place[j][2] \notin Hidden
        BY <2>1, <2>2, <2>4, <4>3, NameOfWaiting
      <4> QED BY <1>0, <2>5, <4>2, <4>3 DEF DocumentsAreShown, Known
    <3> QED BY <3>1, <3>2
  <2>6. DocumentsAreShown'
    BY <2>5 DEF DocumentsAreShown
  <2> QED BY <1>0, <1>5, <2>6 DEF modifiedFile, Takes, kinotify, MovesAreShown, WatchesAreShown, WaitingIsShown
<1> QED BY <1>1, <1>2, <1>3, <1>4, <1>5 DEF Indexers

LEMMA HiddenInit == Init => HiddenInv
<1> SUFFICES ASSUME Init PROVE HiddenInv
  OBVIOUS
<1>1. MovesAreShown /\ WaitingIsShown
  BY DEF Init, MovesAreShown, WaitingIsShown
<1>2. WatchesAreShown
  BY DEF Init, NoWatches, WatchesAreShown, Watchable
<1>3. DocumentsAreShown
  BY ConstantsAssumption DEF Init, DocumentsAreShown, Known
<1> QED BY <1>1, <1>2, <1>3 DEF HiddenInv

LEMMA HiddenNext == ASSUME TypeOK, HiddenInv, [Next]_vars PROVE HiddenInv'
<1>1. CASE Done \/ UNCHANGED vars
  BY <1>1 DEF HiddenInv, MovesAreShown, WatchesAreShown, WaitingIsShown, DocumentsAreShown, Known,
              Done, vars, kinotify, index, waiting
<1>2. CASE Next
  <2>1. disturbed \subseteq disturbed'
    BY <1>2, DisturbedStays
  <2> QED BY <1>1, <1>2, <2>1, ShownUser, ShownWatcher, ShownIndexers DEF Next
<1> QED BY <1>1, <1>2

-----------------------------------------------------------------------------
(* Prefixes. *)

LEMMA PrefixIs ==
  ASSUME NEW s \in Seq(Names), NEW t \in Seq(Names)
  PROVE  IsPrefix(s, t) <=> Len(s) <= Len(t) /\ \A n \in 1..Len(s) : s[n] = t[n]
<1>1. SubSeq(s, 1, Len(s)) = s
  OBVIOUS
<1>2. CASE Len(s) <= Len(t)
  <2> DEFINE u == SubSeq(t, 1, Len(s))
  <2>1. u \in Seq(Names) /\ Len(u) = Len(s) /\ \A n \in 1..Len(s) : u[n] = t[n]
    BY <1>2
  <2>2. IsPrefix(s, t) <=> s = u
    BY <1>1, <1>2 DEF IsPrefix
  <2> HIDE DEF u
  <2>3. (\A n \in 1..Len(s) : s[n] = u[n]) => s = u
    BY <2>1
  <2> QED BY <1>2, <2>1, <2>2, <2>3
<1> QED BY <1>2 DEF IsPrefix

LEMMA PrefixOrder ==
  ASSUME NEW s \in Seq(Names), NEW t \in Seq(Names)
  PROVE  /\ IsPrefix(s, s) /\ IsPrefix(<<>>, s)
         /\ IsPrefix(s, t) /\ IsPrefix(t, s) => s = t
         /\ \A u \in Seq(Names) : IsPrefix(s, t) /\ IsPrefix(t, u) => IsPrefix(s, u)
<1>1. IsPrefix(s, s) /\ IsPrefix(<<>>, s)
  <2>1. <<>> \in Seq(Names) /\ Len(<<>>) = 0 /\ Len(s) \in Nat
    OBVIOUS
  <2>2. IsPrefix(s, s)
    BY <2>1, PrefixIs
  <2>3. IsPrefix(<<>>, s) <=> Len(<<>>) <= Len(s) /\ \A n \in 1..Len(<<>>) : <<>>[n] = s[n]
    BY <2>1, PrefixIs
  <2> QED BY <2>1, <2>2, <2>3
<1>2. ASSUME IsPrefix(s, t), IsPrefix(t, s) PROVE s = t
  <2>1. Len(s) \in Nat /\ Len(t) \in Nat /\ Len(s) <= Len(t) /\ Len(t) <= Len(s)
    BY <1>2, PrefixIs
  <2>2. \A n \in 1..Len(s) : s[n] = t[n]
    BY <1>2, PrefixIs
  <2> QED BY <2>1, <2>2
<1>3. ASSUME NEW u \in Seq(Names), IsPrefix(s, t), IsPrefix(t, u) PROVE IsPrefix(s, u)
  BY <1>3, PrefixIs
<1> QED BY <1>1, <1>2, <1>3

LEMMA PrefixOfAppended ==
  ASSUME NEW s \in Seq(Names), NEW t \in Seq(Names), NEW x \in Names
  PROVE  /\ Append(t, x) \in Seq(Names) /\ Append(t, x) # t /\ Append(t, x) # <<>>
         /\ IsPrefix(t, Append(t, x)) /\ ~IsPrefix(Append(t, x), t)
         /\ IsPrefix(s, Append(t, x)) <=> s = Append(t, x) \/ IsPrefix(s, t)
         /\ \A y \in Names : Append(s, y) = Append(t, x) => s = t /\ y = x
<1> DEFINE a == Append(t, x)
<1>1. a \in Seq(Names) /\ Len(a) = Len(t) + 1 /\ a[Len(t) + 1] = x /\ \A n \in 1..Len(t) : a[n] = t[n]
  OBVIOUS
<1> HIDE DEF a
<1>2. a # t /\ a # <<>> /\ IsPrefix(t, a) /\ ~IsPrefix(a, t)
  BY <1>1, PrefixIs
<1>3. IsPrefix(s, a) => s = a \/ IsPrefix(s, t)
  <2> SUFFICES ASSUME IsPrefix(s, a) PROVE s = a \/ IsPrefix(s, t)
    OBVIOUS
  <2>1. Len(s) <= Len(a) /\ \A n \in 1..Len(s) : s[n] = a[n]
    BY <1>1, PrefixIs
  <2>2. CASE Len(s) = Len(a)
    BY <2>1, <2>2, <1>1
  <2>3. CASE Len(s) # Len(a)
    <3>1. Len(s) <= Len(t) /\ Len(s) \in Nat /\ Len(t) \in Nat
      BY <2>1, <2>3, <1>1
    <3>2. \A n \in 1..Len(s) : s[n] = t[n]
      BY <3>1, <2>1, <1>1
    <3> QED BY <3>1, <3>2, PrefixIs
  <2> QED BY <2>2, <2>3
<1>4. s = a \/ IsPrefix(s, t) => IsPrefix(s, a)
  BY <1>1, <1>2, PrefixOrder
<1>5. ASSUME NEW y \in Names, Append(s, y) = a PROVE s = t /\ y = x
  <2>1. Len(s) = Len(t) /\ y = x /\ \A n \in 1..Len(s) : s[n] = t[n]
    <3> DEFINE b == Append(s, y)
    <3>1. Len(b) = Len(s) + 1 /\ b[Len(s) + 1] = y /\ \A n \in 1..Len(s) : b[n] = s[n]
      OBVIOUS
    <3> HIDE DEF b
    <3>2. a = b
      BY <1>5 DEF b
    <3> QED BY <3>1, <3>2, <1>1
  <2> QED BY <2>1
<1> QED BY <1>1, <1>2, <1>3, <1>4, <1>5 DEF a

LEMMA PrefixOfNone ==
  ASSUME NEW s \in Seq(Names), IsPrefix(s, <<>>)
  PROVE  s = <<>>
<1>1. <<>> \in Seq(Names)
  OBVIOUS
<1>2. IsPrefix(<<>>, s)
  BY PrefixOrder
<1> QED BY <1>1, <1>2, PrefixOrder

LEMMA PrefixOfPrefix ==
  ASSUME NEW s \in Seq(Names), NEW t \in Seq(Names), NEW u \in Seq(Names),
         IsPrefix(s, t), IsPrefix(t, u)
  PROVE  IsPrefix(s, u)
BY PrefixOrder

LEMMA PrefixOfLonger ==
  ASSUME NEW s \in Seq(Names), NEW t \in Seq(Names), NEW x \in Names, IsPrefix(s, Append(t, x))
  PROVE  s = Append(t, x) \/ IsPrefix(s, t)
BY PrefixOfAppended

LEMMA AppendedIsLonger ==
  ASSUME NEW t \in Seq(Names), NEW x \in Names
  PROVE  Append(t, x) # <<>> /\ Append(t, x) \in Seq(Names) /\ IsPrefix(t, Append(t, x))
BY PrefixOfAppended

LEMMA AppendedSame ==
  ASSUME NEW s \in Seq(Names), NEW t \in Seq(Names), NEW x \in Names, NEW y \in Names,
         Append(s, x) = Append(t, y)
  PROVE  s = t /\ x = y
BY PrefixOfAppended

-----------------------------------------------------------------------------
(* The path of everything is that of the folder it is in, and its name. *)

TableOf(tree, path, m) ==
  /\ \A n \in 0..m : path[n] = [i \in Ids |-> path[n][i]]
  /\ \A n \in 0..m : path[n][Home] = <<>> /\ path[n][Outside] = NoPath
  /\ path[0] = shortest
  /\ \A n \in 0..m : n # 0 => path[n] = longer(tree, path[n - 1])

LEMMA PathTables ==
  ASSUME NEW tree, NEW m \in Nat, NEW path, ArePaths(tree, path, m)
  PROVE  TableOf(tree, path, m)
<1>1. path[0] = shortest /\ \A n \in 0..m : n # 0 => path[n] = longer(tree, path[n - 1])
  BY DEF ArePaths
<1>2. \A n \in 0..m : path[n] = shortest \/ path[n] = longer(tree, path[n - 1])
  BY <1>1
<1>3. /\ shortest = [i \in Ids |-> shortest[i]]
      /\ \A above : longer(tree, above) = [i \in Ids |-> longer(tree, above)[i]]
  BY DEF shortest, longer
<1>4. {Home, Outside} \subseteq Ids /\ Home # Outside
  BY ConstantsAssumption DEF Ids
<1>5. /\ shortest[Home] = <<>> /\ shortest[Outside] = NoPath
      /\ \A above : longer(tree, above)[Home] = <<>> /\ longer(tree, above)[Outside] = NoPath
  BY <1>4 DEF shortest, longer
<1> QED BY <1>1, <1>2, <1>3, <1>5 DEF TableOf

LEMMA PathsGrow ==
  ASSUME NEW tree, NEW m \in Nat, NEW path, ArePaths(tree, path, m)
  PROVE  \A n \in Nat, i \in Ids : n < m /\ path[n][i] # NoPath => path[n + 1][i] = path[n][i]
<1> DEFINE Bad == {n \in Nat : n < m /\ \E i \in Ids : path[n][i] # NoPath /\ path[n + 1][i] # path[n][i]}
<1> SUFFICES ASSUME Bad # {} PROVE FALSE
  OBVIOUS
<1>1. PICK n \in Bad : \A k \in Bad : n <= k
  BY MinIsLeast
<1>2. PICK i \in Ids : path[n][i] # NoPath /\ path[n + 1][i] # path[n][i]
  OBVIOUS
<1>3. n \in 0..m /\ n + 1 \in 0..m /\ n + 1 # 0 /\ (n + 1) - 1 = n
  OBVIOUS
<1>a. /\ path[n][Home] = <<>> /\ path[n + 1][Home] = <<>> /\ path[n][Outside] = NoPath
      /\ path[n + 1] = longer(tree, path[n])
  <2>1. /\ \A k \in 0..m : path[k][Home] = <<>> /\ path[k][Outside] = NoPath
        /\ \A k \in 0..m : k # 0 => path[k] = longer(tree, path[k - 1])
    BY PathTables DEF TableOf
  <2> HIDE DEF Bad
  <2> QED BY <2>1, <1>3
<1>4. \/ i = Home /\ path[n][i] = <<>>
      \/ /\ i \in Inodes /\ tree[i] \in Places /\ n > 0
         /\ path[n - 1][tree[i][1]] # NoPath
         /\ path[n][i] = Append(path[n - 1][tree[i][1]], tree[i][2])
  BY <1>2, <1>3, PathSteps DEF PathOf
<1>5. CASE i = Home
  BY <1>2, <1>5, <1>a
<1>6. CASE i # Home
  <2> DEFINE up == tree[i][1]
  <2>1. n > 0 /\ n - 1 \in Nat /\ n - 1 < m /\ n - 1 \notin Bad /\ up \in Ids /\ (n - 1) + 1 = n
    BY <1>1, <1>3, <1>4, <1>6, PlacesAre
  <2>2. path[n][up] = path[n - 1][up]
    BY <2>1, <1>4, <1>6
  <2>3. path[n + 1] = longer(tree, path[n])
    BY <1>a
  <2>4. i # Outside
    BY <1>2, <1>a
  <2>5. longer(tree, path[n])[i] = Append(path[n][up], tree[i][2])
    BY <2>2, <2>4, <1>4, <1>6 DEF longer
  <2> QED BY <2>2, <2>3, <2>5, <1>2, <1>4, <1>6
<1> QED BY <1>5, <1>6

\* There are no more than Size steps to anything.
LEMMA PathsAreStable ==
  ASSUME NEW tree
  PROVE  longer(tree, pathsIn(tree)) = pathsIn(tree)
<1>1. PICK q : ArePaths(tree, q, Size) /\ pathsIn(tree) = q[Size]
  BY PathsAre
<1>q. \A n \in 0..Size : q[n] = IF n = 0 THEN shortest ELSE longer(tree, q[n - 1])
  <2>1. q = [n \in 0..Size |-> IF n = 0 THEN shortest ELSE longer(tree, q[n - 1])]
    BY <1>1 DEF ArePaths
  <2> QED BY <2>1
<1> DEFINE m == Size + 1
           path == [n \in 0..m |-> IF n = m THEN longer(tree, q[Size]) ELSE q[n]]
<1>2. m \in Nat /\ Size \in 0..m /\ Size \in 0..Size /\ Size < m /\ Size \in Nat
  BY SizeIsNat
<1> HIDE DEF m
<1>3. ArePaths(tree, path, m)
  <2>1. \A n \in 0..Size : path[n] = q[n]
    BY <1>2 DEF m
  <2>2. ASSUME NEW n \in 0..m PROVE path[n] = IF n = 0 THEN shortest ELSE longer(tree, path[n - 1])
    <3>1. CASE n = m
      BY <2>1, <3>1, <1>2 DEF m
    <3>2. CASE n # m
      <4>1. n \in 0..Size /\ (n # 0 => n - 1 \in 0..Size)
        BY <3>2, <1>2 DEF m
      <4>2. q[n] = IF n = 0 THEN shortest ELSE longer(tree, q[n - 1])
        BY <1>q, <4>1
      <4>3. path[n] = q[n] /\ (n # 0 => path[n - 1] = q[n - 1])
        BY <4>1, <2>1
      <4> HIDE DEF path
      <4> QED BY <4>2, <4>3
    <3> QED BY <3>1, <3>2
  <2>3. path = [n \in 0..m |-> path[n]]
    OBVIOUS
  <2> HIDE DEF path
  <2> QED BY <2>2, <2>3 DEF ArePaths
<1>4. path[Size] = q[Size] /\ path[m] = longer(tree, q[Size])
  BY <1>2 DEF m
<1> HIDE DEF path
<1>t. /\ \A n \in 0..m : path[n] = [i \in Ids |-> path[n][i]]
      /\ \A n \in 0..m : path[n][Home] = <<>> /\ path[n][Outside] = NoPath
      /\ \A n \in 0..m : n # 0 => path[n] = longer(tree, path[n - 1])
  <2>1. m \in Nat /\ ArePaths(tree, path, m)
    BY <1>2, <1>3
  <2>2. TableOf(tree, path, m)
    BY <2>1, PathTables
  <2> QED BY <2>2 DEF TableOf
<1> SUFFICES ASSUME path[m] # path[Size] PROVE FALSE
  BY <1>1, <1>4
<1>5. ASSUME NEW n \in Nat, n <= Size PROVE path[n + 1] # path[n]
  <2> DEFINE Bad == {k \in Nat : n <= k /\ k <= Size /\ path[k + 1] # path[k]}
  <2> SUFFICES ASSUME path[n + 1] = path[n] PROVE FALSE
    OBVIOUS
  <2>1. Size \in Bad
    BY <1>2, <1>5 DEF m
  <2>2. PICK k \in Bad : \A l \in Bad : k <= l
    BY <2>1, MinIsLeast
  <2>3. k # n
    OBVIOUS
  <2>4. k - 1 \in Nat /\ k - 1 \notin Bad /\ n <= k - 1 /\ k - 1 <= Size /\ (k - 1) + 1 = k
    BY <2>2, <2>3, <1>2
  <2>5. path[k] = path[k - 1]
    BY <2>4
  <2>6. k \in 0..m /\ k # 0 /\ k + 1 \in 0..m /\ k + 1 # 0 /\ (k + 1) - 1 = k
    BY <2>4, <1>2 DEF m
  <2>7. path[k] = longer(tree, path[k - 1]) /\ path[k + 1] = longer(tree, path[k])
    BY <2>6, <1>t
  <2> QED BY <2>5, <2>7
<1> DEFINE D(n) == {i \in Inodes : path[n][i] # NoPath}
           Few == {n \in Nat : n <= m /\ ~(Cardinality(D(n)) >= n)}
<1>6. IsFiniteSet(Inodes) /\ Cardinality(Inodes) = Size
  BY ConstantsAssumption DEF Size
<1>7. \A n \in Nat : IsFiniteSet(D(n)) /\ Cardinality(D(n)) \in Nat /\ Cardinality(D(n)) <= Size
  BY <1>6, FS_Subset, FS_CardinalityType
<1>8. Few = {}
  <2> SUFFICES ASSUME Few # {} PROVE FALSE
    OBVIOUS
  <2>1. PICK n \in Few : \A k \in Few : n <= k
    BY MinIsLeast
  <2>2. n # 0
    BY <1>7
  <2>3. n - 1 \in Nat /\ n - 1 <= Size /\ (n - 1) + 1 = n /\ n - 1 \in 0..m /\ n \in 0..m /\ n - 1 < m
    BY <2>1, <2>2, <1>2 DEF m
  <2>4. n - 1 \notin Few
    BY <2>1, <2>3
  <2>5. Cardinality(D(n - 1)) >= n - 1
    BY <2>3, <2>4
  <2>6. path[n] # path[n - 1]
    BY <2>3, <1>5
  <2>7. PICK i \in Ids : path[n][i] # path[n - 1][i]
    <3>1. path[n] = [j \in Ids |-> path[n][j]] /\ path[n - 1] = [j \in Ids |-> path[n - 1][j]]
      BY <2>3, <1>t
    <3> QED BY <3>1, <2>6
  <2>8. \A j \in Ids : path[n - 1][j] # NoPath => path[n][j] = path[n - 1][j]
    <3>1. \A k \in Nat, j \in Ids : k < m /\ path[k][j] # NoPath => path[k + 1][j] = path[k][j]
      BY <1>2, <1>3, PathsGrow
    <3> QED BY <2>3, <3>1
  <2>9. i \in Inodes /\ path[n - 1][i] = NoPath /\ path[n][i] # NoPath
    <3>1. i # Home /\ i # Outside
      BY <2>3, <2>7, <1>t
    <3> QED BY <3>1, <2>7, <2>8 DEF Ids
  <2>10. D(n - 1) \subseteq D(n) /\ D(n - 1) # D(n)
    BY <2>8, <2>9 DEF Ids
  <2> HIDE DEF D
  <2>11. Cardinality(D(n - 1)) <= Cardinality(D(n)) /\ Cardinality(D(n - 1)) # Cardinality(D(n))
    BY <2>10, <2>3, <1>7, FS_Subset
  <2>12. n \in Nat /\ ~(Cardinality(D(n)) >= n)
    BY <2>1
  <2>13. Cardinality(D(n)) \in Nat /\ Cardinality(D(n - 1)) \in Nat
    BY <2>3, <2>12, <1>7
  <2> QED BY <2>5, <2>11, <2>12, <2>13
<1>9. m \in Nat /\ m <= m /\ m \notin Few
  BY <1>2, <1>8
<1> HIDE DEF D
<1> QED BY <1>2, <1>7, <1>9 DEF m

LEMMA PathEquation ==
  ASSUME NEW tree
  PROVE  /\ pathsIn(tree)[Home] = <<>> /\ pathsIn(tree)[Outside] = NoPath
         /\ \A i \in Inodes : tree[i] \notin Places => pathsIn(tree)[i] = NoPath
         /\ \A i \in Inodes : tree[i] \in Places =>
              pathsIn(tree)[i] = IF pathsIn(tree)[tree[i][1]] = NoPath THEN NoPath
                                 ELSE Append(pathsIn(tree)[tree[i][1]], tree[i][2])
<1> DEFINE p == pathsIn(tree)
<1>1. {Home, Outside} \subseteq Ids /\ Home # Outside /\ \A i \in Inodes : i \in Ids /\ i # Home /\ i # Outside
  BY ConstantsAssumption DEF Ids
<1>2. \A i \in Ids : p[i] = longer(tree, p)[i]
  BY PathsAreStable
<1> HIDE DEF p
<1>3. /\ longer(tree, p)[Home] = <<>> /\ longer(tree, p)[Outside] = NoPath
      /\ \A i \in Inodes : longer(tree, p)[i] =
              IF tree[i] \notin Places THEN NoPath
              ELSE IF p[tree[i][1]] = NoPath THEN NoPath
              ELSE Append(p[tree[i][1]], tree[i][2])
  BY <1>1 DEF longer
<1>4. /\ p[Home] = <<>> /\ p[Outside] = NoPath
      /\ \A i \in Inodes : p[i] = IF tree[i] \notin Places THEN NoPath
                                  ELSE IF p[tree[i][1]] = NoPath THEN NoPath
                                  ELSE Append(p[tree[i][1]], tree[i][2])
  BY <1>1, <1>2, <1>3
<1> QED BY <1>4 DEF p

-----------------------------------------------------------------------------
(* Trees, and what is above and below. *)

\* Something is in Home or in a folder with a path, or it is Home.
StepUp(tree, x) ==
  LET path == pathsIn(tree)
      up   == tree[x][1]
  IN  \/ x = Home /\ path[x] = <<>>
      \/ /\ x # Home /\ x \in Inodes /\ tree[x] \in Places /\ tree[x] = <<up, tree[x][2]>>
         /\ up \in Watchable /\ up \in Ids /\ tree[x][2] \in Names
         /\ path[up] # NoPath /\ path[up] \in Seq(Names)
         /\ path[x] = Append(path[up], tree[x][2])
         /\ Len(path[x]) = Len(path[up]) + 1

LEMMA StepsUp ==
  ASSUME NEW tree, NEW x \in Ids, pathsIn(tree)[x] # NoPath
  PROVE  StepUp(tree, x) /\ pathsIn(tree)[x] \in Seq(Names) /\ Len(pathsIn(tree)[x]) \in Nat
<1> DEFINE p == pathsIn(tree)
<1>1. p[x] \in Seq(Names)
  BY PathIsNames
<1>2. CASE x = Home
  BY <1>1, <1>2, PathEquation DEF StepUp
<1>3. CASE x # Home
  <2>1. x \in Inodes
    BY <1>3, PathEquation DEF Ids
  <2>2. tree[x] \in Places
    BY <2>1, PathEquation
  <2> DEFINE up == tree[x][1]
  <2>3. up \in Ids /\ up \in Parents /\ tree[x][2] \in Names /\ tree[x] = <<up, tree[x][2]>>
    BY <2>2, PlacesAre DEF Places
  <2>4. p[up] # NoPath /\ p[x] = Append(p[up], tree[x][2])
    BY <2>1, <2>2, PathEquation
  <2>5. up \in Watchable
    BY <2>3, <2>4, PathEquation DEF Parents, Watchable
  <2>6. p[up] \in Seq(Names)
    BY <2>3, <2>4, PathIsNames
  <2> HIDE DEF p, up
  <2>7. Len(p[x]) = Len(p[up]) + 1
    BY <2>3, <2>4, <2>6
  <2> QED BY <1>1, <1>3, <2>1, <2>2, <2>3, <2>4, <2>5, <2>6, <2>7 DEF StepUp, p, up
<1> QED BY <1>1, <1>2, <1>3

\* Of some that have paths, one has a shortest one.
LEMMA ShortestOf ==
  ASSUME NEW tree, NEW S, S \subseteq Ids, S # {}, \A x \in S : pathsIn(tree)[x] # NoPath
  PROVE  \E x \in S : \A y \in S : Len(pathsIn(tree)[x]) <= Len(pathsIn(tree)[y])
<1> DEFINE L == {Len(pathsIn(tree)[x]) : x \in S}
<1>1. L \subseteq Nat /\ L # {}
  BY StepsUp
<1>2. PICK n \in L : \A m \in L : n <= m
  BY <1>1, MinIsLeast
<1> QED BY <1>2

\* No two things are in one place.
Distinct(tree) == \A i, j \in Inodes : tree[i] \in Places /\ tree[i] = tree[j] => i = j

LEMMA PathsAreDistinct ==
  ASSUME NEW tree, Distinct(tree), NEW x \in Ids, NEW y \in Ids,
         pathsIn(tree)[x] # NoPath, pathsIn(tree)[x] = pathsIn(tree)[y]
  PROVE  x = y
<1> DEFINE p == pathsIn(tree)
           Bad == {z \in Ids : p[z] # NoPath /\ \E w \in Ids : p[w] = p[z] /\ w # z}
<1> SUFFICES ASSUME Bad # {} PROVE FALSE
  OBVIOUS
<1>1. PICK z \in Bad : \A o \in Bad : Len(p[z]) <= Len(p[o])
  BY ShortestOf
<1>2. PICK w \in Ids : p[w] = p[z] /\ w # z
  OBVIOUS
<1>3. z \in Ids /\ p[z] # NoPath
  OBVIOUS
<1>4. StepUp(tree, z) /\ StepUp(tree, w) /\ Len(p[z]) \in Nat
  BY <1>2, <1>3, StepsUp
<1> DEFINE up == tree[z][1]
           over == tree[w][1]
<1>5. z # Home /\ w # Home
  BY <1>2, <1>4, PrefixOfAppended DEF StepUp
<1>6. /\ z \in Inodes /\ tree[z] \in Places /\ tree[z] = <<up, tree[z][2]>> /\ tree[z][2] \in Names
      /\ up \in Ids /\ p[up] # NoPath /\ p[up] \in Seq(Names) /\ p[z] = Append(p[up], tree[z][2])
      /\ Len(p[z]) = Len(p[up]) + 1 /\ Len(p[up]) \in Nat
  BY <1>4, <1>5 DEF StepUp
<1>7. /\ w \in Inodes /\ tree[w] \in Places /\ tree[w] = <<over, tree[w][2]>> /\ tree[w][2] \in Names
      /\ over \in Ids /\ p[over] # NoPath /\ p[over] \in Seq(Names) /\ p[w] = Append(p[over], tree[w][2])
  BY <1>4, <1>5 DEF StepUp
<1>8. p[up] = p[over] /\ tree[z][2] = tree[w][2]
  <2>1. Append(p[up], tree[z][2]) = Append(p[over], tree[w][2])
    BY <1>2, <1>6, <1>7
  <2>2. /\ p[up] \in Seq(Names) /\ p[over] \in Seq(Names)
        /\ tree[z][2] \in Names /\ tree[w][2] \in Names
    BY <1>6, <1>7
  <2> HIDE DEF Bad, p, up, over
  <2> QED BY <2>1, <2>2, AppendedSame
<1>9. up = over
  <2> SUFFICES ASSUME up # over PROVE FALSE
    OBVIOUS
  <2>1. up \in Bad
    BY <1>6, <1>7, <1>8
  <2> HIDE DEF Bad
  <2> QED BY <2>1, <1>1, <1>6
<1> QED BY <1>2, <1>6, <1>7, <1>8, <1>9 DEF Distinct

\* Where a tree stays the same, up to Home, so do the paths.
Closed(tree, S) == S \subseteq Inodes /\ \A i \in S : tree[i] \in Places => tree[i][1] \in S \cup {Home, Outside}

LEMMA PathsFollow ==
  ASSUME NEW t, NEW u, NEW S, Closed(t, S), \A i \in S : u[i] = t[i]
  PROVE  \A i \in S : pathsIn(t)[i] # NoPath => pathsIn(u)[i] = pathsIn(t)[i]
<1> DEFINE p == pathsIn(t)
           q == pathsIn(u)
           Bad == {i \in S : p[i] # NoPath /\ q[i] # p[i]}
<1> SUFFICES ASSUME Bad # {} PROVE FALSE
  OBVIOUS
<1>1. Bad \subseteq Ids
  BY DEF Closed, Ids
<1>2. PICK i \in Bad : \A j \in Bad : Len(p[i]) <= Len(p[j])
  BY <1>1, ShortestOf
<1>3. i \in S /\ p[i] # NoPath /\ q[i] # p[i] /\ i \in Inodes /\ i # Home /\ i \in Ids
  BY ConstantsAssumption DEF Closed, Ids
<1> DEFINE up == t[i][1]
<1>4. /\ t[i] \in Places /\ up \in Watchable /\ up \in Ids /\ p[up] # NoPath
      /\ p[i] = Append(p[up], t[i][2]) /\ Len(p[i]) = Len(p[up]) + 1 /\ Len(p[up]) \in Nat
  <2>1. StepUp(t, i)
    BY <1>3, StepsUp
  <2> QED BY <1>3, <2>1 DEF StepUp
<1>5. u[i] = t[i]
  BY <1>3
<1>6. q[i] = IF q[up] = NoPath THEN NoPath ELSE Append(q[up], t[i][2])
  BY <1>3, <1>4, <1>5, PathEquation
<1>7. q[up] = p[up]
  <2>1. CASE up \in S
    <3>1. up \notin Bad
      <4> HIDE DEF Bad
      <4> QED BY <1>2, <1>4
    <3> QED BY <2>1, <3>1, <1>4
  <2>2. CASE up \notin S
    <3>1. up \in {Home, Outside}
      BY <1>3, <1>4, <2>2 DEF Closed
    <3> QED BY <3>1, PathEquation
  <2> QED BY <2>1, <2>2
<1> QED BY <1>3, <1>4, <1>6, <1>7

LEMMA PathsStay ==
  ASSUME NEW t, NEW u, NEW S, Closed(t, S), \A i \in S : u[i] = t[i]
  PROVE  \A i \in S \cup {Home, Outside} : pathsIn(u)[i] = pathsIn(t)[i]
<1>1. Closed(u, S) /\ \A i \in S : t[i] = u[i]
  BY DEF Closed
<1>2. \A i \in S : pathsIn(t)[i] # NoPath => pathsIn(u)[i] = pathsIn(t)[i]
  BY PathsFollow
<1>3. \A i \in S : pathsIn(u)[i] # NoPath => pathsIn(t)[i] = pathsIn(u)[i]
  BY <1>1, PathsFollow
<1>4. \A i \in S : pathsIn(t)[i] = pathsIn(u)[i]
  BY <1>2, <1>3
<1> QED BY <1>4, PathEquation

\* Every beginning of a path is the path of what is above.
LEMMA PrefixIsAbove ==
  ASSUME NEW tree, NEW x \in Ids, pathsIn(tree)[x] # NoPath,
         NEW p \in Seq(Names), IsPrefix(p, pathsIn(tree)[x])
  PROVE  \E a \in Ids : pathsIn(tree)[a] = p /\ (a = x \/ a \in Watchable)
<1> DEFINE P == pathsIn(tree)
           Bad == {z \in Ids : /\ P[z] # NoPath /\ IsPrefix(p, P[z])
                               /\ ~ \E a \in Ids : P[a] = p /\ (a = z \/ a \in Watchable)}
<1> SUFFICES ASSUME Bad # {} PROVE FALSE
  OBVIOUS
<1>1. PICK z \in Bad : \A o \in Bad : Len(P[z]) <= Len(P[o])
  BY ShortestOf
<1>2. z \in Ids /\ P[z] # NoPath /\ IsPrefix(p, P[z]) /\ ~ \E a \in Ids : P[a] = p /\ (a = z \/ a \in Watchable)
  OBVIOUS
<1>3. StepUp(tree, z) /\ P[z] \in Seq(Names)
  BY <1>2, StepsUp
<1>4. p # P[z]
  BY <1>2
<1> DEFINE up == tree[z][1]
<1>5. z # Home
  <2>1. IsPrefix(p, <<>>) => p = <<>>
    BY PrefixOfNone
  <2> QED BY <2>1, <1>2, <1>3, <1>4 DEF StepUp
<1>6. /\ up \in Watchable /\ up \in Ids /\ P[up] # NoPath /\ P[up] \in Seq(Names) /\ tree[z][2] \in Names
      /\ P[z] = Append(P[up], tree[z][2]) /\ Len(P[z]) = Len(P[up]) + 1 /\ Len(P[up]) \in Nat
  BY <1>3, <1>5 DEF StepUp
<1>7. IsPrefix(p, P[up])
  BY <1>2, <1>4, <1>6, PrefixOfAppended
<1>8. up \in Bad
  <2>1. ~ \E a \in Ids : P[a] = p /\ (a = up \/ a \in Watchable)
    BY <1>2, <1>6
  <2> QED BY <1>6, <1>7, <2>1
<1> HIDE DEF Bad
<1> QED BY <1>1, <1>6, <1>8

\* What is below a folder is that folder, or is below something in it.
LEMMA BelowIsInside ==
  ASSUME NEW tree, Distinct(tree), NEW i \in Ids, NEW x \in Ids,
         pathsIn(tree)[i] # NoPath, pathsIn(tree)[x] # NoPath, x # i,
         IsPrefix(pathsIn(tree)[i], pathsIn(tree)[x])
  PROVE  \E a \in Inodes : /\ tree[a] \in Places /\ tree[a][1] = i /\ (a = x \/ a \in Folders)
                           /\ pathsIn(tree)[a] # NoPath /\ IsPrefix(pathsIn(tree)[a], pathsIn(tree)[x])
<1> DEFINE P == pathsIn(tree)
           Inside(z, a) == /\ tree[a] \in Places /\ tree[a][1] = i /\ (a = z \/ a \in Folders)
                           /\ P[a] # NoPath /\ IsPrefix(P[a], P[z])
           Bad == {z \in Ids : /\ P[z] # NoPath /\ IsPrefix(P[i], P[z]) /\ z # i
                               /\ ~ \E a \in Inodes : Inside(z, a)}
<1> SUFFICES ASSUME Bad # {} PROVE FALSE
  OBVIOUS
<1>1. PICK z \in Bad : \A o \in Bad : Len(P[z]) <= Len(P[o])
  BY ShortestOf
<1>2. z \in Ids /\ P[z] # NoPath /\ IsPrefix(P[i], P[z]) /\ z # i /\ ~ \E a \in Inodes : Inside(z, a)
  OBVIOUS
<1>3. StepUp(tree, z) /\ P[z] \in Seq(Names) /\ P[i] \in Seq(Names)
  BY <1>2, StepsUp
<1>4. P[i] # P[z]
  BY <1>2, PathsAreDistinct
<1> DEFINE up == tree[z][1]
<1>5. z # Home
  <2>1. IsPrefix(P[i], <<>>) => P[i] = <<>>
    BY <1>3, PrefixOfNone
  <2> QED BY <2>1, <1>2, <1>3, <1>4 DEF StepUp
<1>6. /\ z \in Inodes /\ tree[z] \in Places
      /\ up \in Watchable /\ up \in Ids /\ P[up] # NoPath /\ P[up] \in Seq(Names) /\ tree[z][2] \in Names
      /\ P[z] = Append(P[up], tree[z][2]) /\ Len(P[z]) = Len(P[up]) + 1 /\ Len(P[up]) \in Nat
  BY <1>3, <1>5 DEF StepUp
<1>7. IsPrefix(P[i], P[up]) /\ IsPrefix(P[up], P[z]) /\ IsPrefix(P[z], P[z])
  <2>1. IsPrefix(P[z], P[z])
    BY <1>3, PrefixOrder
  <2>2. IsPrefix(P[up], Append(P[up], tree[z][2]))
    BY <1>6, AppendedIsLonger
  <2> HIDE DEF P, up
  <2>3. IsPrefix(P[i], Append(P[up], tree[z][2]))
    BY <1>2, <1>6
  <2>4. P[i] = Append(P[up], tree[z][2]) \/ IsPrefix(P[i], P[up])
    BY <1>3, <1>6, <2>3, PrefixOfLonger
  <2> QED BY <1>4, <1>6, <2>1, <2>2, <2>4
<1>8. up # i
  BY <1>2, <1>6, <1>7
<1>9. up \in Bad
  <2>1. ASSUME NEW a \in Inodes, Inside(up, a) PROVE FALSE
    <3>1. a \in Folders
      BY <2>1, <1>6, ConstantsAssumption DEF Watchable
    <3>2. P[a] \in Seq(Names)
      BY <2>1, StepsUp DEF Ids
    <3>3. IsPrefix(P[a], P[z])
      BY <2>1, <3>2, <1>3, <1>6, <1>7, PrefixOfPrefix
    <3> QED BY <2>1, <3>1, <3>3, <1>2
  <2> HIDE DEF Inside
  <2> QED BY <1>6, <1>7, <1>8, <2>1
<1> HIDE DEF Bad
<1> QED BY <1>1, <1>6, <1>9

-----------------------------------------------------------------------------
(* Watches follow folders: what is watched, K, and under which paths, T, as a  *)
(* matter of the tree, the events q, the excluded paths S and the paths that   *)
(* the walk has to look at, ps, or below, ls.                                  *)

Clean(path, S) == path # NoPath /\ Shown(path) /\ \A p \in S : ~IsPrefix(p, path)

IsOfFolder(e, kind) == e.event = kind /\ e.isDir
spot(e) == <<e.wd, e.name>>

Announced(x, tree, q) ==
  \E n \in DOMAIN q, a \in Folders : /\ IsOfFolder(q[n], "Create") /\ tree[a] = spot(q[n])
                                     /\ IsPrefix(pathsIn(tree)[a], pathsIn(tree)[x])
ToBeRead(x, tree, ps, ls) ==
  \/ \E p \in ps : IsPrefix(p, pathsIn(tree)[x])
  \/ \E p \in ls : IsPrefix(p, pathsIn(tree)[x]) /\ p # pathsIn(tree)[x]

\* A folder is watched under its path, and is one to be indexed.
WatchedRightly(K, T, tree, S) == \A x \in K : T[x] = pathsIn(tree)[x] /\ Clean(pathsIn(tree)[x], S)

\* Of another one that is in the tables, or should be, an event tells.
RemovalsAreTold(K, T, q) ==
  \A x \in Watchable \ K : T[x] # NoPath => \E n \in DOMAIN q : q[n].event = "DeleteSelf" /\ q[n].wd = x
CreationsAreTold(K, tree, q, S, ps, ls) ==
  \A x \in Watchable \ K : Clean(pathsIn(tree)[x], S) => Announced(x, tree, q) \/ ToBeRead(x, tree, ps, ls)

\* What these events tell is true, each tells it once, and what was in a new
\* folder when it is looked at is not told to be gone later.
RemovalsAreTrue(tree, q) ==
  \A n \in DOMAIN q : q[n].event = "DeleteSelf" => q[n].wd \in Folders /\ tree[q[n].wd] = Gone
CreationsAreTrue(K, tree, q) ==
  /\ \A n \in DOMAIN q : IsOfFolder(q[n], "Create") =>
        q[n].wd \in K /\ \E a \in Folders \ K : tree[a] = spot(q[n])
  /\ \A n, m \in DOMAIN q :
        IsOfFolder(q[n], "Create") /\ IsOfFolder(q[m], "Create") /\ spot(q[n]) = spot(q[m]) => n = m
EventsInOrder(T, q) ==
  \A n, m \in DOMAIN q :
     n < m /\ IsOfFolder(q[n], "Create") /\ q[m].event = "DeleteSelf" /\ T[q[m].wd] # NoPath
       => ~IsPrefix(Append(T[q[n].wd], q[n].name), T[q[m].wd])

Sound(K, T, tree, q, S, ps, ls) ==
  /\ WatchedRightly(K, T, tree, S)
  /\ RemovalsAreTold(K, T, q) /\ CreationsAreTold(K, tree, q, S, ps, ls)
  /\ RemovalsAreTrue(tree, q) /\ CreationsAreTrue(K, tree, q) /\ EventsInOrder(T, q)

ParentsToo(K, tree) == \A x \in K \cap Folders : tree[x][1] \in K

\* The two tables of KInotify are inverse to each other.
Tables(w) ==
  /\ w.wd = {<<w.path[x], x>> : x \in {y \in Watchable : w.path[y] # NoPath}}
  /\ \A x, y \in Watchable : w.path[x] # NoPath /\ w.path[x] = w.path[y] => x = y

SoundTree(tree) ==
  /\ Distinct(tree)
  /\ \A i \in Inodes : tree[i] \in Places /\ tree[i][1] \in Inodes => tree[tree[i][1]] \in Places
\* Only folders in Home are excluded, while they stand.
Stands(S, tree) == \A p \in S : \E i \in Folders, n \in Names : p = <<n>> /\ tree[i] = <<Home, n>>

-----------------------------------------------------------------------------
LEMMA CleanAbove ==
  ASSUME NEW s \in Seq(Names), NEW t \in Seq(Names), NEW S, S \subseteq Seq(Names),
         Clean(t, S), IsPrefix(s, t)
  PROVE  Clean(s, S)
<1>1. s # NoPath
  BY ConstantsAssumption
<1>2. Shown(s)
  <2>1. Len(s) <= Len(t) /\ \A n \in 1..Len(s) : s[n] = t[n]
    BY PrefixIs
  <2>2. Len(s) \in Nat /\ Len(t) \in Nat /\ DOMAIN s = 1..Len(s) /\ DOMAIN t = 1..Len(t)
    OBVIOUS
  <2>3. \A n \in 1..Len(t) : t[n] \notin Hidden
    BY <2>2 DEF Clean, Shown
  <2> QED BY <2>1, <2>2, <2>3 DEF Shown
<1>3. \A p \in S : ~IsPrefix(p, s)
  BY PrefixOfPrefix DEF Clean
<1> QED BY <1>1, <1>2, <1>3 DEF Clean

\* A watched folder is below watched folders only.
LEMMA WatchedAbove ==
  ASSUME NEW tree, Distinct(tree), NEW K, K \subseteq Watchable, ParentsToo(K, tree),
         \A x \in K : pathsIn(tree)[x] # NoPath,
         NEW x \in K, NEW b \in Ids, pathsIn(tree)[b] # NoPath, IsPrefix(pathsIn(tree)[b], pathsIn(tree)[x])
  PROVE  b \in K
<1> DEFINE P == pathsIn(tree)
           Bad == {z \in K : IsPrefix(P[b], P[z]) /\ b \notin K}
<1> SUFFICES ASSUME Bad # {} PROVE FALSE
  OBVIOUS
<1>0. K \subseteq Ids /\ Bad \subseteq K
  BY DEF Watchable, Ids, Inodes
<1>1. PICK z \in Bad : \A o \in Bad : Len(P[z]) <= Len(P[o])
  BY <1>0, ShortestOf
<1>2. z \in K /\ IsPrefix(P[b], P[z]) /\ b \notin K /\ z \in Ids /\ z \in Watchable
  BY <1>0
<1>3. StepUp(tree, z) /\ P[z] \in Seq(Names) /\ P[b] \in Seq(Names)
  BY <1>2, StepsUp
<1>4. P[b] # P[z]
  BY <1>2, PathsAreDistinct
<1> DEFINE up == tree[z][1]
<1>5. z # Home
  <2>1. IsPrefix(P[b], <<>>) => P[b] = <<>>
    BY <1>3, PrefixOfNone
  <2> QED BY <2>1, <1>2, <1>3, <1>4 DEF StepUp
<1>6. /\ up \in Watchable /\ up \in Ids /\ P[up] # NoPath /\ P[up] \in Seq(Names) /\ tree[z][2] \in Names
      /\ P[z] = Append(P[up], tree[z][2]) /\ Len(P[z]) = Len(P[up]) + 1 /\ Len(P[up]) \in Nat
  BY <1>3, <1>5 DEF StepUp
<1>7. IsPrefix(P[b], P[up])
  <2>1. IsPrefix(P[b], Append(P[up], tree[z][2])) => P[b] = Append(P[up], tree[z][2]) \/ IsPrefix(P[b], P[up])
    BY <1>3, <1>6, PrefixOfAppended
  <2> QED BY <2>1, <1>2, <1>4, <1>6
<1>8. up \in K
  BY <1>2, <1>5 DEF ParentsToo, Watchable
<1>9. up \in Bad
  BY <1>2, <1>7, <1>8
<1> HIDE DEF Bad
<1> QED BY <1>1, <1>6, <1>9

\* The configuration looks at a path as a folder's, if there is one.
LEMMA IndexedIsClean ==
  ASSUME TypeOK, Stands(excluded, place), NEW path \in Seq(Names)
  PROVE  shouldBeIndexed(path) <=> Clean(path, excluded)
<1> DEFINE folder == IF foldersAt(path) # {} THEN path ELSE folderOf(path)
<1>1. shouldBeIndexed(path) <=> /\ path # NoPath /\ Shown(path)
                                /\ \A p \in excluded : ~IsPrefix(p, folder)
  BY DEF shouldBeIndexed, indexable, shouldFileBeIndexed, Shown
<1>2. excluded \subseteq Seq(Names)
  BY DEF TypeOK
<1>3. path # <<>> => /\ folderOf(path) \in Seq(Names) /\ Last(path) \in Names
                     /\ path = Append(folderOf(path), Last(path))
  <2> SUFFICES ASSUME path # <<>> PROVE /\ folderOf(path) \in Seq(Names) /\ Last(path) \in Names
                                        /\ path = Append(folderOf(path), Last(path))
    OBVIOUS
  <2>1. /\ folderOf(path) \in Seq(Names) /\ Last(path) \in Names /\ Last(path) = path[Len(path)]
        /\ DOMAIN folderOf(path) = 1..(Len(path) - 1)
        /\ \A n \in 1..(Len(path) - 1) : folderOf(path)[n] = path[n]
    BY FolderOfNames
  <2> DEFINE s == folderOf(path)
  <2> HIDE DEF s
  <2>2. Len(path) \in Nat \ {0} /\ Len(s) = Len(path) - 1 /\ s \in Seq(Names)
    BY <2>1 DEF s
  <2>3. path = Append(s, Last(path))
    BY <2>1, <2>2 DEF s
  <2> QED BY <2>1, <2>3 DEF s
<1>4. path = <<>> => folderOf(path) = <<>>
  BY DEF folderOf
<1>5. ASSUME NEW p \in excluded, IsPrefix(p, folder) PROVE IsPrefix(p, path)
  <2>1. CASE folder = path
    BY <1>5, <2>1
  <2>2. CASE folder # path
    <3>1. folder = folderOf(path) /\ path # <<>>
      BY <2>2, <1>4
    <3>2. IsPrefix(folderOf(path), path)
      BY <3>1, <1>3, PrefixOfAppended
    <3> QED BY <1>2, <1>3, <1>5, <3>1, <3>2, PrefixOfPrefix
  <2> QED BY <2>1, <2>2
<1>6. ASSUME NEW p \in excluded, IsPrefix(p, path), ~IsPrefix(p, folder) PROVE FALSE
  <2>1. foldersAt(path) = {} /\ ~IsPrefix(p, folderOf(path))
    BY <1>6
  <2>2. PICK i \in Folders, n \in Names : p = <<n>> /\ place[i] = <<Home, n>>
    BY DEF Stands
  <2>3. p \in Seq(Names) /\ p # <<>>
    BY <2>2
  <2>4. path # <<>>
    BY <1>6, <2>3, PrefixOfNone
  <2>5. p = path
    <3>1. IsPrefix(p, Append(folderOf(path), Last(path)))
             => p = Append(folderOf(path), Last(path)) \/ IsPrefix(p, folderOf(path))
      BY <1>3, <2>3, <2>4, PrefixOfAppended
    <3> QED BY <3>1, <1>3, <1>6, <2>1, <2>4
  <2>6. pathsIn(place)[i] = <<n>>
    <3>1. i \in Inodes /\ place[i] \in Places /\ place[i][1] = Home /\ place[i][2] = n
      BY <2>2 DEF Inodes, Places, Parents
    <3>2. <<>> # NoPath /\ pathsIn(place)[Home] = <<>>
      <4>1. <<>> \in Seq(Names) /\ NoPath \notin Seq(Names)
        BY ConstantsAssumption
      <4> QED BY <4>1, PathEquation
    <3>3. pathsIn(place)[i] = Append(<<>>, n)
      BY <3>1, <3>2, PathEquation
    <3> QED BY <3>3
  <2>7. i \in At(place, path)
    <3>1. path # NoPath
      BY ConstantsAssumption
    <3> QED BY <3>1, <2>2, <2>5, <2>6 DEF At, Inodes
  <2> QED BY <2>1, <2>2, <2>7 DEF foldersAt
<1>7. (\A p \in excluded : ~IsPrefix(p, folder)) <=> (\A p \in excluded : ~IsPrefix(p, path))
  BY <1>5, <1>6
<1> HIDE DEF folder
<1> QED BY <1>1, <1>7 DEF Clean

-----------------------------------------------------------------------------
(* The tables stay inverse to each other. *)

LEMMA TablesRemoved ==
  ASSUME TypeOK, Tables(watches), NEW S \in SUBSET Watchable
  PROVE  Tables(removeWatches(watches, S))
<1> DEFINE w == removeWatches(watches, S)
           pt == watches.path
<1>1. \A i \in Watchable : w.path[i] = IF i \in S THEN NoPath ELSE pt[i]
  BY RemovedWatches
<1>2. w.wd = {e \in watches.wd : \A i \in S : e[1] # pt[i]}
  BY DEF removeWatches
<1>3. /\ watches.wd = {<<pt[x], x>> : x \in {y \in Watchable : pt[y] # NoPath}}
      /\ \A x, y \in Watchable : pt[x] # NoPath /\ pt[x] = pt[y] => x = y
  BY DEF Tables
<1> HIDE DEF w, pt
<1>4. ASSUME NEW x \in Watchable, w.path[x] # NoPath PROVE <<w.path[x], x>> \in w.wd
  <2>1. x \notin S /\ w.path[x] = pt[x]
    BY <1>1, <1>4
  <2>2. <<pt[x], x>> \in watches.wd
    BY <1>3, <1>4, <2>1
  <2>3. \A i \in S : pt[x] # pt[i]
    BY <1>3, <1>4, <2>1
  <2> QED BY <1>2, <2>1, <2>2, <2>3
<1>5. ASSUME NEW e \in w.wd PROVE \E x \in Watchable : w.path[x] # NoPath /\ e = <<w.path[x], x>>
  <2>1. PICK x \in Watchable : pt[x] # NoPath /\ e = <<pt[x], x>>
    BY <1>2, <1>3
  <2>2. x \notin S
    BY <1>2, <2>1
  <2> QED BY <1>1, <2>1, <2>2
<1>6. w.wd = {<<w.path[x], x>> : x \in {y \in Watchable : w.path[y] # NoPath}}
  BY <1>4, <1>5
<1>7. \A x, y \in Watchable : w.path[x] # NoPath /\ w.path[x] = w.path[y] => x = y
  BY <1>1, <1>3
<1> QED BY <1>6, <1>7 DEF Tables, w

LEMMA TablesAdded ==
  ASSUME TypeOK, Tables(watches), NEW S \in SUBSET Watchable, Distinct(place),
         \A i \in S : pathsIn(place)[i] # NoPath,
         \A i \in S, j \in Watchable : watches.path[j] = pathsIn(place)[i] => j = i,
         \A i \in S : watches.path[i] \in {NoPath, pathsIn(place)[i]}
  PROVE  Tables(addWatches(watches, S))
<1> DEFINE w == addWatches(watches, S)
           pt == watches.path
           P == pathsIn(place)
<1>1. \A i \in Watchable : w.path[i] = IF i \in S THEN P[i] ELSE pt[i]
  BY AddedWatches
<1>2. w.wd = {e \in watches.wd : \A i \in S : e[1] # P[i]} \cup {<<P[i], i>> : i \in S}
  BY DEF addWatches
<1>3. /\ watches.wd = {<<pt[x], x>> : x \in {y \in Watchable : pt[y] # NoPath}}
      /\ \A x, y \in Watchable : pt[x] # NoPath /\ pt[x] = pt[y] => x = y
  BY DEF Tables
<1>4. \A x, y \in S : P[x] = P[y] => x = y
  <2>1. S \subseteq Ids
    BY DEF Watchable, Ids, Inodes
  <2> QED BY <2>1, PathsAreDistinct
<1>5. /\ \A i \in S : P[i] # NoPath
      /\ \A i \in S, j \in Watchable : pt[j] = P[i] => j = i
      /\ \A i \in S : pt[i] \in {NoPath, P[i]}
  OBVIOUS
<1> HIDE DEF w, pt, P
<1>6. ASSUME NEW x \in Watchable, w.path[x] # NoPath PROVE <<w.path[x], x>> \in w.wd
  <2>1. CASE x \in S
    BY <1>1, <1>2, <2>1
  <2>2. CASE x \notin S
    <3>1. w.path[x] = pt[x]
      BY <1>1, <2>2
    <3>2. <<pt[x], x>> \in watches.wd
      BY <1>3, <1>6, <3>1
    <3>3. \A i \in S : pt[x] # P[i]
      BY <1>5, <2>2
    <3> QED BY <1>2, <3>1, <3>2, <3>3
  <2> QED BY <2>1, <2>2
<1>7. ASSUME NEW e \in w.wd PROVE \E x \in Watchable : w.path[x] # NoPath /\ e = <<w.path[x], x>>
  <2>1. CASE \E i \in S : e = <<P[i], i>>
    BY <1>1, <1>5, <2>1
  <2>2. CASE ~ \E i \in S : e = <<P[i], i>>
    <3>1. e \in watches.wd /\ \A i \in S : e[1] # P[i]
      BY <1>2, <2>2
    <3>2. PICK x \in Watchable : pt[x] # NoPath /\ e = <<pt[x], x>>
      BY <1>3, <3>1
    <3>3. CASE x \in S
      BY <1>1, <1>5, <3>1, <3>2, <3>3, <2>2
    <3>4. CASE x \notin S
      BY <1>1, <3>2, <3>4
    <3> QED BY <3>3, <3>4
  <2> QED BY <2>1, <2>2
<1>8. w.wd = {<<w.path[x], x>> : x \in {y \in Watchable : w.path[y] # NoPath}}
  BY <1>6, <1>7
<1>9. \A x, y \in Watchable : w.path[x] # NoPath /\ w.path[x] = w.path[y] => x = y
  BY <1>1, <1>3, <1>4, <1>5
<1> QED BY <1>8, <1>9 DEF Tables, w

LEMMA TablesMoved ==
  ASSUME TypeOK, Tables(watches), NEW i \in Watchable, watches.path[i] # NoPath,
         NEW to \in Seq(Names), \A j \in Watchable : watches.path[j] # to
  PROVE  Tables(movedWatch(watches, watches.path[i], i, to))
<1> DEFINE w == movedWatch(watches, watches.path[i], i, to)
           pt == watches.path
<1>1. \A j \in Watchable : w.path[j] = IF j = i THEN to ELSE pt[j]
  <2> DEFINE p == [pt EXCEPT ![i] = to]
  <2>1. w.path = p
    BY DEF movedWatch, insertWatch, TypeOK
  <2>2. pt \in [Watchable -> {NoPath} \cup Seq(Names)]
    BY DEF TypeOK
  <2> HIDE DEF w, pt
  <2> QED BY <2>1, <2>2
<1>2. w.wd = {e \in watches.wd \ {<<pt[i], i>>} : e[1] # to} \cup {<<to, i>>}
  BY DEF movedWatch, insertWatch, TypeOK
<1>3. /\ watches.wd = {<<pt[x], x>> : x \in {y \in Watchable : pt[y] # NoPath}}
      /\ \A x, y \in Watchable : pt[x] # NoPath /\ pt[x] = pt[y] => x = y
  BY DEF Tables
<1>4. to # NoPath
  BY ConstantsAssumption
<1>5. \A j \in Watchable : pt[j] # to
  OBVIOUS
<1> HIDE DEF w, pt
<1>6. ASSUME NEW x \in Watchable, w.path[x] # NoPath PROVE <<w.path[x], x>> \in w.wd
  BY <1>1, <1>2, <1>3, <1>5, <1>6
<1>7. ASSUME NEW e \in w.wd PROVE \E x \in Watchable : w.path[x] # NoPath /\ e = <<w.path[x], x>>
  <2>1. CASE e = <<to, i>>
    BY <1>1, <1>4, <2>1
  <2>2. CASE e # <<to, i>>
    <3>1. PICK x \in Watchable : pt[x] # NoPath /\ e = <<pt[x], x>> /\ e # <<pt[i], i>>
      BY <1>2, <1>3, <2>2
    <3> QED BY <1>1, <3>1
  <2> QED BY <2>1, <2>2
<1>8. w.wd = {<<w.path[x], x>> : x \in {y \in Watchable : w.path[y] # NoPath}}
  BY <1>6, <1>7
<1>9. \A x, y \in Watchable : w.path[x] # NoPath /\ w.path[x] = w.path[y] => x = y
  BY <1>1, <1>3, <1>5
<1> QED BY <1>8, <1>9 DEF Tables, w, pt

LEMMA WatchedAs ==
  ASSUME Tables(watches), NEW path, path # NoPath
  PROVE  watches.path \in [Watchable -> {NoPath} \cup Seq(Names)] =>
            watchedAs(path) = {i \in Watchable : watches.path[i] = path}
BY DEF Tables, watchedAs

-----------------------------------------------------------------------------
(* The events of a queue that grows, and of one whose head is handled. *)

AllEvents == Events \cup {Overflow}

LEMMA EventIs ==
  ASSUME NEW q \in Seq(AllEvents), NEW n \in DOMAIN q, q[n].event \in Kinds
  PROVE  q[n] \in Events
BY DEF AllEvents, Overflow, Kinds

LEMMA Tailed ==
  ASSUME NEW q \in Seq(AllEvents), q # <<>>
  PROVE  /\ Tail(q) \in Seq(AllEvents) /\ 1 \in DOMAIN q /\ Head(q) = q[1]
         /\ \A n \in DOMAIN Tail(q) : n \in Nat /\ n >= 1 /\ n + 1 \in DOMAIN q /\ Tail(q)[n] = q[n + 1]
         /\ \A n \in DOMAIN q : n \in Nat /\ (n # 1 => n - 1 \in DOMAIN Tail(q) /\ Tail(q)[n - 1] = q[n])
<1> HIDE DEF AllEvents
<1> QED OBVIOUS

LEMMA Grown ==
  ASSUME NEW q \in Seq(AllEvents), NEW es \in Seq(AllEvents)
  PROVE  /\ q \o es \in Seq(AllEvents)
         /\ \A n \in DOMAIN q : n \in DOMAIN (q \o es) /\ (q \o es)[n] = q[n] /\ n \in Nat
         /\ \A m \in DOMAIN es : Len(q) + m \in DOMAIN (q \o es) /\ (q \o es)[Len(q) + m] = es[m]
         /\ \A n \in DOMAIN (q \o es) :
              /\ n \in Nat
              /\ n \in DOMAIN q \/ (n > Len(q) /\ n - Len(q) \in DOMAIN es /\ (q \o es)[n] = es[n - Len(q)])
         /\ Len(q) \in Nat /\ DOMAIN q = 1..Len(q)
<1> DEFINE r == q \o es
<1>1. /\ r \in Seq(AllEvents) /\ Len(r) = Len(q) + Len(es) /\ Len(q) \in Nat /\ Len(es) \in Nat
      /\ \A n \in 1..Len(r) : r[n] = IF n <= Len(q) THEN q[n] ELSE es[n - Len(q)]
      /\ DOMAIN r = 1..Len(r) /\ DOMAIN q = 1..Len(q) /\ DOMAIN es = 1..Len(es)
  OBVIOUS
<1> HIDE DEF r
<1>2. \A n \in DOMAIN q : n \in DOMAIN r /\ r[n] = q[n] /\ n \in Nat
  BY <1>1
<1>3. \A m \in DOMAIN es : Len(q) + m \in DOMAIN r /\ r[Len(q) + m] = es[m]
  BY <1>1
<1>4. ASSUME NEW n \in DOMAIN r
      PROVE  n \in Nat /\ (n \in DOMAIN q \/ (n > Len(q) /\ n - Len(q) \in DOMAIN es /\ r[n] = es[n - Len(q)]))
  BY <1>1
<1> QED BY <1>1, <1>2, <1>3, <1>4 DEF r

\* The paths of folders are those of folders.
LEMMA FolderPathsStay ==
  ASSUME NEW t, NEW u, \A i \in Folders : u[i] = t[i]
  PROVE  \A i \in Watchable : pathsIn(u)[i] = pathsIn(t)[i]
<1>1. Closed(t, Folders)
  BY DEF Closed, Inodes, Places, Parents
<1>2. \A i \in Folders \cup {Home, Outside} : pathsIn(u)[i] = pathsIn(t)[i]
  BY <1>1, PathsStay
<1> QED BY <1>2 DEF Watchable

\* Events that are not about new or removed folders
Aside(e) == ~IsOfFolder(e, "Create") /\ e.event # "DeleteSelf"

LEMMA SoundGrown ==
  ASSUME NEW K, K \subseteq Watchable, NEW T, NEW t, NEW u, NEW q \in Seq(AllEvents), NEW es \in Seq(AllEvents),
         NEW S, NEW ps, NEW ls,
         Sound(K, T, t, q, S, ps, ls), \A i \in Folders : u[i] = t[i], \A m \in DOMAIN es : Aside(es[m])
  PROVE  Sound(K, T, u, q \o es, S, ps, ls)
<1> DEFINE r == q \o es
           P == pathsIn(t)
           R == pathsIn(u)
<1>0. \A x \in Watchable : R[x] = P[x]
  BY FolderPathsStay
<1>1. \A n \in DOMAIN q : n \in DOMAIN r /\ r[n] = q[n] /\ n \in Nat
  BY Grown
<1>2. \A n \in DOMAIN r : (n \in DOMAIN q /\ r[n] = q[n]) \/ Aside(r[n])
  <2>1. ASSUME NEW n \in DOMAIN r PROVE (n \in DOMAIN q /\ r[n] = q[n]) \/ Aside(r[n])
    <3>1. n \in DOMAIN q \/ (n > Len(q) /\ n - Len(q) \in DOMAIN es /\ r[n] = es[n - Len(q)])
      BY Grown
    <3> HIDE DEF r
    <3> QED BY <3>1, <1>1
  <2> QED BY <2>1
<1>3. Folders \subseteq Watchable
  BY DEF Watchable
<1> HIDE DEF r, P, R
<1>4. WatchedRightly(K, T, u, S)
  BY <1>0 DEF Sound, WatchedRightly, P, R
<1>5. RemovalsAreTold(K, T, r)
  BY <1>1 DEF Sound, RemovalsAreTold
<1>6. CreationsAreTold(K, u, r, S, ps, ls)
  <2> SUFFICES ASSUME NEW x \in Watchable \ K, Clean(pathsIn(u)[x], S)
               PROVE  Announced(x, u, r) \/ ToBeRead(x, u, ps, ls)
    BY DEF CreationsAreTold
  <2>1. R[x] = P[x]
    BY <1>0
  <2>2. Announced(x, t, q) \/ ToBeRead(x, t, ps, ls)
    BY <2>1 DEF Sound, CreationsAreTold, P, R
  <2>3. CASE Announced(x, t, q)
    <3>1. PICK n \in DOMAIN q, a \in Folders : IsOfFolder(q[n], "Create") /\ t[a] = spot(q[n]) /\ IsPrefix(P[a], P[x])
      BY <2>3 DEF Announced, P
    <3>2. n \in DOMAIN r /\ r[n] = q[n] /\ u[a] = t[a] /\ R[a] = P[a]
      BY <1>0, <1>1, <1>3
    <3> QED BY <2>1, <3>1, <3>2 DEF Announced, R
  <2>4. CASE ToBeRead(x, t, ps, ls)
    BY <2>1, <2>4 DEF ToBeRead, P, R
  <2> QED BY <2>2, <2>3, <2>4
<1>7. RemovalsAreTrue(u, r)
  BY <1>2 DEF Sound, RemovalsAreTrue, Aside
<1>8. CreationsAreTrue(K, u, r)
  <2>1. ASSUME NEW n \in DOMAIN r, IsOfFolder(r[n], "Create")
        PROVE  n \in DOMAIN q /\ r[n] = q[n] /\ r[n].wd \in K /\ \E a \in Folders \ K : u[a] = spot(r[n])
    <3>1. n \in DOMAIN q /\ r[n] = q[n] /\ IsOfFolder(q[n], "Create")
      BY <1>2, <2>1 DEF Aside
    <3>2. q[n].wd \in K /\ \E a \in Folders \ K : t[a] = spot(q[n])
      BY <3>1 DEF Sound, CreationsAreTrue
    <3> QED BY <3>1, <3>2
  <2>2. ASSUME NEW n \in DOMAIN r, NEW m \in DOMAIN r, IsOfFolder(r[n], "Create"), IsOfFolder(r[m], "Create"),
               spot(r[n]) = spot(r[m])
        PROVE  n = m
    BY <2>1, <2>2 DEF Sound, CreationsAreTrue
  <2> QED BY <2>1, <2>2 DEF CreationsAreTrue
<1>9. EventsInOrder(T, r)
  BY <1>2 DEF Sound, EventsInOrder, Aside
<1> QED BY <1>4, <1>5, <1>6, <1>7, <1>8, <1>9 DEF Sound, r

LEMMA SoundPopped ==
  ASSUME NEW K, K \subseteq Watchable, NEW T, NEW t, NEW q \in Seq(AllEvents), q # <<>>,
         NEW S, NEW ps, NEW ls,
         Sound(K, T, t, q, S, ps, ls), Aside(Head(q))
  PROVE  Sound(K, T, t, Tail(q), S, ps, ls)
<1> DEFINE r == Tail(q)
           P == pathsIn(t)
<1>1. /\ \A n \in DOMAIN r : n \in Nat /\ n >= 1 /\ n + 1 \in DOMAIN q /\ r[n] = q[n + 1]
      /\ \A n \in DOMAIN q : n \in Nat /\ (n # 1 => n - 1 \in DOMAIN r /\ r[n - 1] = q[n])
  BY Tailed
<1>2. Aside(q[1])
  BY Tailed
<1>3. \A n \in DOMAIN q : ~Aside(q[n]) => n - 1 \in DOMAIN r /\ r[n - 1] = q[n]
  BY <1>1, <1>2
<1> HIDE DEF r, P
<1>4. WatchedRightly(K, T, t, S)
  BY DEF Sound
<1>5. RemovalsAreTold(K, T, r)
  BY <1>3 DEF Sound, RemovalsAreTold, Aside
<1>6. CreationsAreTold(K, t, r, S, ps, ls)
  <2> SUFFICES ASSUME NEW x \in Watchable \ K, Clean(pathsIn(t)[x], S)
               PROVE  Announced(x, t, r) \/ ToBeRead(x, t, ps, ls)
    BY DEF CreationsAreTold
  <2>2. Announced(x, t, q) \/ ToBeRead(x, t, ps, ls)
    BY DEF Sound, CreationsAreTold
  <2>3. CASE Announced(x, t, q)
    <3>1. PICK n \in DOMAIN q, a \in Folders : IsOfFolder(q[n], "Create") /\ t[a] = spot(q[n]) /\ IsPrefix(P[a], P[x])
      BY <2>3 DEF Announced, P
    <3>2. n - 1 \in DOMAIN r /\ r[n - 1] = q[n]
      BY <1>3, <3>1 DEF Aside
    <3> QED BY <3>1, <3>2 DEF Announced, P
  <2> QED BY <2>2, <2>3
<1>7. RemovalsAreTrue(t, r)
  BY <1>1 DEF Sound, RemovalsAreTrue
<1>8. CreationsAreTrue(K, t, r)
  <2>1. ASSUME NEW n \in DOMAIN r, IsOfFolder(r[n], "Create")
        PROVE  r[n].wd \in K /\ \E a \in Folders \ K : t[a] = spot(r[n])
    <3>1. n + 1 \in DOMAIN q /\ r[n] = q[n + 1]
      BY <1>1
    <3>2. IsOfFolder(q[n + 1], "Create")
      BY <2>1, <3>1
    <3>3. q[n + 1].wd \in K /\ \E a \in Folders \ K : t[a] = spot(q[n + 1])
      BY <3>1, <3>2 DEF Sound, CreationsAreTrue
    <3> QED BY <3>1, <3>3
  <2>2. ASSUME NEW n \in DOMAIN r, NEW m \in DOMAIN r, IsOfFolder(r[n], "Create"), IsOfFolder(r[m], "Create"),
               spot(r[n]) = spot(r[m])
        PROVE  n = m
    <3>1. n + 1 \in DOMAIN q /\ m + 1 \in DOMAIN q /\ r[n] = q[n + 1] /\ r[m] = q[m + 1] /\ n \in Nat /\ m \in Nat
      BY <1>1
    <3>2. n + 1 = m + 1
      BY <2>2, <3>1 DEF Sound, CreationsAreTrue
    <3> QED BY <3>1, <3>2
  <2> QED BY <2>1, <2>2 DEF CreationsAreTrue
<1>9. EventsInOrder(T, r)
  <2>1. ASSUME NEW n \in DOMAIN r, NEW m \in DOMAIN r, n < m, IsOfFolder(r[n], "Create"),
               r[m].event = "DeleteSelf", T[r[m].wd] # NoPath
        PROVE  ~IsPrefix(Append(T[r[n].wd], r[n].name), T[r[m].wd])
    <3>1. n + 1 \in DOMAIN q /\ m + 1 \in DOMAIN q /\ r[n] = q[n + 1] /\ r[m] = q[m + 1] /\ n + 1 < m + 1
      BY <1>1, <2>1
    <3> QED BY <2>1, <3>1 DEF Sound, EventsInOrder
  <2> QED BY <2>1 DEF EventsInOrder
<1> QED BY <1>4, <1>5, <1>6, <1>7, <1>8, <1>9 DEF Sound, r

\* When no event is about a folder, all that is watched is known at once.
LEMMA SoundAside ==
  ASSUME NEW K, NEW T, NEW t, NEW q, NEW S, NEW ps, NEW ls, \A n \in DOMAIN q : Aside(q[n])
  PROVE  Sound(K, T, t, q, S, ps, ls) <=>
           /\ WatchedRightly(K, T, t, S)
           /\ \A x \in Watchable \ K : T[x] = NoPath
           /\ \A x \in Watchable \ K : Clean(pathsIn(t)[x], S) => ToBeRead(x, t, ps, ls)
<1>1. RemovalsAreTold(K, T, q) <=> \A x \in Watchable \ K : T[x] = NoPath
  BY DEF RemovalsAreTold, Aside
<1>2. \A x : ~Announced(x, t, q)
  BY DEF Announced, Aside
<1>3. CreationsAreTold(K, t, q, S, ps, ls) <=>
        \A x \in Watchable \ K : Clean(pathsIn(t)[x], S) => ToBeRead(x, t, ps, ls)
  BY <1>2 DEF CreationsAreTold
<1>4. RemovalsAreTrue(t, q) /\ CreationsAreTrue(K, t, q) /\ EventsInOrder(T, q)
  BY DEF RemovalsAreTrue, CreationsAreTrue, EventsInOrder, Aside
<1> QED BY <1>1, <1>3, <1>4 DEF Sound

Trees == [Inodes -> Places \cup {Unborn, Gone}]

\* Only the paths below something change when it does.
LEMMA OtherPathsStay ==
  ASSUME NEW t, NEW i \in Inodes, NEW u, \A j \in Inodes \ {i} : u[j] = t[j] /\ (t[j] \in Places => t[j][1] # i)
  PROVE  \A x \in Ids \ {i} : pathsIn(u)[x] = pathsIn(t)[x]
<1>1. Closed(t, Inodes \ {i})
  BY DEF Closed, Inodes, Places, Parents
<1>2. \A x \in (Inodes \ {i}) \cup {Home, Outside} : pathsIn(u)[x] = pathsIn(t)[x]
  BY <1>1, PathsStay
<1> QED BY <1>2 DEF Ids

LEMMA WatchedHavePaths ==
  ASSUME NEW K, K \subseteq Watchable, NEW T, NEW t, NEW S, WatchedRightly(K, T, t, S)
  PROVE  /\ \A x \in K : x \in Ids /\ T[x] = pathsIn(t)[x] /\ pathsIn(t)[x] # NoPath
         /\ \A x \in K : x \in Inodes => t[x] \in Places
<1>1. \A x \in K : x \in Ids /\ T[x] = pathsIn(t)[x] /\ pathsIn(t)[x] # NoPath
  BY DEF WatchedRightly, Clean, Watchable, Ids, Inodes
<1> QED BY <1>1, PathEquation

\* A folder is created, in a watched folder or elsewhere.
LEMMA SoundMade ==
  ASSUME NEW K, K \subseteq Watchable, NEW T, NEW t \in Trees, SoundTree(t), NEW q \in Seq(AllEvents),
         NEW S, S \subseteq Seq(Names), Sound(K, T, t, q, S, {}, {}),
         NEW i \in Folders, t[i] = Unborn, NEW at \in Places, \A j \in Inodes : t[j] # at,
         at[1] \in Inodes => t[at[1]] \in Places,
         NEW es \in Seq(AllEvents), NEW e,
         IsOfFolder(e, "Create"), spot(e) = at, es = IF at[1] \in K THEN <<e>> ELSE <<>>
  PROVE  Sound(K, T, [t EXCEPT ![i] = at], q \o es, S, {}, {})
<1> DEFINE u == [t EXCEPT ![i] = at]
           r == q \o es
           P == pathsIn(t)
           R == pathsIn(u)
<1>1. i \in Inodes /\ i \in Ids /\ i \in Watchable /\ t[i] \notin Places /\ t[i] # Gone /\ i # Home /\ i # Outside
  BY ConstantsAssumption DEF Inodes, Ids, Watchable
<1>2. u[i] = at /\ \A j \in Inodes \ {i} : u[j] = t[j]
  BY <1>1 DEF Trees
<1>3. \A x \in Ids \ {i} : R[x] = P[x]
  <2>1. \A j \in Inodes \ {i} : t[j] \in Places => t[j][1] # i
    BY <1>1 DEF SoundTree
  <2> HIDE DEF u
  <2> QED BY <1>1, <1>2, <2>1, OtherPathsStay
<1>4. P[i] = NoPath
  BY <1>1, PathEquation
<1>5. at[1] # i /\ at[1] \in Ids /\ at[2] \in Names /\ at = <<at[1], at[2]>> /\ at[1] \in Parents
  BY <1>1, PlacesAre DEF Places
<1>6. R[i] = IF P[at[1]] = NoPath THEN NoPath ELSE Append(P[at[1]], at[2])
  <2>1. R[at[1]] = P[at[1]]
    BY <1>3, <1>5
  <2> HIDE DEF u
  <2> QED BY <1>1, <1>2, <2>1, PathEquation
<1>7. i \notin K /\ \A x \in K : x \in Ids /\ x # i /\ P[x] # NoPath
  <2>1. \A x \in K : x \in Ids /\ P[x] # NoPath
    BY DEF Sound, WatchedRightly, Clean, Watchable, Ids, Inodes
  <2> QED BY <1>4, <2>1
<1>8. \A n \in DOMAIN q : n \in DOMAIN r /\ r[n] = q[n] /\ n \in Nat
  BY Grown
<1>9. ASSUME NEW n \in DOMAIN r
      PROVE  (n \in DOMAIN q /\ r[n] = q[n]) \/ (n = Len(q) + 1 /\ r[n] = e /\ at[1] \in K)
  <2>1. n \in DOMAIN q \/ (n > Len(q) /\ n - Len(q) \in DOMAIN es /\ r[n] = es[n - Len(q)])
    BY Grown
  <2>2. CASE n \in DOMAIN q
    BY <1>8, <2>2
  <2>3. CASE n \notin DOMAIN q
    <3>1. at[1] \in K /\ es = <<e>>
      BY <2>1, <2>3
    <3>2. DOMAIN es = {1} /\ es[1] = e
      BY <3>1
    <3>3. n \in Nat /\ Len(q) \in Nat
      BY Grown
    <3>4. n - Len(q) = 1
      BY <2>1, <2>3, <3>2
    <3> QED BY <2>1, <2>3, <3>1, <3>2, <3>3, <3>4
  <2> QED BY <2>2, <2>3
<1>10. at[1] \in K => Len(q) + 1 \in DOMAIN r /\ r[Len(q) + 1] = e
  <2>1. at[1] \in K => es = <<e>>
    OBVIOUS
  <2>2. \A m \in DOMAIN es : Len(q) + m \in DOMAIN r /\ r[Len(q) + m] = es[m]
    BY Grown
  <2> QED BY <2>1, <2>2
<1>11. Len(q) \in Nat /\ DOMAIN q = 1..Len(q)
  BY Grown
<1>12. e.event = "Create" /\ e.wd = at[1] /\ e.name = at[2]
  BY <1>5 DEF IsOfFolder, spot
<1> HIDE DEF u, r, P, R
<1>13. WatchedRightly(K, T, u, S)
  BY <1>3, <1>7 DEF Sound, WatchedRightly, P, R
<1>14. RemovalsAreTold(K, T, r)
  BY <1>8 DEF Sound, RemovalsAreTold
<1>15. CreationsAreTold(K, u, r, S, {}, {})
  <2> SUFFICES ASSUME NEW x \in Watchable \ K, Clean(R[x], S) PROVE Announced(x, u, r)
    BY DEF CreationsAreTold, R
  <2>0. x \in Ids /\ \A y : ~ToBeRead(y, t, {}, {})
    BY DEF Watchable, Ids, Inodes, ToBeRead
  <2>1. ASSUME NEW y \in Watchable \ K, y # i, Clean(P[y], S), IsPrefix(R[y], R[x]), R[x] \in Seq(Names)
        PROVE  Announced(x, u, r)
    <3>1. Announced(y, t, q)
      BY <2>0, <2>1 DEF Sound, CreationsAreTold, P
    <3>2. PICK n \in DOMAIN q, a \in Folders : IsOfFolder(q[n], "Create") /\ t[a] = spot(q[n]) /\ IsPrefix(P[a], P[y])
      BY <3>1 DEF Announced, P
    <3>3. q[n] \in Events
      BY <3>2, EventIs DEF IsOfFolder, Kinds
    <3>4. q[n].wd \in K /\ \E b \in Folders \ K : t[b] = spot(q[n])
      BY <3>2 DEF Sound, CreationsAreTrue
    <3>5. a # i /\ a \in Inodes /\ a \in Ids /\ t[a] \in Places
      <4>1. spot(q[n]) \in Places
        BY <3>3, <3>4 DEF spot, Events, Places, Parents, Watchable
      <4> QED BY <3>2, <4>1, <1>1 DEF Inodes, Ids
    <3>6. u[a] = t[a] /\ R[a] = P[a] /\ R[y] = P[y] /\ y \in Ids
      BY <1>2, <1>3, <2>1, <3>5 DEF Watchable, Ids, Inodes
    <3>7. P[y] # NoPath /\ P[y] \in Seq(Names)
      BY <2>1, <3>6, PathIsNames DEF Clean, P
    <3>8. P[a] \in Seq(Names)
      <4>1. P[q[n].wd] # NoPath
        BY <1>7, <3>4 DEF P
      <4>2. t[a][1] = q[n].wd
        BY <3>2 DEF spot
      <4>3. P[a] = Append(P[q[n].wd], t[a][2])
        <5>1. P[a] = IF P[t[a][1]] = NoPath THEN NoPath ELSE Append(P[t[a][1]], t[a][2])
          BY <3>5, PathEquation DEF P
        <5> QED BY <4>1, <4>2, <5>1
      <4>4. q[n].wd \in Ids /\ P[q[n].wd] \in Seq(Names)
        BY <3>4, <1>7, <4>1, PathIsNames DEF P
      <4>5. t[a][2] \in Names
        BY <3>5, PlacesAre
      <4> QED BY <4>3, <4>4, <4>5
    <3>9. IsPrefix(R[a], R[x])
      BY <2>1, <3>2, <3>6, <3>7, <3>8, PrefixOfPrefix
    <3>10. n \in DOMAIN r /\ r[n] = q[n]
      BY <1>8
    <3> QED BY <3>2, <3>6, <3>9, <3>10 DEF Announced, R
  <2>2. R[x] \in Seq(Names)
    BY <2>0, PathIsNames DEF Clean, R
  <2>3. CASE x # i
    <3>1. R[x] = P[x]
      BY <1>3, <2>0, <2>3
    <3>2. IsPrefix(R[x], R[x])
      BY <2>2, PrefixOrder
    <3> QED BY <2>1, <2>2, <2>3, <3>1, <3>2
  <2>4. CASE x = i
    <3>1. P[at[1]] # NoPath /\ R[x] = Append(P[at[1]], at[2])
      BY <1>6, <2>4 DEF Clean
    <3>2. P[at[1]] \in Seq(Names) /\ at[1] \in Watchable
      BY <1>5, <3>1, PathIsNames, PathEquation DEF P, Parents, Watchable
    <3>3. CASE at[1] \in K
      <4>1. IsOfFolder(r[Len(q) + 1], "Create") /\ u[i] = spot(r[Len(q) + 1]) /\ Len(q) + 1 \in DOMAIN r
        BY <1>2, <1>10, <3>3
      <4>2. IsPrefix(R[i], R[x])
        BY <2>2, <2>4, PrefixOrder
      <4> QED BY <4>1, <4>2 DEF Announced, R
    <3>4. CASE at[1] \notin K
      <4>1. IsPrefix(P[at[1]], R[x])
        BY <1>5, <3>1, <3>2, PrefixOfAppended
      <4>2. Clean(P[at[1]], S)
        BY <2>2, <3>2, <4>1, CleanAbove
      <4>3. R[at[1]] = P[at[1]]
        BY <1>3, <1>5
      <4> QED BY <1>5, <2>1, <2>2, <3>2, <3>4, <4>1, <4>2, <4>3
    <3> QED BY <3>3, <3>4
  <2> QED BY <2>3, <2>4
<1>16. RemovalsAreTrue(u, r)
  <2> SUFFICES ASSUME NEW n \in DOMAIN r, r[n].event = "DeleteSelf" PROVE r[n].wd \in Folders /\ u[r[n].wd] = Gone
    BY DEF RemovalsAreTrue
  <2>1. n \in DOMAIN q /\ r[n] = q[n]
    BY <1>9, <1>12
  <2>2. r[n].wd \in Folders /\ t[r[n].wd] = Gone
    BY <2>1 DEF Sound, RemovalsAreTrue
  <2> QED BY <1>1, <1>2, <2>2 DEF Inodes
<1>17. CreationsAreTrue(K, u, r)
  <2>1. ASSUME NEW n \in DOMAIN q, IsOfFolder(q[n], "Create")
        PROVE  q[n].wd \in K /\ (\E a \in Folders \ K : u[a] = spot(q[n])) /\ spot(q[n]) # at
    <3>1. q[n].wd \in K
      BY <2>1 DEF Sound, CreationsAreTrue
    <3>2. PICK a \in Folders \ K : t[a] = spot(q[n])
      BY <2>1 DEF Sound, CreationsAreTrue
    <3>3. spot(q[n]) \in Places
      BY <2>1, <3>1, EventIs DEF spot, Events, Places, Parents, Watchable, IsOfFolder, Kinds
    <3>4. a # i /\ a \in Inodes
      BY <1>1, <3>2, <3>3 DEF Inodes
    <3> QED BY <1>2, <3>1, <3>2, <3>4
  <2>2. ASSUME NEW n \in DOMAIN r, IsOfFolder(r[n], "Create")
        PROVE  r[n].wd \in K /\ \E a \in Folders \ K : u[a] = spot(r[n])
    <3>1. CASE n \in DOMAIN q /\ r[n] = q[n]
      BY <2>1, <2>2, <3>1
    <3>2. CASE n = Len(q) + 1 /\ r[n] = e /\ at[1] \in K
      BY <1>2, <1>7, <1>12, <3>2
    <3> QED BY <1>9, <3>1, <3>2
  <2>3. ASSUME NEW n \in DOMAIN r, NEW m \in DOMAIN r, IsOfFolder(r[n], "Create"), IsOfFolder(r[m], "Create"),
               spot(r[n]) = spot(r[m])
        PROVE  n = m
    <3>1. CASE n \in DOMAIN q /\ r[n] = q[n] /\ m \in DOMAIN q /\ r[m] = q[m]
      BY <2>3, <3>1 DEF Sound, CreationsAreTrue
    <3>2. CASE n \in DOMAIN q /\ r[n] = q[n] /\ r[m] = e
      BY <2>1, <2>3, <3>2
    <3>3. CASE m \in DOMAIN q /\ r[m] = q[m] /\ r[n] = e
      BY <2>1, <2>3, <3>3
    <3>4. CASE n = Len(q) + 1 /\ m = Len(q) + 1
      BY <3>4
    <3> QED BY <1>9, <3>1, <3>2, <3>3, <3>4
  <2> QED BY <2>2, <2>3 DEF CreationsAreTrue
<1>18. EventsInOrder(T, r)
  <2> SUFFICES ASSUME NEW n \in DOMAIN r, NEW m \in DOMAIN r, n < m, IsOfFolder(r[n], "Create"),
                      r[m].event = "DeleteSelf", T[r[m].wd] # NoPath
               PROVE  ~IsPrefix(Append(T[r[n].wd], r[n].name), T[r[m].wd])
    BY DEF EventsInOrder
  <2>1. m \in DOMAIN q /\ r[m] = q[m]
    BY <1>9, <1>12
  <2>2. n \in DOMAIN q /\ r[n] = q[n]
    BY <2>1, <1>9, <1>11
  <2> QED BY <2>1, <2>2 DEF Sound, EventsInOrder
<1> QED BY <1>13, <1>14, <1>15, <1>16, <1>17, <1>18 DEF Sound, u, r

\* The folder that an event of creation tells of
Tells(K, T, t, e) ==
  /\ e \in Events /\ e.wd \in K /\ e.wd \in Ids
  /\ T[e.wd] = pathsIn(t)[e.wd] /\ T[e.wd] # NoPath
  /\ \E a \in Folders \ K :
       /\ t[a] = spot(e) /\ t[a] \in Places /\ a \in Inodes /\ a \in Ids /\ t[a][1] = e.wd
       /\ pathsIn(t)[a] = Append(T[e.wd], e.name)
       /\ pathsIn(t)[a] # NoPath /\ pathsIn(t)[a] \in Seq(Names)

LEMMA CreationIs ==
  ASSUME NEW K, K \subseteq Watchable, NEW T, NEW t, NEW q \in Seq(AllEvents), NEW S,
         WatchedRightly(K, T, t, S), CreationsAreTrue(K, t, q),
         NEW n \in DOMAIN q, IsOfFolder(q[n], "Create")
  PROVE  Tells(K, T, t, q[n])
<1> DEFINE P == pathsIn(t)
<1>1. q[n] \in Events
  BY EventIs DEF IsOfFolder, Kinds
<1>2. q[n].wd \in K
  BY DEF CreationsAreTrue
<1>3. PICK a \in Folders \ K : t[a] = spot(q[n])
  BY DEF CreationsAreTrue
<1>4. a \in Inodes /\ a \in Ids
  BY DEF Inodes, Ids
<1>5. t[a] \in Places /\ t[a][1] = q[n].wd /\ t[a][2] = q[n].name /\ q[n].name \in Names
  BY <1>1, <1>2, <1>3 DEF spot, Events, Places, Parents, Watchable
<1>6. q[n].wd \in Ids /\ T[q[n].wd] = P[q[n].wd] /\ P[q[n].wd] # NoPath
  BY <1>2 DEF WatchedRightly, Clean, Watchable, Ids, Inodes
<1>7. P[q[n].wd] \in Seq(Names)
  BY <1>6, PathIsNames
<1>8. P[a] = Append(T[q[n].wd], q[n].name)
  <2>1. P[a] = IF P[t[a][1]] = NoPath THEN NoPath ELSE Append(P[t[a][1]], t[a][2])
    BY <1>4, <1>5, PathEquation
  <2> QED BY <2>1, <1>5, <1>6
<1>9. P[a] \in Seq(Names) /\ P[a] # NoPath
  <2>1. Append(P[q[n].wd], q[n].name) \in Seq(Names)
    BY <1>5, <1>7
  <2> QED BY <2>1, <1>6, <1>8, ConstantsAssumption
<1> QED BY <1>1, <1>2, <1>3, <1>4, <1>5, <1>6, <1>8, <1>9 DEF Tells

\* A watched folder is removed.
LEMMA SoundUnmade ==
  ASSUME NEW K, K \subseteq Watchable, NEW T, NEW t \in Trees, SoundTree(t), ParentsToo(K, t),
         NEW q \in Seq(AllEvents), NEW S, Sound(K, T, t, q, S, {}, {}),
         NEW i \in Folders, i \in K, \A j \in Inodes : t[j] \in Places => t[j][1] # i,
         NEW e \in Events, e.event = "DeleteSelf", e.wd = i
  PROVE  /\ Sound(K \ {i}, T, [t EXCEPT ![i] = Gone], q \o <<e>>, S, {}, {})
         /\ ParentsToo(K \ {i}, [t EXCEPT ![i] = Gone])
<1> DEFINE u == [t EXCEPT ![i] = Gone]
           es == <<e>>
           r == q \o es
           P == pathsIn(t)
           R == pathsIn(u)
           L == K \ {i}
<1>1. i \in Inodes /\ i \in Ids /\ i \in Watchable /\ Gone \notin Places
  BY ConstantsAssumption DEF Inodes, Ids, Watchable
<1>2. u[i] = Gone /\ \A j \in Inodes \ {i} : u[j] = t[j]
  BY <1>1 DEF Trees
<1>3. \A x \in Ids \ {i} : R[x] = P[x]
  <2> HIDE DEF u
  <2> QED BY <1>1, <1>2, OtherPathsStay
<1>4. R[i] = NoPath
  <2> HIDE DEF u
  <2> QED BY <1>1, <1>2, PathEquation
<1>5. /\ \A x \in K : x \in Ids /\ T[x] = P[x] /\ P[x] # NoPath
      /\ \A x \in K : x \in Inodes => t[x] \in Places
  <2>1. WatchedRightly(K, T, t, S)
    BY DEF Sound
  <2> QED BY <2>1, WatchedHavePaths
<1>6. es \in Seq(AllEvents) /\ DOMAIN es = {1} /\ es[1] = e
  BY DEF AllEvents
<1> HIDE DEF es
<1>7. \A n \in DOMAIN q : n \in DOMAIN r /\ r[n] = q[n] /\ n \in Nat
  BY <1>6, Grown
<1>8. ASSUME NEW n \in DOMAIN r PROVE (n \in DOMAIN q /\ r[n] = q[n]) \/ (n = Len(q) + 1 /\ r[n] = e)
  <2>1. n \in DOMAIN q \/ (n > Len(q) /\ n - Len(q) \in DOMAIN es /\ r[n] = es[n - Len(q)])
    BY <1>6, Grown
  <2>2. n \in Nat /\ Len(q) \in Nat
    BY <1>6, Grown
  <2>3. CASE n \in DOMAIN q
    BY <1>7, <2>3
  <2>4. CASE n \notin DOMAIN q
    <3>1. n - Len(q) = 1
      BY <1>6, <2>1, <2>4
    <3> QED BY <1>6, <2>1, <2>2, <2>4, <3>1
  <2> QED BY <2>3, <2>4
<1>9. Len(q) + 1 \in DOMAIN r /\ r[Len(q) + 1] = e /\ Len(q) \in Nat /\ DOMAIN q = 1..Len(q)
  BY <1>6, Grown
<1>10. ASSUME NEW n \in DOMAIN q, IsOfFolder(q[n], "Create")
       PROVE  /\ q[n].wd \in L /\ q[n].wd # i
              /\ \E a \in Folders \ K : /\ t[a] = spot(q[n]) /\ a \in Inodes /\ a \in Ids /\ a # i /\ u[a] = t[a]
                                        /\ P[a] = Append(T[q[n].wd], q[n].name) /\ P[a] # NoPath
                                        /\ P[a] \in Seq(Names) /\ R[a] = P[a] /\ t[a] \in Places
  <2>0. WatchedRightly(K, T, t, S) /\ CreationsAreTrue(K, t, q)
    BY DEF Sound
  <2>1. Tells(K, T, t, q[n])
    BY <1>10, <2>0, CreationIs
  <2>2. q[n].wd \in K
    BY <2>1 DEF Tells
  <2>5. PICK a \in Folders \ K :
              /\ t[a] = spot(q[n]) /\ t[a] \in Places /\ a \in Inodes /\ a \in Ids /\ t[a][1] = q[n].wd
              /\ P[a] = Append(T[q[n].wd], q[n].name)
              /\ P[a] # NoPath /\ P[a] \in Seq(Names)
    BY <2>1 DEF Tells
  <2>3. q[n].wd # i
    BY <2>5
  <2>4. a # i /\ u[a] = t[a] /\ R[a] = P[a]
    BY <1>2, <1>3, <2>5
  <2> QED BY <2>5, <2>2, <2>3, <2>4
<1> HIDE DEF u, r, P, R
<1>11. WatchedRightly(L, T, u, S)
  BY <1>3, <1>5 DEF Sound, WatchedRightly, P, R
<1>12. RemovalsAreTold(L, T, r)
  <2> SUFFICES ASSUME NEW x \in Watchable \ L, T[x] # NoPath
               PROVE  \E n \in DOMAIN r : r[n].event = "DeleteSelf" /\ r[n].wd = x
    BY DEF RemovalsAreTold
  <2>1. CASE x = i
    BY <1>9, <2>1
  <2>2. CASE x # i
    BY <1>7, <2>2 DEF Sound, RemovalsAreTold
  <2> QED BY <2>1, <2>2
<1>13. CreationsAreTold(L, u, r, S, {}, {})
  <2> SUFFICES ASSUME NEW x \in Watchable \ L, Clean(R[x], S) PROVE Announced(x, u, r)
    BY DEF CreationsAreTold, R
  <2>1. x # i
    BY <1>4 DEF Clean
  <2>2. x \in Ids /\ R[x] = P[x]
    BY <1>3, <2>1 DEF Watchable, Ids, Inodes
  <2>3. Announced(x, t, q)
    BY <2>1, <2>2 DEF Sound, CreationsAreTold, ToBeRead, P
  <2>4. PICK n \in DOMAIN q, a \in Folders : IsOfFolder(q[n], "Create") /\ t[a] = spot(q[n]) /\ IsPrefix(P[a], P[x])
    BY <2>3 DEF Announced, P
  <2>5. PICK b \in Folders \ K : t[b] = spot(q[n]) /\ b \in Inodes /\ b # i /\ u[b] = t[b] /\ R[b] = P[b] /\ t[b] \in Places
    BY <1>10, <2>4
  <2>6. a = b
    BY <2>4, <2>5 DEF SoundTree, Distinct, Inodes
  <2>7. n \in DOMAIN r /\ r[n] = q[n]
    BY <1>7
  <2> QED BY <2>2, <2>4, <2>5, <2>6, <2>7 DEF Announced, R
<1>14. RemovalsAreTrue(u, r)
  <2> SUFFICES ASSUME NEW n \in DOMAIN r, r[n].event = "DeleteSelf" PROVE r[n].wd \in Folders /\ u[r[n].wd] = Gone
    BY DEF RemovalsAreTrue
  <2>1. CASE n \in DOMAIN q /\ r[n] = q[n]
    <3>1. r[n].wd \in Folders /\ t[r[n].wd] = Gone
      BY <2>1 DEF Sound, RemovalsAreTrue
    <3> QED BY <1>2, <3>1 DEF Inodes
  <2>2. CASE r[n] = e
    BY <1>2, <2>2
  <2> QED BY <1>8, <2>1, <2>2
<1>15. CreationsAreTrue(L, u, r)
  <2>1. ASSUME NEW n \in DOMAIN r, IsOfFolder(r[n], "Create")
        PROVE  n \in DOMAIN q /\ r[n] = q[n] /\ r[n].wd \in L /\ \E a \in Folders \ L : u[a] = spot(r[n])
    <3>1. n \in DOMAIN q /\ r[n] = q[n]
      BY <1>8, <2>1 DEF IsOfFolder
    <3> QED BY <1>10, <2>1, <3>1
  <2>2. ASSUME NEW n \in DOMAIN r, NEW m \in DOMAIN r, IsOfFolder(r[n], "Create"), IsOfFolder(r[m], "Create"),
               spot(r[n]) = spot(r[m])
        PROVE  n = m
    <3>1. n \in DOMAIN q /\ r[n] = q[n] /\ m \in DOMAIN q /\ r[m] = q[m]
      BY <2>1, <2>2
    <3> QED BY <2>2, <3>1 DEF Sound, CreationsAreTrue
  <2> QED BY <2>1, <2>2 DEF CreationsAreTrue
<1>16. EventsInOrder(T, r)
  <2> SUFFICES ASSUME NEW n \in DOMAIN r, NEW m \in DOMAIN r, n < m, IsOfFolder(r[n], "Create"),
                      r[m].event = "DeleteSelf", T[r[m].wd] # NoPath,
                      IsPrefix(Append(T[r[n].wd], r[n].name), T[r[m].wd])
               PROVE  FALSE
    BY DEF EventsInOrder
  <2>1. n \in DOMAIN q /\ r[n] = q[n]
    BY <1>8 DEF IsOfFolder
  <2>2. CASE m \in DOMAIN q /\ r[m] = q[m]
    BY <2>1, <2>2 DEF Sound, EventsInOrder
  <2>3. CASE r[m] = e
    <3>1. PICK a \in Folders \ K : a \in Ids /\ P[a] = Append(T[q[n].wd], q[n].name) /\ P[a] # NoPath
      BY <1>10, <2>1
    <3>2. IsPrefix(P[a], P[i])
      BY <1>5, <2>1, <2>3, <3>1
    <3>3. a \in K
      <4>1. \A x \in K : pathsIn(t)[x] # NoPath
        BY <1>5 DEF P
      <4> QED BY <3>1, <3>2, <4>1, WatchedAbove DEF SoundTree, P
    <3> QED BY <3>1, <3>3
  <2> QED BY <1>8, <2>2, <2>3
<1>17. ParentsToo(L, u)
  <2> SUFFICES ASSUME NEW x \in L \cap Folders PROVE u[x][1] \in L
    BY DEF ParentsToo
  <2>1. x \in K /\ x \in Folders /\ x # i /\ x \in Inodes
    BY DEF Inodes
  <2>2. t[x][1] \in K /\ u[x] = t[x] /\ t[x] \in Places
    BY <1>2, <1>5, <2>1 DEF ParentsToo
  <2>3. t[x][1] # i
    BY <2>1, <2>2
  <2> QED BY <2>2, <2>3
<1> QED BY <1>11, <1>12, <1>13, <1>14, <1>15, <1>16, <1>17 DEF Sound, u, r, es

\* The event of its removal is handled.
LEMMA SoundForgotten ==
  ASSUME NEW K, K \subseteq Watchable, NEW T, NEW t, NEW q \in Seq(AllEvents), q # <<>>,
         NEW S, Sound(K, T, t, q, S, {}, {}),
         NEW i \in Watchable, Head(q).event = "DeleteSelf", Head(q).wd = i,
         NEW U, \A x \in Watchable : U[x] = IF x = i THEN NoPath ELSE T[x]
  PROVE  i \notin K /\ Sound(K, U, t, Tail(q), S, {}, {})
<1> DEFINE r == Tail(q)
           P == pathsIn(t)
<1>1. /\ \A n \in DOMAIN r : n \in Nat /\ n >= 1 /\ n + 1 \in DOMAIN q /\ r[n] = q[n + 1]
      /\ \A n \in DOMAIN q : n \in Nat /\ (n # 1 => n - 1 \in DOMAIN r /\ r[n - 1] = q[n])
  BY Tailed
<1>2. 1 \in DOMAIN q /\ q[1].event = "DeleteSelf" /\ q[1].wd = i
  BY Tailed
<1>3. i \in Folders /\ t[i] = Gone
  BY <1>2 DEF Sound, RemovalsAreTrue
<1>4. /\ \A x \in K : x \in Ids /\ T[x] = P[x] /\ P[x] # NoPath
      /\ \A x \in K : x \in Inodes => t[x] \in Places
  <2>1. WatchedRightly(K, T, t, S)
    BY DEF Sound
  <2> QED BY <2>1, WatchedHavePaths
<1>5. i \notin K
  <2>1. i \in Inodes /\ Gone \notin Places
    BY <1>3, ConstantsAssumption DEF Inodes
  <2> QED BY <1>3, <1>4, <2>1
<1> HIDE DEF r, P
<1>6. WatchedRightly(K, U, t, S)
  BY <1>5 DEF Sound, WatchedRightly
<1>7. RemovalsAreTold(K, U, r)
  <2> SUFFICES ASSUME NEW x \in Watchable \ K, U[x] # NoPath
               PROVE  \E n \in DOMAIN r : r[n].event = "DeleteSelf" /\ r[n].wd = x
    BY DEF RemovalsAreTold
  <2>1. x # i /\ T[x] # NoPath
    OBVIOUS
  <2>2. PICK n \in DOMAIN q : q[n].event = "DeleteSelf" /\ q[n].wd = x
    BY <2>1 DEF Sound, RemovalsAreTold
  <2>3. n # 1
    BY <1>2, <2>1, <2>2
  <2> QED BY <1>1, <2>2, <2>3
<1>8. CreationsAreTold(K, t, r, S, {}, {})
  <2> SUFFICES ASSUME NEW x \in Watchable \ K, Clean(P[x], S) PROVE Announced(x, t, r)
    BY DEF CreationsAreTold, P
  <2>1. Announced(x, t, q)
    BY DEF Sound, CreationsAreTold, ToBeRead, P
  <2>2. PICK n \in DOMAIN q, a \in Folders : IsOfFolder(q[n], "Create") /\ t[a] = spot(q[n]) /\ IsPrefix(P[a], P[x])
    BY <2>1 DEF Announced, P
  <2>3. n - 1 \in DOMAIN r /\ r[n - 1] = q[n]
    BY <1>1, <1>2, <2>2 DEF IsOfFolder
  <2> QED BY <2>2, <2>3 DEF Announced, P
<1>9. RemovalsAreTrue(t, r)
  BY <1>1 DEF Sound, RemovalsAreTrue
<1>10. CreationsAreTrue(K, t, r)
  <2>1. ASSUME NEW n \in DOMAIN r, IsOfFolder(r[n], "Create")
        PROVE  r[n].wd \in K /\ \E a \in Folders \ K : t[a] = spot(r[n])
    <3>1. n + 1 \in DOMAIN q /\ r[n] = q[n + 1]
      BY <1>1
    <3>2. IsOfFolder(q[n + 1], "Create")
      BY <2>1, <3>1
    <3>3. q[n + 1].wd \in K /\ \E a \in Folders \ K : t[a] = spot(q[n + 1])
      BY <3>1, <3>2 DEF Sound, CreationsAreTrue
    <3> QED BY <3>1, <3>3
  <2>2. ASSUME NEW n \in DOMAIN r, NEW m \in DOMAIN r, IsOfFolder(r[n], "Create"), IsOfFolder(r[m], "Create"),
               spot(r[n]) = spot(r[m])
        PROVE  n = m
    <3>1. n + 1 \in DOMAIN q /\ m + 1 \in DOMAIN q /\ r[n] = q[n + 1] /\ r[m] = q[m + 1] /\ n \in Nat /\ m \in Nat
      BY <1>1
    <3>2. n + 1 = m + 1
      BY <2>2, <3>1 DEF Sound, CreationsAreTrue
    <3> QED BY <3>1, <3>2
  <2> QED BY <2>1, <2>2 DEF CreationsAreTrue
<1>11. EventsInOrder(U, r)
  <2> SUFFICES ASSUME NEW n \in DOMAIN r, NEW m \in DOMAIN r, n < m, IsOfFolder(r[n], "Create"),
                      r[m].event = "DeleteSelf", U[r[m].wd] # NoPath
               PROVE  ~IsPrefix(Append(U[r[n].wd], r[n].name), U[r[m].wd])
    BY DEF EventsInOrder
  <2>1. n + 1 \in DOMAIN q /\ m + 1 \in DOMAIN q /\ r[n] = q[n + 1] /\ r[m] = q[m + 1] /\ n + 1 < m + 1
    BY <1>1
  <2>2. r[n].wd \in K /\ r[m].wd \in Folders
    BY <1>9, <1>10 DEF RemovalsAreTrue, CreationsAreTrue
  <2>3. U[r[n].wd] = T[r[n].wd] /\ U[r[m].wd] = T[r[m].wd]
    BY <1>5, <2>2 DEF Watchable
  <2>4. IsOfFolder(q[n + 1], "Create") /\ q[m + 1].event = "DeleteSelf" /\ T[q[m + 1].wd] # NoPath
    BY <2>1, <2>3
  <2>5. ~IsPrefix(Append(T[q[n + 1].wd], q[n + 1].name), T[q[m + 1].wd])
    BY <2>1, <2>4 DEF Sound, EventsInOrder
  <2> QED BY <2>1, <2>3, <2>5
<1> QED BY <1>5, <1>6, <1>7, <1>8, <1>9, <1>10, <1>11 DEF Sound, r

\* What a look into the new folder of an event finds is watched.
Found(K, t, p, S) == {x \in Folders : Clean(pathsIn(t)[x], S) /\ IsPrefix(p, pathsIn(t)[x])}

WithPaths(U, T, F, t) == \A x \in Watchable : U[x] = IF x \in F THEN pathsIn(t)[x] ELSE T[x]
LookedInto(K, T, t, q, S, F, U) ==
  /\ Sound(K \cup F, U, t, Tail(q), S, {}, {}) /\ ParentsToo(K \cup F, t)
  /\ \A x \in F : x \in Folders /\ T[x] = NoPath /\ pathsIn(t)[x] # NoPath
  /\ \A x \in F, j \in Watchable : T[j] # pathsIn(t)[x]

LEMMA SoundLooked ==
  ASSUME NEW K, K \subseteq Watchable, NEW T, NEW t \in Trees, SoundTree(t), ParentsToo(K, t),
         NEW q \in Seq(AllEvents), q # <<>>, NEW S, S \subseteq Seq(Names), Sound(K, T, t, q, S, {}, {}),
         IsOfFolder(Head(q), "Create"),
         NEW p, p = Append(T[Head(q).wd], Head(q).name), NEW F, F = Found(K, t, p, S),
         NEW U, WithPaths(U, T, F, t)
  PROVE  LookedInto(K, T, t, q, S, F, U)
<1> USE DEF WithPaths
<1> DEFINE r == Tail(q)
           P == pathsIn(t)
           L == K \cup F
           e == q[1]
<1>1. /\ \A n \in DOMAIN r : n \in Nat /\ n >= 1 /\ n + 1 \in DOMAIN q /\ r[n] = q[n + 1]
      /\ \A n \in DOMAIN q : n \in Nat /\ (n # 1 => n - 1 \in DOMAIN r /\ r[n - 1] = q[n])
  BY Tailed
<1>2. 1 \in DOMAIN q /\ Head(q) = e
  BY Tailed
<1>3. WatchedRightly(K, T, t, S) /\ CreationsAreTrue(K, t, q)
  BY DEF Sound
<1>4. \A n \in DOMAIN q : IsOfFolder(q[n], "Create") => Tells(K, T, t, q[n])
  BY <1>3, CreationIs
<1>5. PICK a \in Folders \ K :
        /\ t[a] = spot(e) /\ t[a] \in Places /\ a \in Inodes /\ a \in Ids /\ t[a][1] = e.wd
        /\ P[a] = p /\ P[a] # NoPath /\ P[a] \in Seq(Names)
  <2>1. Tells(K, T, t, e)
    BY <1>2, <1>4
  <2> QED BY <1>2, <2>1 DEF Tells
<1>6. e.wd \in K /\ e.wd \in Ids /\ T[e.wd] = P[e.wd] /\ T[e.wd] # NoPath /\ IsOfFolder(e, "Create")
  BY <1>2, <1>4 DEF Tells
<1>7. \A x \in F : /\ x \in Folders /\ x \in Ids /\ x \in Inodes /\ x \in Watchable
                   /\ P[x] # NoPath /\ P[x] \in Seq(Names) /\ Clean(P[x], S) /\ IsPrefix(P[a], P[x])
  BY <1>5, PathIsNames DEF Found, Clean, Inodes, Ids, Watchable
<1>8. \A x \in K : x \in Ids /\ T[x] = P[x] /\ P[x] # NoPath /\ P[x] \in Seq(Names)
  BY <1>3, PathIsNames DEF WatchedRightly, Clean, Watchable, Ids, Inodes
<1> DEFINE X == e.wd
<1> HIDE DEF r, P
<1>9. \A x \in K : ~IsPrefix(P[a], P[x])
  <2> SUFFICES ASSUME NEW x \in K, IsPrefix(P[a], P[x]) PROVE FALSE
    OBVIOUS
  <2>1. Distinct(t) /\ \A y \in K : pathsIn(t)[y] # NoPath
    BY <1>8 DEF SoundTree, P
  <2>2. a \in Ids /\ pathsIn(t)[a] # NoPath /\ IsPrefix(pathsIn(t)[a], pathsIn(t)[x])
    BY <1>5 DEF P
  <2>3. a \in K
    BY <2>1, <2>2, WatchedAbove
  <2> QED BY <1>5, <2>3
<1>10. F \cap K = {}
  BY <1>7, <1>9
<1>11. \A x \in F : T[x] = NoPath
  <2> SUFFICES ASSUME NEW x \in F, T[x] # NoPath PROVE FALSE
    OBVIOUS
  <2>1. x \in Watchable \ K
    BY <1>7, <1>10
  <2>2. PICK n \in DOMAIN q : q[n].event = "DeleteSelf" /\ q[n].wd = x
    BY <2>1 DEF Sound, RemovalsAreTold
  <2>3. t[x] = Gone /\ Gone \notin Places
    BY <2>2, ConstantsAssumption DEF Sound, RemovalsAreTrue
  <2> QED BY <1>7, <2>3, PathEquation DEF P
<1>12. \A x \in F, j \in Watchable : T[j] # P[x]
  <2> SUFFICES ASSUME NEW x \in F, NEW j \in Watchable, T[j] = P[x] PROVE FALSE
    OBVIOUS
  <2>1. CASE j \in K
    <3>1. j = x
      <4>1. P[j] = P[x] /\ j \in Ids /\ x \in Ids /\ P[j] # NoPath
        BY <1>7, <1>8, <2>1
      <4> QED BY <4>1, PathsAreDistinct DEF P, SoundTree
    <3> QED BY <1>10, <2>1, <3>1
  <2>2. CASE j \notin K
    <3>1. T[j] # NoPath
      BY <1>7
    <3>2. PICK m \in DOMAIN q : q[m].event = "DeleteSelf" /\ q[m].wd = j
      BY <2>2, <3>1 DEF Sound, RemovalsAreTold
    <3>3. 1 < m
      <4>1. m \in Nat /\ m # 0 /\ m # 1
        BY <1>6, <3>2 DEF IsOfFolder
      <4> QED BY <4>1
    <3>4. ~IsPrefix(Append(T[e.wd], e.name), T[j])
      BY <1>2, <1>6, <3>1, <3>2, <3>3 DEF Sound, EventsInOrder
    <3> QED BY <1>2, <1>5, <1>7, <3>4
  <2> QED BY <2>1, <2>2
<1>13. \A x \in K : U[x] = T[x]
  BY <1>10
<1>14. WatchedRightly(L, U, t, S)
  BY <1>3, <1>7, <1>13 DEF WatchedRightly, P
<1>15. RemovalsAreTold(L, U, r)
  <2> SUFFICES ASSUME NEW x \in Watchable \ L, U[x] # NoPath
               PROVE  \E n \in DOMAIN r : r[n].event = "DeleteSelf" /\ r[n].wd = x
    BY DEF RemovalsAreTold
  <2>1. PICK n \in DOMAIN q : q[n].event = "DeleteSelf" /\ q[n].wd = x
    BY DEF Sound, RemovalsAreTold
  <2>2. n # 1
    BY <1>6, <2>1 DEF IsOfFolder
  <2> QED BY <1>1, <2>1, <2>2
<1>16. ~ IsPrefix(P[a], P[Home])
  <2>1. P[a] # <<>>
    <3>1. P[e.wd] \in Seq(Names)
      BY <1>6, <1>8
    <3>2. P[a] = Append(P[e.wd], e.name) /\ e.name \in Names
      <4>1. e \in Events
        BY <1>2, <1>4, <1>6 DEF Tells
      <4> QED BY <1>2, <1>5, <1>6, <4>1 DEF Events
    <3> QED BY <3>1, <3>2, AppendedIsLonger
  <2> QED BY <1>5, <2>1, PathEquation, PrefixOfNone DEF P
<1>17. CreationsAreTold(L, t, r, S, {}, {})
  <2> SUFFICES ASSUME NEW x \in Watchable \ L, Clean(P[x], S) PROVE Announced(x, t, r)
    BY DEF CreationsAreTold, P
  <2>1. Announced(x, t, q)
    BY DEF Sound, CreationsAreTold, ToBeRead, P
  <2>2. PICK n \in DOMAIN q, b \in Folders : IsOfFolder(q[n], "Create") /\ t[b] = spot(q[n]) /\ IsPrefix(P[b], P[x])
    BY <2>1 DEF Announced, P
  <2>3. n # 1
    <3> SUFFICES ASSUME n = 1 PROVE FALSE
      OBVIOUS
    <3>1. a = b
      BY <1>5, <2>2 DEF SoundTree, Distinct, Inodes
    <3>2. x # Home
      BY <1>16, <2>2, <3>1
    <3>3. x \in Found(K, t, p, S)
      BY <1>5, <2>2, <3>1, <3>2 DEF Found, P, Watchable
    <3> QED BY <3>3
  <2>4. n - 1 \in DOMAIN r /\ r[n - 1] = q[n]
    BY <1>1, <2>3
  <2> QED BY <2>2, <2>4 DEF Announced, P
<1>18. RemovalsAreTrue(t, r)
  BY <1>1 DEF Sound, RemovalsAreTrue
<1>19. ASSUME NEW n \in DOMAIN q, n # 1, IsOfFolder(q[n], "Create")
       PROVE  q[n].wd \in K /\ \E b \in Folders \ L : t[b] = spot(q[n])
  <2>1. Tells(K, T, t, q[n])
    BY <1>4, <1>19
  <2>2. q[n].wd \in K /\ q[n].wd \in Ids /\ T[q[n].wd] = P[q[n].wd] /\ q[n] \in Events
    BY <2>1 DEF Tells, P
  <2>3. PICK b \in Folders \ K : /\ t[b] = spot(q[n]) /\ b \in Ids /\ P[b] = Append(T[q[n].wd], q[n].name)
                                 /\ P[b] # NoPath
    BY <2>1 DEF Tells, P
  <2>4. b \notin F
    <3> SUFFICES ASSUME b \in F PROVE FALSE
      OBVIOUS
    <3>1. P[q[n].wd] \in Seq(Names) /\ q[n].name \in Names
      BY <1>8, <2>2 DEF Events
    <3>2. IsPrefix(P[a], Append(P[q[n].wd], q[n].name))
      BY <1>7, <2>2, <2>3
    <3>3. P[a] = P[b] \/ IsPrefix(P[a], P[q[n].wd])
      <4>1. P[a] \in Seq(Names)
        BY <1>5
      <4>2. P[a] = Append(P[q[n].wd], q[n].name) \/ IsPrefix(P[a], P[q[n].wd])
        BY <3>1, <3>2, <4>1, PrefixOfLonger
      <4> QED BY <2>2, <2>3, <4>2
    <3>4. P[a] = P[b]
      BY <1>9, <2>2, <3>3
    <3>5. a = b
      BY <1>5, <2>3, <3>4, PathsAreDistinct DEF P, SoundTree
    <3>6. spot(q[n]) = spot(q[1])
      BY <1>5, <2>3, <3>5
    <3> QED BY <1>2, <1>3, <1>6, <1>19, <3>6 DEF CreationsAreTrue
  <2> QED BY <2>2, <2>3, <2>4
<1>20. CreationsAreTrue(L, t, r)
  <2>1. ASSUME NEW n \in DOMAIN r, IsOfFolder(r[n], "Create")
        PROVE  r[n].wd \in L /\ \E b \in Folders \ L : t[b] = spot(r[n])
    <3>1. n + 1 \in DOMAIN q /\ r[n] = q[n + 1] /\ n + 1 # 1
      BY <1>1
    <3>2. q[n + 1].wd \in K /\ \E b \in Folders \ L : t[b] = spot(q[n + 1])
      BY <1>19, <2>1, <3>1
    <3> QED BY <3>1, <3>2
  <2>2. ASSUME NEW n \in DOMAIN r, NEW m \in DOMAIN r, IsOfFolder(r[n], "Create"), IsOfFolder(r[m], "Create"),
               spot(r[n]) = spot(r[m])
        PROVE  n = m
    <3>1. n + 1 \in DOMAIN q /\ m + 1 \in DOMAIN q /\ r[n] = q[n + 1] /\ r[m] = q[m + 1] /\ n \in Nat /\ m \in Nat
      BY <1>1
    <3>2. n + 1 = m + 1
      BY <2>2, <3>1 DEF Sound, CreationsAreTrue
    <3> QED BY <3>1, <3>2
  <2> QED BY <2>1, <2>2 DEF CreationsAreTrue
<1>21. EventsInOrder(U, r)
  <2> SUFFICES ASSUME NEW n \in DOMAIN r, NEW m \in DOMAIN r, n < m, IsOfFolder(r[n], "Create"),
                      r[m].event = "DeleteSelf", U[r[m].wd] # NoPath
               PROVE  ~IsPrefix(Append(U[r[n].wd], r[n].name), U[r[m].wd])
    BY DEF EventsInOrder
  <2>1. /\ n + 1 \in DOMAIN q /\ m + 1 \in DOMAIN q /\ r[n] = q[n + 1] /\ r[m] = q[m + 1] /\ n + 1 < m + 1
        /\ n + 1 # 1
    BY <1>1
  <2>2. r[n].wd \in K /\ U[r[n].wd] = T[r[n].wd]
    <3>1. q[n + 1].wd \in K
      BY <1>19, <2>1
    <3> QED BY <1>13, <2>1, <3>1
  <2>3. r[m].wd \in Folders /\ t[r[m].wd] = Gone
    BY <1>18 DEF RemovalsAreTrue
  <2>4. r[m].wd \notin F
    <3>1. Gone \notin Places
      BY ConstantsAssumption
    <3> QED BY <1>7, <2>3, <3>1, PathEquation DEF P
  <2>5. U[r[m].wd] = T[r[m].wd]
    BY <2>3, <2>4 DEF Watchable
  <2>6. ~IsPrefix(Append(T[q[n + 1].wd], q[n + 1].name), T[q[m + 1].wd])
    BY <2>1, <2>5 DEF Sound, EventsInOrder
  <2> QED BY <2>1, <2>2, <2>5, <2>6
<1>22. ParentsToo(L, t)
  <2> SUFFICES ASSUME NEW x \in L \cap Folders, x \notin K PROVE t[x][1] \in L
    BY DEF ParentsToo
  <2>1. x \in F /\ x \in Ids /\ x \in Inodes /\ x \in Folders /\ P[x] # NoPath /\ IsPrefix(P[a], P[x]) /\ Clean(P[x], S)
    BY <1>7
  <2>2. StepUp(t, x)
    BY <2>1, StepsUp DEF P
  <2> DEFINE up == t[x][1]
  <2>3. /\ up \in Watchable /\ up \in Ids /\ t[x][2] \in Names /\ P[up] # NoPath /\ P[up] \in Seq(Names)
        /\ P[x] = Append(P[up], t[x][2])
    BY <2>1, <2>2, ConstantsAssumption DEF StepUp, P, Inodes
  <2> HIDE DEF up
  <2>4. P[a] = P[x] \/ IsPrefix(P[a], P[up])
    <3>1. P[a] \in Seq(Names) /\ IsPrefix(P[a], Append(P[up], t[x][2]))
      BY <1>5, <2>1, <2>3
    <3>2. P[a] = Append(P[up], t[x][2]) \/ IsPrefix(P[a], P[up])
      BY <2>3, <3>1, PrefixOfLonger
    <3> QED BY <2>3, <3>2
  <2>5. CASE P[a] = P[x]
    <3>1. a = x
      BY <1>5, <2>1, <2>5, PathsAreDistinct DEF P, SoundTree
    <3> QED BY <1>5, <1>6, <3>1 DEF up
  <2>6. CASE IsPrefix(P[a], P[up])
    <3>1. up # Home
      BY <1>16, <2>6
    <3>2. up \in Folders
      BY <2>3, <3>1 DEF Watchable
    <3>3. Clean(P[up], S)
      <4>1. IsPrefix(P[up], P[x]) /\ P[x] \in Seq(Names)
        BY <2>3, PrefixOfAppended, <1>7, <2>1
      <4> QED BY <2>1, <2>3, <4>1, CleanAbove
    <3>4. up \in Found(K, t, p, S)
      BY <1>5, <2>6, <3>2, <3>3 DEF Found, P
    <3> QED BY <3>4 DEF up
  <2> QED BY <2>4, <2>5, <2>6
<1> QED BY <1>7, <1>11, <1>12, <1>14, <1>15, <1>17, <1>18, <1>20, <1>21, <1>22 DEF Sound, LookedInto, r, P

-----------------------------------------------------------------------------
(* The watch invariant.                                                      *)

\* What the walk has still to read
toRead == IF m_dirIter = NoPath THEN {} ELSE m_dirIter.toList
SoundNow(K, T) == Sound(K, T, place, queue, excluded, m_paths, toRead)
                  /\ (Walking \/ ParentsToo(K, place))

IsMoveOfFolder(e) == IsOfFolder(e, "MoveFrom") \/ IsOfFolder(e, "MoveTo")
namedBy(n) == Append(watches.path[queue[n].wd], queue[n].name)

\* No folder is under way.
Calm ==
  /\ \A n \in DOMAIN queue : ~IsMoveOfFolder(queue[n])
  /\ \A c \in cookies : ~c.isDir
  /\ SoundNow(watches.kernel, watches.path)

\* The table has yet to get the new path of a folder, by the event that is n-th.
Moving(i, n) ==
  /\ n \in DOMAIN queue /\ IsOfFolder(queue[n], "MoveTo") /\ watches.path[queue[n].wd] # NoPath
  /\ \A m \in DOMAIN queue : IsMoveOfFolder(queue[m]) => m <= n
  /\ watches.path[i] # NoPath
  /\ \A j \in Watchable : watches.path[j] # namedBy(n)
  /\ SoundNow(watches.kernel, [watches.path EXCEPT ![i] = namedBy(n)])
MovingSoon(i) ==
  /\ cookies = {} /\ Moving(i, 2)
  /\ IsOfFolder(queue[1], "MoveFrom") /\ watches.path[queue[1].wd] # NoPath
  /\ queue[1].cookie = queue[2].cookie /\ watches.path[i] = namedBy(1)
MovingNext(i) ==
  /\ Moving(i, 1)
  /\ cookies = {[cookie |-> queue[1].cookie, path |-> watches.path[i], isDir |-> TRUE]}

\* A folder that went where nothing is indexed is still watched.
Leaving(i) ==
  /\ i \in watches.kernel /\ watches.path[i] # NoPath
  /\ \A j \in Watchable \ {i} : watches.path[j] # NoPath => ~IsPrefix(watches.path[i], watches.path[j])
  /\ SoundNow(watches.kernel \ {i}, [watches.path EXCEPT ![i] = NoPath])
LeavingSoon(i) ==
  /\ cookies = {} /\ Len(queue) = 1 /\ Leaving(i)
  /\ IsOfFolder(queue[1], "MoveFrom") /\ watches.path[queue[1].wd] # NoPath
  /\ queue[1].cookie \in 1..changes /\ watches.path[i] = namedBy(1)
LeavingNext(i) ==
  /\ queue = <<>> /\ Leaving(i)
  /\ \E k \in Nat : cookies = {[cookie |-> k, path |-> watches.path[i], isDir |-> TRUE]}

Phase == \/ Calm
         \/ \E i \in Folders : MovingSoon(i) \/ MovingNext(i) \/ LeavingSoon(i) \/ LeavingNext(i)

Followed ==
  /\ m_dirWatch /\ Tables(watches) /\ Stands(excluded, place)
  /\ Walking => queue = <<>> /\ cookies = {}
  /\ Phase
WatchInv == SoundTree(place) /\ (disturbed = {} => Followed)

-----------------------------------------------------------------------------
(* When no event is about a new folder or one that is gone. *)

AllKnown(K, T, t, S, ps, ls) ==
  /\ WatchedRightly(K, T, t, S)
  /\ \A x \in Watchable \ K : T[x] = NoPath
  /\ \A x \in Watchable \ K : Clean(pathsIn(t)[x], S) => ToBeRead(x, t, ps, ls)

LEMMA ParentsAreToo ==
  ASSUME NEW K, K \subseteq Watchable, NEW T, NEW t, NEW S, S \subseteq Seq(Names), AllKnown(K, T, t, S, {}, {})
  PROVE  ParentsToo(K, t)
<1> DEFINE P == pathsIn(t)
<1> SUFFICES ASSUME NEW x \in K \cap Folders PROVE t[x][1] \in K
  BY DEF ParentsToo
<1>1. x \in Ids /\ x \in Inodes /\ Clean(P[x], S) /\ P[x] # NoPath
  BY DEF AllKnown, WatchedRightly, Clean, Ids, Inodes
<1>2. StepUp(t, x) /\ P[x] \in Seq(Names)
  BY <1>1, StepsUp
<1> DEFINE up == t[x][1]
<1>3. /\ up \in Watchable /\ t[x][2] \in Names /\ P[up] # NoPath /\ P[up] \in Seq(Names)
      /\ P[x] = Append(P[up], t[x][2])
  BY <1>1, <1>2, ConstantsAssumption DEF StepUp, Inodes
<1> HIDE DEF P, up
<1>4. Clean(P[up], S)
  <2>1. IsPrefix(P[up], P[x])
    BY <1>3, AppendedIsLonger
  <2> QED BY <1>1, <1>2, <1>3, <2>1, CleanAbove
<1>5. up \in K
  BY <1>3, <1>4 DEF AllKnown, ToBeRead, P
<1> QED BY <1>5 DEF up

LEMMA KnownAside ==
  ASSUME NEW K, NEW T, NEW t, NEW q, NEW S, NEW ps, NEW ls, \A n \in DOMAIN q : Aside(q[n])
  PROVE  Sound(K, T, t, q, S, ps, ls) <=> AllKnown(K, T, t, S, ps, ls)
BY SoundAside DEF AllKnown

\* The invariant when the queue is empty and no folder is under way
LEMMA KnownNow ==
  ASSUME TypeOK, \A n \in DOMAIN queue : Aside(queue[n]), NEW K, K \subseteq Watchable, NEW T
  PROVE  SoundNow(K, T) <=> AllKnown(K, T, place, excluded, m_paths, toRead)
<1>1. Sound(K, T, place, queue, excluded, m_paths, toRead) <=> AllKnown(K, T, place, excluded, m_paths, toRead)
  BY KnownAside
<1>2. ASSUME ~Walking, AllKnown(K, T, place, excluded, m_paths, toRead) PROVE ParentsToo(K, place)
  <2>1. m_paths = {} /\ toRead = {}
    BY <1>2 DEF Walking, toRead
  <2>2. excluded \subseteq Seq(Names)
    BY DEF TypeOK
  <2> QED BY <1>2, <2>1, <2>2, ParentsAreToo
<1> QED BY <1>1, <1>2 DEF SoundNow

LEMMA EmptyIsAside == queue = <<>> => \A n \in DOMAIN queue : Aside(queue[n])
OBVIOUS

\* While the walk goes on no folder is under way.
LEMMA CalmWhenEmpty ==
  ASSUME TypeOK, Followed, queue = <<>>, cookies = {}
  PROVE  Calm /\ AllKnown(watches.kernel, watches.path, place, excluded, m_paths, toRead)
<1>1. Calm
  <2>1. ASSUME NEW i \in Folders, MovingSoon(i) \/ MovingNext(i) PROVE FALSE
    <3>1. DOMAIN queue # {}
      BY <2>1 DEF MovingSoon, MovingNext, Moving
    <3> QED BY <3>1
  <2>2. ASSUME NEW i \in Folders, LeavingSoon(i) PROVE FALSE
    BY <2>2 DEF LeavingSoon
  <2>3. ASSUME NEW i \in Folders, LeavingNext(i) PROVE FALSE
    BY <2>3 DEF LeavingNext
  <2> QED BY <2>1, <2>2, <2>3 DEF Followed, Phase
<1>2. watches.kernel \subseteq Watchable
  BY DEF TypeOK
<1> QED BY <1>1, <1>2, KnownNow, EmptyIsAside DEF Calm

LEMMA KnownIsSound ==
  ASSUME NEW K, K \subseteq Watchable, NEW T, NEW t, NEW q, NEW S, S \subseteq Seq(Names), NEW ps, NEW ls,
         \A n \in DOMAIN q : Aside(q[n]), AllKnown(K, T, t, S, ps, ls)
  PROVE  Sound(K, T, t, q, S, ps, ls) /\ (ps = {} /\ ls = {} => ParentsToo(K, t))
<1>1. Sound(K, T, t, q, S, ps, ls)
  BY KnownAside
<1>2. ASSUME ps = {}, ls = {} PROVE ParentsToo(K, t)
  BY <1>2, ParentsAreToo
<1> QED BY <1>1, <1>2

LEMMA CalmNow ==
  ASSUME TypeOK', queue' = <<>>, cookies' = {},
         AllKnown(watches'.kernel, watches'.path, place', excluded', m_paths', toRead')
  PROVE  Calm'
<1>1. watches'.kernel \subseteq Watchable /\ excluded' \subseteq Seq(Names)
  BY DEF TypeOK
<1>2. \A n \in DOMAIN queue' : Aside(queue'[n])
  OBVIOUS
<1>3. /\ Sound(watches'.kernel, watches'.path, place', queue', excluded', m_paths', toRead')
      /\ m_paths' = {} /\ toRead' = {} => ParentsToo(watches'.kernel, place')
  BY <1>1, <1>2, KnownIsSound
<1>4. Walking' \/ (m_paths' = {} /\ toRead' = {})
  BY DEF Walking, toRead
<1> QED BY <1>3, <1>4 DEF Calm, SoundNow

LEMMA FollowedInit == Init => WatchInv
<1> SUFFICES ASSUME Init PROVE WatchInv
  OBVIOUS
<1>1. SoundTree(place)
  <2>1. \A i \in Inodes : place[i] \in Places =>
          /\ place[i][1] \in Inodes => place[place[i][1]] \in Places
          /\ \A j \in Inodes \ {i} : place[j] # place[i]
    BY ConstantsAssumption DEF Init
  <2> QED BY <2>1 DEF SoundTree, Distinct
<1>2. TypeOK
  BY TypesInit
<1>3. Tables(watches)
  BY DEF Init, NoWatches, Tables
<1>4. AllKnown(watches.kernel, watches.path, place, excluded, m_paths, toRead)
  <2>1. ASSUME NEW x \in Watchable, Clean(pathsIn(place)[x], excluded) PROVE ToBeRead(x, place, m_paths, toRead)
    <3>1. pathsIn(place)[x] \in Seq(Names)
      BY <2>1, PathIsNames DEF Clean, Watchable, Ids, Inodes
    <3> QED BY <3>1, PrefixOrder DEF ToBeRead, Init
  <2> QED BY <2>1 DEF AllKnown, WatchedRightly, Init, NoWatches
<1>5. SoundNow(watches.kernel, watches.path)
  BY <1>2, <1>4, KnownNow DEF Init, NoWatches
<1>6. Calm /\ Stands(excluded, place) /\ Walking
  BY <1>5 DEF Calm, Init, Stands, Walking
<1> QED BY <1>1, <1>3, <1>6 DEF WatchInv, Followed, Phase, Init

LEMMA CleanHome == ASSUME TypeOK, Stands(excluded, place) PROVE Clean(<<>>, excluded)
<1>1. <<>> # NoPath /\ Shown(<<>>)
  <2>1. <<>> \in Seq(Names)
    OBVIOUS
  <2>2. <<>> # NoPath
    BY <2>1, ConstantsAssumption
  <2>3. Shown(<<>>)
    BY DEF Shown
  <2> QED BY <2>2, <2>3
<1>2. ASSUME NEW p \in excluded, IsPrefix(p, <<>>) PROVE FALSE
  <2>1. PICK i \in Folders, n \in Names : p = <<n>> /\ place[i] = <<Home, n>>
    BY DEF Stands
  <2>2. p \in Seq(Names) /\ p # <<>>
    BY <2>1
  <2> QED BY <1>2, <2>2, PrefixOfNone
<1> QED BY <1>1, <1>2 DEF Clean

LEMMA FollowedQuiet == ASSUME TypeOK, WatchInv PROVE WatchesFollowFolders
<1> SUFFICES ASSUME Quiet, disturbed = {}
             PROVE  /\ watches.kernel = {i \in Folders \cup {Home} : i = Home \/ Belongs(i)}
                    /\ \A i \in watches.kernel : watches.path[i] = pathsIn(place)[i]
                    /\ watches.wd = {<<watches.path[i], i>> : i \in watches.kernel}
  BY DEF WatchesFollowFolders
<1> DEFINE K == watches.kernel
           T == watches.path
           P == pathsIn(place)
<1>1. Followed /\ queue = <<>> /\ cookies = {} /\ m_paths = {} /\ toRead = {}
  <2>1. queue = <<>> /\ cookies = {} /\ m_paths = {} /\ m_dirIter = NoPath
    BY DEF Quiet, Settled, Walking
  <2> QED BY <2>1 DEF WatchInv, toRead
<1>2. AllKnown(K, T, place, excluded, {}, {})
  BY <1>1, CalmWhenEmpty
<1>3. Tables(watches) /\ Stands(excluded, place)
  BY <1>1 DEF Followed
<1>4. K \subseteq Watchable
  BY DEF TypeOK
<1> HIDE DEF K, T, P
<1>5. \A x \in Watchable : x \in K <=> Clean(P[x], excluded)
  BY <1>2 DEF AllKnown, WatchedRightly, ToBeRead, P
<1>6. \A x \in Watchable : x = Home \/ Belongs(x) <=> Clean(P[x], excluded)
  <2> SUFFICES ASSUME NEW x \in Watchable PROVE (x = Home \/ Belongs(x)) <=> Clean(P[x], excluded)
    OBVIOUS
  <2>1. CASE P[x] = NoPath
    <3>1. P[Home] = <<>>
      BY PathEquation DEF P
    <3>2. x # Home
      BY <1>3, <2>1, <3>1, CleanHome DEF Clean
    <3> QED BY <2>1, <3>2 DEF Belongs, shouldBeIndexed, Clean, P
  <2>2. CASE P[x] # NoPath
    <3>1. P[x] \in Seq(Names)
      BY <2>2, PathIsNames DEF P, Watchable, Ids, Inodes
    <3>2. shouldBeIndexed(P[x]) <=> Clean(P[x], excluded)
      BY <1>3, <3>1, IndexedIsClean
    <3>3. Clean(P[Home], excluded)
      BY <1>3, CleanHome, PathEquation DEF P
    <3> QED BY <3>2, <3>3 DEF Belongs, P
  <2> QED BY <2>1, <2>2
<1>7. K = {i \in Folders \cup {Home} : i = Home \/ Belongs(i)}
  BY <1>4, <1>5, <1>6 DEF Watchable
<1>8. \A i \in K : T[i] = P[i] /\ T[i] # NoPath
  BY <1>2 DEF AllKnown, WatchedRightly, Clean, P
<1>9. {y \in Watchable : T[y] # NoPath} = K
  BY <1>2, <1>4, <1>8 DEF AllKnown
<1>10. watches.wd = {<<T[x], x>> : x \in K}
  BY <1>3, <1>9 DEF Tables, T
<1> QED BY <1>7, <1>8, <1>10 DEF K, T, P

-----------------------------------------------------------------------------
(* The walk. *)

\* What addWatch() adds is known, when its path is not that of anything else.
LEMMA AddedKnown ==
  ASSUME TypeOK, SoundTree(place), Tables(watches), NEW ps, NEW ls,
         AllKnown(watches.kernel, watches.path, place, excluded, ps, ls),
         NEW F \in SUBSET Watchable, \A i \in F : Clean(pathsIn(place)[i], excluded),
         NEW w, w = addWatches(watches, F)
  PROVE  /\ Tables(w) /\ WatchedRightly(w.kernel, w.path, place, excluded)
         /\ w.kernel = watches.kernel \cup F
         /\ \A x \in Watchable \ w.kernel : w.path[x] = NoPath
<1> DEFINE K == watches.kernel
           T == watches.path
           P == pathsIn(place)
<1>1. \A i \in F : P[i] # NoPath /\ i \in Ids
  BY DEF Clean, Watchable, Ids, Inodes
<1>2. \A x \in K : T[x] = P[x] /\ x \in Ids /\ x \in Watchable
  BY DEF AllKnown, WatchedRightly, TypeOK, Watchable, Ids, Inodes
<1>3. \A x \in Watchable \ K : T[x] = NoPath
  BY DEF AllKnown
<1>4. \A i \in F, j \in Watchable : T[j] = P[i] => j = i
  <2> SUFFICES ASSUME NEW i \in F, NEW j \in Watchable, T[j] = P[i] PROVE j = i
    OBVIOUS
  <2>1. j \in K
    BY <1>1, <1>3
  <2> QED BY <1>1, <1>2, <2>1, PathsAreDistinct DEF SoundTree
<1>5. \A i \in F : T[i] \in {NoPath, P[i]}
  BY <1>2, <1>3
<1>6. Tables(w)
  BY <1>1, <1>4, <1>5, TablesAdded DEF SoundTree
<1>7. w.kernel = K \cup F
  BY DEF addWatches
<1>8. \A i \in Watchable : w.path[i] = IF i \in F THEN P[i] ELSE T[i]
  BY AddedWatches
<1>9. K \subseteq Watchable
  BY DEF TypeOK
<1> QED BY <1>3, <1>6, <1>7, <1>8, <1>9 DEF AllKnown, WatchedRightly

LEMMA FollowsNextWalk ==
  ASSUME TypeOK, TypeOK', SoundTree(place), Followed, nextWalk
  PROVE  Followed'
<1> DEFINE K == watches.kernel
           T == watches.path
           P == pathsIn(place)
<1>1. /\ UNCHANGED <<place, queue, m_dirWatch, cookies, excluded>>
      /\ m_dirIter = NoPath \/ m_dirIter.toList = {}
  BY DEF nextWalk, fileSystem, settings
<1>2. toRead = {} /\ Walking
  BY <1>1 DEF toRead, nextWalk, Walking
<1>3. queue = <<>> /\ cookies = {}
  BY <1>2 DEF Followed
<1>4. AllKnown(K, T, place, excluded, m_paths, {})
  BY <1>2, <1>3, CalmWhenEmpty
<1>5. m_dirWatch /\ Tables(watches) /\ Stands(excluded, place)
  BY DEF Followed
<1>s. SUFFICES Tables(watches') /\ AllKnown(watches'.kernel, watches'.path, place, excluded, m_paths', toRead')
  <2> SUFFICES ASSUME Tables(watches'), AllKnown(watches'.kernel, watches'.path, place, excluded, m_paths', toRead')
               PROVE  Followed'
    OBVIOUS
  <2>1. Calm'
    BY <1>1, <1>3, CalmNow
  <2> QED BY <1>1, <1>3, <1>5, <2>1 DEF Followed, Phase
<1>6. CASE m_paths = {}
  <2>1. m_paths' = {} /\ toRead' = {} /\ watches' = watches
    BY <1>6 DEF nextWalk, toRead
  <2> QED BY <1>4, <1>5, <1>6, <2>1
<1>7. CASE m_paths # {}
  <2>1. PICK p \in m_paths :
            /\ m_paths' = m_paths \ {p}
            /\ IF shouldBeIndexed(p)
               THEN /\ m_dirIter' = [filePath |-> p, toList |-> {p}]
                    /\ watches' = addWatches(watches, foldersAt(p))
               ELSE /\ m_dirIter' = [filePath |-> NoPath, toList |-> {}]
                    /\ UNCHANGED watches
    BY <1>7 DEF nextWalk
  <2>2. p \in Seq(Names)
    BY DEF TypeOK
  <2>3. shouldBeIndexed(p) <=> Clean(p, excluded)
    BY <1>5, <2>2, IndexedIsClean
  <2>4. ASSUME NEW w, NEW c, [filePath |-> w, toList |-> c] = NoPath PROVE w = p /\ c = {p} => FALSE
    <3> SUFFICES ASSUME w = p, c = {p} PROVE FALSE
      OBVIOUS
    <3>1. [filePath |-> p, toList |-> {p}] \in Walks
      BY <2>2 DEF Walks
    <3> QED BY <2>4, <3>1, ConstantsAssumption
  <2>5. ASSUME NEW x \in Watchable, Clean(P[x], excluded), x \notin K
        PROVE  P[x] \in Seq(Names) /\ \E r \in m_paths : IsPrefix(r, P[x])
    <3>1. P[x] \in Seq(Names)
      BY <2>5, PathIsNames DEF Clean, Watchable, Ids, Inodes
    <3> QED BY <1>4, <2>5, <3>1 DEF AllKnown, ToBeRead
  <2>6. CASE shouldBeIndexed(p)
    <3>1. toRead' = {p}
      BY <2>1, <2>4, <2>6 DEF toRead
    <3> DEFINE F == foldersAt(p)
    <3>2. F = {i \in Watchable : P[i] = p}
      <4>1. p # NoPath
        BY <2>6 DEF shouldBeIndexed
      <4> QED BY <4>1 DEF foldersAt, At, Watchable, Inodes
    <3>3. /\ Tables(watches') /\ WatchedRightly(watches'.kernel, watches'.path, place, excluded)
          /\ watches'.kernel = K \cup F
          /\ \A x \in Watchable \ watches'.kernel : watches'.path[x] = NoPath
      <4>1. F \in SUBSET Watchable /\ \A i \in F : Clean(P[i], excluded)
        BY <2>3, <2>6, <3>2
      <4>2. watches' = addWatches(watches, F)
        BY <2>1, <2>6
      <4> HIDE DEF F
      <4> QED BY <1>4, <1>5, <4>1, <4>2, AddedKnown
    <3>4. ASSUME NEW x \in Watchable \ watches'.kernel, Clean(P[x], excluded)
          PROVE  ToBeRead(x, place, m_paths', toRead')
      <4>1. x \notin K /\ x \notin F
        BY <3>3
      <4>2. PICK r \in m_paths : IsPrefix(r, P[x])
        BY <2>5, <3>4, <4>1
      <4>3. P[x] # p
        BY <3>2, <4>1
      <4> QED BY <2>1, <3>1, <4>2, <4>3 DEF ToBeRead
    <3> QED BY <3>3, <3>4 DEF AllKnown
  <2>7. CASE ~shouldBeIndexed(p)
    <3>1. toRead' = {} /\ watches' = watches
      BY <2>1, <2>7 DEF toRead
    <3>2. ASSUME NEW x \in Watchable \ K, Clean(P[x], excluded) PROVE ToBeRead(x, place, m_paths', {})
      <4>1. PICK r \in m_paths : IsPrefix(r, P[x])
        BY <2>5, <3>2
      <4>2. r # p
        BY <2>2, <2>3, <2>5, <2>7, <3>2, <4>1, CleanAbove DEF TypeOK
      <4> QED BY <2>1, <4>1, <4>2 DEF ToBeRead
    <3> QED BY <1>4, <1>5, <3>1, <3>2 DEF AllKnown
  <2> QED BY <2>6, <2>7
<1> QED BY <1>6, <1>7

\* The beginning of a path that is one name longer
LEMMA OneLonger ==
  ASSUME NEW s \in Seq(Names), NEW t \in Seq(Names), IsPrefix(s, t), s # t
  PROVE  \E r \in Seq(Names) : IsPrefix(r, t) /\ folderOf(r) = s /\ r # <<>>
<1>1. Len(s) <= Len(t) /\ \A n \in 1..Len(s) : s[n] = t[n]
  BY PrefixIs
<1>2. Len(s) < Len(t)
  <2>1. CASE Len(s) = Len(t)
    BY <1>1, <2>1
  <2> QED BY <1>1, <2>1
<1> DEFINE x == t[Len(s) + 1]
           r == Append(s, x)
<1>3. x \in Names
  BY <1>2
<1>4. r \in Seq(Names) /\ Len(r) = Len(s) + 1 /\ r[Len(s) + 1] = x /\ \A n \in 1..Len(s) : r[n] = s[n]
  BY <1>3, Appended
<1>5. \A n \in 1..Len(r) : r[n] = t[n]
  BY <1>1, <1>4
<1>6. IsPrefix(r, t)
  <2> HIDE DEF r
  <2> QED BY <1>2, <1>4, <1>5, PrefixIs
<1>7. folderOf(r) = s
  BY <1>3, FolderOfAppended
<1>8. r # <<>>
  <2> HIDE DEF r
  <2> QED BY <1>4
<1> QED BY <1>4, <1>6, <1>7, <1>8

LEMMA FollowsAddNext ==
  ASSUME TypeOK, TypeOK', SoundTree(place), Followed, addNextWatches
  PROVE  Followed'
<1> DEFINE K == watches.kernel
           T == watches.path
           P == pathsIn(place)
<1>1. UNCHANGED <<place, queue, m_dirWatch, cookies, excluded, m_paths>> /\ m_dirIter # NoPath
  BY DEF addNextWatches, fileSystem, settings
<1>2. toRead = m_dirIter.toList /\ Walking
  BY <1>1 DEF toRead, Walking
<1>3. queue = <<>> /\ cookies = {}
  BY <1>2 DEF Followed
<1>4. AllKnown(K, T, place, excluded, m_paths, toRead)
  BY <1>3, CalmWhenEmpty
<1>5. m_dirWatch /\ Tables(watches) /\ Stands(excluded, place)
  BY DEF Followed
<1>6. PICK p \in toRead :
        /\ watches' = addWatches(watches, subfolders(p))
        /\ \E last \in {NoPath} \cup Seq(Names) :
             m_dirIter' = [filePath |-> last,
                           toList |-> (toRead \ {p}) \cup {pathsIn(place)[i] : i \in subfolders(p)}]
  <2>1. PICK p \in m_dirIter.toList :
          LET paths == {pathsIn(place)[i] : i \in subfolders(p)}
          IN  /\ \E last \in paths \cup {IF paths = {} THEN m_dirIter.filePath ELSE CHOOSE q \in paths : TRUE} :
                   m_dirIter' = [filePath |-> last, toList |-> (m_dirIter.toList \ {p}) \cup paths]
              /\ watches' = addWatches(watches, subfolders(p))
    BY DEF addNextWatches
  <2> DEFINE paths == {pathsIn(place)[i] : i \in subfolders(p)}
             other == IF paths = {} THEN m_dirIter.filePath ELSE CHOOSE q \in paths : TRUE
  <2>2. paths \subseteq Seq(Names)
    <3>1. ASSUME NEW i \in subfolders(p) PROVE pathsIn(place)[i] \in Seq(Names)
      <4>1. i \in Ids /\ pathsIn(place)[i] # NoPath
        BY DEF subfolders, Ids, Inodes
      <4> QED BY <4>1, PathIsNames
    <3> QED BY <3>1
  <2>3. m_dirIter.filePath \in {NoPath} \cup Seq(Names)
    BY <1>1 DEF TypeOK, Walks
  <2>4. PICK last \in paths \cup {other} :
          m_dirIter' = [filePath |-> last, toList |-> (m_dirIter.toList \ {p}) \cup paths]
    BY <2>1
  <2>5. watches' = addWatches(watches, subfolders(p))
    BY <2>1
  <2> HIDE DEF paths
  <2>6. other \in {NoPath} \cup Seq(Names)
    <3>1. CASE paths = {}
      BY <2>3, <3>1
    <3>2. CASE paths # {}
      BY <2>2, <3>2
    <3> QED BY <3>1, <3>2
  <2>7. last \in {NoPath} \cup Seq(Names)
    BY <2>2, <2>4, <2>6
  <2>8. m_dirIter' = [filePath |-> last, toList |-> (toRead \ {p}) \cup paths] /\ p \in toRead
    BY <1>2, <2>4
  <2> QED BY <2>5, <2>7, <2>8 DEF paths
<1> DEFINE F == subfolders(p)
           paths == {P[i] : i \in F}
<1>7. p \in Seq(Names) /\ excluded \subseteq Seq(Names) /\ toRead \subseteq Seq(Names)
  BY <1>1, <1>2 DEF TypeOK, Walks
<1>8. F = {i \in Folders : P[i] # NoPath /\ folderOf(P[i]) = p /\ Clean(P[i], excluded)}
  <2>1. ASSUME NEW i \in Folders, P[i] # NoPath PROVE shouldBeIndexed(P[i]) <=> Clean(P[i], excluded)
    <3>1. P[i] \in Seq(Names)
      BY <2>1, PathIsNames DEF Ids, Inodes
    <3> QED BY <1>5, <3>1, IndexedIsClean
  <2> QED BY <2>1 DEF subfolders
<1>9. toRead' = (toRead \ {p}) \cup paths
  <2>1. PICK last \in {NoPath} \cup Seq(Names) : m_dirIter' = [filePath |-> last, toList |-> (toRead \ {p}) \cup paths]
    BY <1>6
  <2>2. paths \subseteq Seq(Names)
    <3>1. \A i \in F : P[i] # NoPath /\ i \in Ids
      BY <1>8 DEF Ids, Inodes
    <3> QED BY <3>1, PathIsNames
  <2>3. [filePath |-> last, toList |-> (toRead \ {p}) \cup paths] \in Walks
    BY <1>7, <2>2 DEF Walks
  <2>4. m_dirIter' # NoPath
    BY <2>1, <2>3, ConstantsAssumption
  <2> QED BY <2>1, <2>4 DEF toRead
<1> HIDE DEF F, paths
<1>10. /\ Tables(watches') /\ WatchedRightly(watches'.kernel, watches'.path, place, excluded)
       /\ watches'.kernel = K \cup F
       /\ \A x \in Watchable \ watches'.kernel : watches'.path[x] = NoPath
  <2>1. F \in SUBSET Watchable /\ \A i \in F : Clean(P[i], excluded)
    BY <1>8 DEF Watchable
  <2>2. watches' = addWatches(watches, F)
    BY <1>6 DEF F
  <2> QED BY <1>4, <1>5, <2>1, <2>2, AddedKnown
<1>11. ASSUME NEW x \in Watchable \ watches'.kernel, Clean(P[x], excluded)
       PROVE  ToBeRead(x, place, m_paths, toRead')
  <2>1. x \notin K /\ x \notin F /\ x \in Ids
    BY <1>10 DEF Watchable, Ids, Inodes
  <2>2. P[x] \in Seq(Names) /\ P[x] # NoPath
    BY <1>11, <2>1, PathIsNames DEF Clean
  <2>3. CASE \E r \in m_paths : IsPrefix(r, P[x])
    BY <2>3 DEF ToBeRead
  <2>4. CASE \E r \in toRead \ {p} : IsPrefix(r, P[x]) /\ r # P[x]
    BY <1>9, <2>4 DEF ToBeRead
  <2>5. CASE IsPrefix(p, P[x]) /\ p # P[x]
    <3>1. PICK s \in Seq(Names) : IsPrefix(s, P[x]) /\ folderOf(s) = p /\ s # <<>>
      BY <1>7, <2>2, <2>5, OneLonger
    <3>2. PICK a \in Ids : P[a] = s /\ (a = x \/ a \in Watchable)
      BY <2>1, <2>2, <3>1, PrefixIsAbove
    <3>3. a \in Folders
      BY <3>1, <3>2, PathEquation DEF Watchable
    <3>4. Clean(s, excluded)
      BY <1>7, <1>11, <2>2, <3>1, CleanAbove
    <3>5. a \in F
      BY <1>8, <3>1, <3>2, <3>3, <3>4 DEF Clean
    <3>6. s # P[x]
      <4> SUFFICES ASSUME s = P[x] PROVE FALSE
        OBVIOUS
      <4>1. a = x
        <5>1. P[a] = P[x] /\ P[a] # NoPath
          BY <2>2, <3>2
        <5> QED BY <2>1, <5>1, PathsAreDistinct DEF SoundTree
      <4> QED BY <2>1, <3>5, <4>1
    <3>7. s \in toRead'
      BY <1>9, <3>2, <3>5 DEF paths
    <3> QED BY <3>1, <3>6, <3>7 DEF ToBeRead
  <2>6. ToBeRead(x, place, m_paths, toRead)
    BY <1>4, <1>11, <2>1 DEF AllKnown
  <2> QED BY <2>3, <2>4, <2>5, <2>6 DEF ToBeRead
<1>12. Calm'
  <2>1. AllKnown(watches'.kernel, watches'.path, place, excluded, m_paths, toRead')
    BY <1>10, <1>11 DEF AllKnown
  <2> QED BY <1>1, <1>3, <2>1, CalmNow
<1> QED BY <1>1, <1>3, <1>5, <1>10, <1>12 DEF Followed, Phase

-----------------------------------------------------------------------------
(* The configuration changes. *)

LEMMA FollowsInclude ==
  ASSUME TypeOK, TypeOK', SoundTree(place), Followed, NEW n \in Names, configure(<<n>>),
         <<n>> \in excluded, disturbed' = {}
  PROVE  Followed'
<1> DEFINE K == watches.kernel
           T == watches.path
           P == pathsIn(place)
           path == <<n>>
<1>1. /\ UNCHANGED <<place, queue, m_dirWatch, cookies, watches, m_dirIter>>
      /\ excluded' = excluded \ {path}
      /\ m_paths' = IF ~m_dirWatch \/ watchedAs(path) # {} THEN m_paths ELSE m_paths \cup {path}
  BY DEF configure, fileSystem
<1>2. queue = <<>> /\ cookies = {}
  BY DEF configure, Settled
<1>3. AllKnown(K, T, place, excluded, m_paths, toRead)
  BY <1>2, CalmWhenEmpty
<1>4. m_dirWatch /\ Tables(watches) /\ Stands(excluded, place) /\ toRead' = toRead
  BY <1>1 DEF Followed, toRead
<1>5. path \in m_paths' \/ watchedAs(path) # {}
  BY <1>1, <1>4
<1>6. path \in Seq(Names) /\ path # NoPath /\ m_paths \subseteq m_paths'
  <2>1. path \in Seq(Names)
    OBVIOUS
  <2> QED BY <1>1, <2>1, ConstantsAssumption
<1> HIDE DEF path
<1>7. watchedAs(path) = {}
  <2> SUFFICES ASSUME NEW i \in watchedAs(path) PROVE FALSE
    OBVIOUS
  <2>1. i \in Watchable /\ T[i] = path
    BY <1>4, <1>6, WatchedAs DEF TypeOK
  <2>2. i \in K /\ path = P[i] /\ Clean(path, excluded)
    BY <1>3, <1>6, <2>1 DEF AllKnown, WatchedRightly
  <2> QED BY <1>6, <2>2, PrefixOrder DEF Clean, path
<1>8. WatchedRightly(K, T, place, excluded')
  BY <1>1, <1>3 DEF AllKnown, WatchedRightly, Clean
<1>9. ASSUME NEW x \in Watchable \ K, Clean(P[x], excluded') PROVE ToBeRead(x, place, m_paths', toRead)
  <2>1. CASE Clean(P[x], excluded)
    BY <1>3, <1>6, <2>1 DEF AllKnown, ToBeRead
  <2>2. CASE ~Clean(P[x], excluded)
    <3>1. IsPrefix(path, P[x])
      BY <1>1, <1>9, <2>2 DEF Clean
    <3> QED BY <1>5, <1>7, <3>1 DEF ToBeRead
  <2> QED BY <2>1, <2>2
<1>10. Calm'
  <2>1. AllKnown(K, T, place, excluded', m_paths', toRead)
    BY <1>3, <1>8, <1>9 DEF AllKnown
  <2> QED BY <1>1, <1>2, <1>4, <2>1, CalmNow
<1>11. Stands(excluded', place')
  BY <1>1, <1>4 DEF Stands
<1>12. Tables(watches')
  BY <1>1, <1>4
<1> QED BY <1>1, <1>2, <1>4, <1>10, <1>11, <1>12 DEF Followed, Phase

LEMMA FollowsExclude ==
  ASSUME TypeOK, TypeOK', SoundTree(place), Followed, NEW n \in Names, configure(<<n>>),
         <<n>> \notin excluded, disturbed' = {}
  PROVE  Followed'
<1> DEFINE K == watches.kernel
           T == watches.path
           P == pathsIn(place)
           path == <<n>>
           R == watchesAt(path, TRUE)
<1>1. /\ UNCHANGED <<place, queue, m_dirWatch, cookies>>
      /\ excluded' = excluded \cup {path} /\ foldersAt(path) # {}
      /\ watches' = removeWatches(watches, R)
      /\ m_paths' = {p \in m_paths : ~startsWith(p, path, TRUE)}
      /\ m_dirIter' = m_dirIter \/ m_dirIter' = NoPath
      /\ lostWith(path, TRUE) = {} /\ Settled
  BY DEF configure, fileSystem, removeWatch
<1>2. queue = <<>> /\ cookies = {}
  BY <1>1 DEF Settled
<1>3. AllKnown(K, T, place, excluded, m_paths, toRead)
  BY <1>2, CalmWhenEmpty
<1>4. m_dirWatch /\ Tables(watches) /\ Stands(excluded, place)
  BY DEF Followed
<1>5. path \in Seq(Names) /\ path # NoPath
  <2>1. path \in Seq(Names)
    OBVIOUS
  <2> QED BY <2>1, ConstantsAssumption
<1>6. \A p : startsWith(p, path, TRUE) <=> IsPrefix(path, p)
  BY DEF startsWith
<1>7. R = {i \in Watchable : T[i] # NoPath /\ IsPrefix(path, T[i])}
  BY <1>6 DEF watchesAt, TypeOK
<1>8. \A x \in K : T[x] = P[x] /\ P[x] # NoPath /\ x \in Ids /\ P[x] \in Seq(Names) /\ x \in Watchable
  BY <1>3, PathIsNames DEF AllKnown, WatchedRightly, Clean, Watchable, Ids, Inodes, TypeOK
<1>9. toRead' = toRead \/ (toRead' = {} /\ \A p \in toRead : IsPrefix(path, p))
  BY <1>1 DEF toRead, lostWith
<1> HIDE DEF path, R
<1>10. /\ watches'.kernel = K \ R
       /\ \A i \in Watchable : watches'.path[i] = IF i \in R THEN NoPath ELSE T[i]
       /\ Tables(watches')
  <2>1. R \in SUBSET Watchable
    BY <1>7
  <2> QED BY <1>1, <1>4, <2>1, RemovedWatches, TablesRemoved DEF removeWatches
<1>11. WatchedRightly(K \ R, watches'.path, place, excluded')
  <2> SUFFICES ASSUME NEW x \in K \ R PROVE watches'.path[x] = P[x] /\ Clean(P[x], excluded')
    BY DEF WatchedRightly
  <2>1. watches'.path[x] = P[x] /\ ~IsPrefix(path, P[x])
    BY <1>7, <1>8, <1>10
  <2>2. Clean(P[x], excluded)
    BY <1>3 DEF AllKnown, WatchedRightly
  <2> QED BY <1>1, <2>1, <2>2 DEF Clean
<1>12. \A x \in Watchable \ (K \ R) : watches'.path[x] = NoPath
  BY <1>3, <1>10 DEF AllKnown
<1>13. ASSUME NEW x \in Watchable \ (K \ R), Clean(P[x], excluded') PROVE ToBeRead(x, place, m_paths', toRead')
  <2>1. Clean(P[x], excluded) /\ ~IsPrefix(path, P[x])
    BY <1>1, <1>13 DEF Clean
  <2>2. x \notin K
    BY <1>7, <1>8, <1>13, <2>1
  <2>3. P[x] \in Seq(Names)
    BY <2>1, PathIsNames DEF Clean, Watchable, Ids, Inodes
  <2>4. ASSUME NEW p \in Seq(Names), IsPrefix(p, P[x]) PROVE ~IsPrefix(path, p)
    BY <1>5, <2>1, <2>3, <2>4, PrefixOfPrefix
  <2>5. ASSUME NEW p \in m_paths, IsPrefix(p, P[x]) PROVE p \in m_paths'
    <3>1. p \in Seq(Names)
      BY DEF TypeOK
    <3> QED BY <1>1, <1>6, <2>4, <2>5, <3>1
  <2>6. ASSUME NEW p \in toRead, IsPrefix(p, P[x]) PROVE p \in toRead'
    <3>1. p \in Seq(Names)
      BY DEF TypeOK, toRead, Walks
    <3> QED BY <1>9, <2>4, <2>6, <3>1
  <2>7. ToBeRead(x, place, m_paths, toRead)
    BY <1>3, <2>1, <2>2 DEF AllKnown
  <2> QED BY <2>5, <2>6, <2>7 DEF ToBeRead
<1>14. Calm'
  <2>1. AllKnown(watches'.kernel, watches'.path, place, excluded', m_paths', toRead')
    BY <1>10, <1>11, <1>12, <1>13 DEF AllKnown
  <2> QED BY <1>1, <1>2, <2>1, CalmNow
<1>15. Stands(excluded', place)
  <2>1. PICK i \in Folders \cup {Home} : P[i] = path
    BY <1>1, <1>5 DEF foldersAt, At
  <2>2. i # Home /\ i \in Ids /\ P[i] # NoPath
    BY <1>5, <2>1, PathEquation DEF path, Ids, Inodes
  <2>3. StepUp(place, i)
    BY <2>2, StepsUp
  <2> DEFINE up == place[i][1]
  <2>4. /\ place[i] = <<up, place[i][2]>> /\ up \in Ids /\ place[i][2] \in Names
        /\ P[up] # NoPath /\ P[up] \in Seq(Names) /\ path = Append(P[up], place[i][2])
    BY <2>1, <2>2, <2>3 DEF StepUp
  <2> HIDE DEF up
  <2>5. P[up] = <<>> /\ place[i][2] = n
    <3>1. path = Append(<<>>, n) /\ <<>> \in Seq(Names)
      BY DEF path
    <3> DEFINE x == place[i][2]
               s == P[up]
               t == <<>>
    <3>2. s \in Seq(Names) /\ x \in Names /\ t \in Seq(Names) /\ Append(s, x) = Append(t, n)
      BY <2>4, <3>1
    <3> HIDE DEF s, t, x
    <3>3. s = t /\ x = n
      BY <3>2, AppendedSame
    <3> QED BY <3>3 DEF s, t, x
  <2>6. up = Home
    <3>1. P[Home] = <<>> /\ Home \in Ids
      BY PathEquation DEF Ids
    <3> QED BY <2>4, <2>5, <3>1, PathsAreDistinct DEF SoundTree
  <2>7. place[i] = <<Home, n>> /\ i \in Folders
    BY <2>1, <2>2, <2>4, <2>5, <2>6
  <2> QED BY <1>1, <1>4, <2>7 DEF Stands, path
<1> QED BY <1>1, <1>2, <1>4, <1>10, <1>14, <1>15 DEF Followed, Phase

-----------------------------------------------------------------------------
(* The events. *)

LEMMA QueueTyped ==
  ASSUME TypeOK
  PROVE  /\ queue \in Seq(AllEvents) /\ watches.kernel \subseteq Watchable
         /\ watches.path \in [Watchable -> {NoPath} \cup Seq(Names)]
         /\ excluded \subseteq Seq(Names) /\ place \in Trees
BY DEF TypeOK, AllEvents, Trees

\* An event of a folder that is watched under some path names one.
LEMMA PathIsKnown ==
  ASSUME TypeOK, NEW n \in DOMAIN queue, queue[n].event \in {"Create", "Modify", "Delete", "MoveFrom", "MoveTo"},
         watches.path[queue[n].wd] # NoPath
  PROVE  /\ queue[n] \in Events /\ pathOf(queue[n]) = namedBy(n)
         /\ namedBy(n) \in Seq(Names) /\ namedBy(n) # NoPath
<1>1. queue[n] \in Events
  BY QueueTyped, EventIs DEF Kinds
<1>2. queue[n].wd \in Watchable /\ queue[n].name \in Names /\ watches.path[queue[n].wd] \in Seq(Names)
  BY <1>1, QueueTyped DEF Events
<1>3. queue[n] # Overflow
  BY DEF Overflow
<1>4. namedBy(n) \in Seq(Names) /\ namedBy(n) # NoPath
  <2>1. Append(watches.path[queue[n].wd], queue[n].name) \in Seq(Names)
    BY <1>2, AppendedIsLonger
  <2>2. NoPath \notin Seq(Names)
    BY ConstantsAssumption
  <2> QED BY <2>1, <2>2 DEF namedBy
<1>5. queue[n].event # "DeleteSelf"
  OBVIOUS
<1>6. pathOf(queue[n]) = namedBy(n)
  BY <1>3, <1>5 DEF pathOf, namedBy
<1> QED BY <1>1, <1>4, <1>6

LEMMA HeadOfMove ==
  ASSUME TypeOK, NEW i \in Folders
  PROVE  /\ MovingSoon(i) \/ LeavingSoon(i) =>
              /\ 1 \in DOMAIN queue /\ queue # <<>> /\ IsOfFolder(queue[1], "MoveFrom")
              /\ pathOf(queue[1]) = namedBy(1) /\ namedBy(1) # NoPath /\ namedBy(1) \in Seq(Names)
         /\ MovingNext(i) =>
              /\ 1 \in DOMAIN queue /\ queue # <<>> /\ IsOfFolder(queue[1], "MoveTo")
              /\ pathOf(queue[1]) = namedBy(1) /\ namedBy(1) # NoPath /\ namedBy(1) \in Seq(Names)
              /\ firstHalf(queue[1]) = cookies /\ cookies # {}
<1>0. queue \in Seq(AllEvents)
  BY QueueTyped
<1>1. ASSUME MovingSoon(i) \/ LeavingSoon(i) PROVE 1 \in DOMAIN queue /\ queue # <<>> /\ IsOfFolder(queue[1], "MoveFrom")
  <2>1. CASE MovingSoon(i)
    <3>1. 2 \in DOMAIN queue
      BY <2>1 DEF MovingSoon, Moving
    <3>2. 1 \in DOMAIN queue /\ queue # <<>>
      BY <1>0, <3>1
    <3> QED BY <2>1, <3>2 DEF MovingSoon
  <2>2. CASE LeavingSoon(i)
    <3>1. Len(queue) = 1
      BY <2>2 DEF LeavingSoon
    <3>2. 1 \in DOMAIN queue /\ queue # <<>>
      BY <1>0, <3>1
    <3> QED BY <2>2, <3>2 DEF LeavingSoon
  <2> QED BY <1>1, <2>1, <2>2
<1>2. MovingSoon(i) \/ LeavingSoon(i) => watches.path[queue[1].wd] # NoPath
  BY DEF MovingSoon, LeavingSoon
<1>3. ASSUME MovingNext(i)
      PROVE  /\ 1 \in DOMAIN queue /\ queue # <<>> /\ IsOfFolder(queue[1], "MoveTo")
             /\ watches.path[queue[1].wd] # NoPath
             /\ firstHalf(queue[1]) = cookies /\ cookies # {}
  <2>1. 1 \in DOMAIN queue /\ IsOfFolder(queue[1], "MoveTo") /\ watches.path[queue[1].wd] # NoPath
    BY <1>3 DEF MovingNext, Moving
  <2>2. cookies = {[cookie |-> queue[1].cookie, path |-> watches.path[i], isDir |-> TRUE]}
    BY <1>3 DEF MovingNext
  <2>3. firstHalf(queue[1]) = cookies /\ cookies # {}
    BY <2>2 DEF firstHalf
  <2>4. queue # <<>>
    BY <2>1
  <2> QED BY <2>1, <2>3, <2>4
<1>4. \A k : IsOfFolder(queue[1], k) => queue[1].event = k
  BY DEF IsOfFolder
<1> QED BY <1>1, <1>2, <1>3, <1>4, PathIsKnown

LEMMA CalmPopped ==
  ASSUME TypeOK, Calm, queue # <<>>, ~Walking, Aside(Head(queue)), queue' = Tail(queue),
         watches'.kernel = watches.kernel, watches'.path = watches.path,
         UNCHANGED <<place, excluded, m_paths, m_dirIter>>, \A c \in cookies' : ~c.isDir
  PROVE  Calm'
<1>1. queue \in Seq(AllEvents) /\ watches.kernel \subseteq Watchable
  BY QueueTyped
<1>2. Sound(watches.kernel, watches.path, place, Tail(queue), excluded, m_paths, toRead)
  BY <1>1, SoundPopped DEF Calm, SoundNow
<1>3. \A n \in DOMAIN Tail(queue) : ~IsMoveOfFolder(Tail(queue)[n])
  <2>1. \A n \in DOMAIN Tail(queue) : n + 1 \in DOMAIN queue /\ Tail(queue)[n] = queue[n + 1]
    BY <1>1, Tailed
  <2> QED BY <2>1 DEF Calm
<1>4. toRead' = toRead /\ ParentsToo(watches.kernel, place)
  BY DEF toRead, Calm, SoundNow
<1> QED BY <1>2, <1>3, <1>4 DEF Calm, SoundNow

\* Something is told, and no folder is under way, when the head is none of a move.
LEMMA CalmWhenTold ==
  ASSUME TypeOK, Followed, queue # <<>>, Head(queue).event \notin {"MoveFrom", "MoveTo"} \/ pathOf(Head(queue)) = NoPath
  PROVE  Calm /\ ~Walking
<1>1. Head(queue) = queue[1]
  BY QueueTyped, Tailed
<1>2. ASSUME NEW i \in Folders, MovingSoon(i) \/ MovingNext(i) \/ LeavingSoon(i) PROVE FALSE
  BY <1>1, <1>2, HeadOfMove DEF IsOfFolder
<1>3. \A i \in Folders : ~LeavingNext(i)
  BY DEF LeavingNext
<1> QED BY <1>2, <1>3 DEF Followed, Phase

\* The path of a new folder is known.
LEMMA NewFolderIsTold ==
  ASSUME TypeOK, Calm, queue # <<>>, IsOfFolder(Head(queue), "Create")
  PROVE  pathOf(Head(queue)) = namedBy(1) /\ namedBy(1) \in Seq(Names) /\ namedBy(1) # NoPath
<1>1. Head(queue) = queue[1] /\ 1 \in DOMAIN queue
  BY QueueTyped, Tailed
<1>2. queue[1].wd \in watches.kernel
  BY <1>1 DEF Calm, SoundNow, Sound, CreationsAreTrue
<1>3. watches.path[queue[1].wd] # NoPath
  BY <1>2 DEF Calm, SoundNow, Sound, WatchedRightly, Clean
<1> QED BY <1>1, <1>3, PathIsKnown DEF IsOfFolder

LEMMA FollowsIgnore ==
  ASSUME TypeOK, Followed, ignore
  PROVE  Followed'
<1>1. queue # <<>> /\ pathOf(Head(queue)) = NoPath /\ Head(queue).event # "DeleteSelf"
  BY DEF ignore, NextEvent
<1>2. Calm /\ ~Walking
  BY <1>1, CalmWhenTold
<1>3. Aside(Head(queue))
  BY <1>1, <1>2, NewFolderIsTold DEF Aside
<1>4. /\ UNCHANGED <<place, excluded, m_paths, m_dirIter, watches, m_dirWatch, cookies>>
      /\ queue' = Tail(queue)
  BY DEF ignore, Handled, fileSystem, settings
<1>5. Calm'
  <2>1. \A c \in cookies' : ~c.isDir
    BY <1>2, <1>4 DEF Calm
  <2> QED BY <1>1, <1>2, <1>3, <1>4, <2>1, CalmPopped
<1> QED BY <1>2, <1>4, <1>5 DEF Followed, Phase, Walking

LEMMA FollowsModify ==
  ASSUME TypeOK, Followed, eventModify
  PROVE  Followed'
<1>1. queue # <<>> /\ Head(queue).event = "Modify"
  BY DEF eventModify, NextEvent
<1>2. Calm /\ ~Walking
  BY <1>1, CalmWhenTold
<1>3. Aside(Head(queue))
  BY <1>1 DEF Aside, IsOfFolder
<1>4. /\ UNCHANGED <<place, excluded, m_paths, m_dirIter, watches, m_dirWatch, cookies>>
      /\ queue' = Tail(queue)
  BY DEF eventModify, Handled, fileSystem, settings
<1>5. Calm'
  <2>1. \A c \in cookies' : ~c.isDir
    BY <1>2, <1>4 DEF Calm
  <2> QED BY <1>1, <1>2, <1>3, <1>4, <2>1, CalmPopped
<1> QED BY <1>2, <1>4, <1>5 DEF Followed, Phase, Walking

LEMMA FollowsDelete ==
  ASSUME TypeOK, Followed, eventDelete
  PROVE  Followed'
<1>1. queue # <<>> /\ Head(queue).event \in {"Delete", "DeleteSelf"}
  BY DEF eventDelete, NextEvent
<1>2. Calm /\ ~Walking
  BY <1>1, CalmWhenTold
<1>4. /\ UNCHANGED <<place, excluded, m_paths, m_dirIter, m_dirWatch, cookies>>
      /\ queue' = Tail(queue)
  BY DEF eventDelete, Handled, fileSystem, settings
<1>c. \A c \in cookies' : ~c.isDir
  BY <1>2, <1>4 DEF Calm
<1>5. CASE Head(queue).event = "Delete"
  <2>1. Aside(Head(queue)) /\ watches' = watches
    BY <1>5 DEF Aside, IsOfFolder, eventDelete
  <2>2. Calm'
    BY <1>1, <1>2, <1>4, <1>c, <2>1, CalmPopped
  <2> QED BY <1>2, <1>4, <2>1, <2>2 DEF Followed, Phase, Walking
<1>6. CASE Head(queue).event = "DeleteSelf"
  <2> DEFINE i == Head(queue).wd
             K == watches.kernel
             T == watches.path
  <2>0. queue \in Seq(AllEvents) /\ K \subseteq Watchable /\ T \in [Watchable -> {NoPath} \cup Seq(Names)]
    BY QueueTyped
  <2>1. watches' = removeWatches(watches, {i})
    BY <1>6 DEF eventDelete
  <2>2. i \in Watchable
    <3>1. Head(queue) = queue[1] /\ 1 \in DOMAIN queue
      BY <1>1, <2>0, Tailed
    <3>2. queue[1] \in Events
      BY <1>6, <2>0, <3>1, EventIs DEF Kinds
    <3> QED BY <3>1, <3>2 DEF Events
  <2> DEFINE U == watches'.path
  <2>3. \A x \in Watchable : U[x] = IF x = i THEN NoPath ELSE T[x]
    <3>1. \A x \in Watchable : removeWatches(watches, {i}).path[x] = IF x \in {i} THEN NoPath ELSE T[x]
      BY <2>2, RemovedWatches
    <3> QED BY <2>1, <3>1
  <2>4. Sound(K, T, place, queue, excluded, {}, {}) /\ ParentsToo(K, place)
    <3>1. m_paths = {} /\ toRead = {}
      BY <1>2 DEF Walking, toRead
    <3> QED BY <1>2, <3>1 DEF Calm, SoundNow
  <2> HIDE DEF i, U, T, K
  <2>5. i \notin K /\ Sound(K, U, place, Tail(queue), excluded, {}, {})
    BY <1>1, <1>6, <2>0, <2>2, <2>3, <2>4, SoundForgotten DEF i
  <2>6. watches'.kernel = K
    BY <2>1, <2>5 DEF removeWatches, K
  <2>7. Tables(watches')
    BY <2>1, <2>2, TablesRemoved DEF Followed
  <2>8. toRead' = {} /\ m_paths' = {}
    BY <1>2, <1>4 DEF Walking, toRead
  <2>9. \A n \in DOMAIN Tail(queue) : ~IsMoveOfFolder(Tail(queue)[n])
    <3>1. \A n \in DOMAIN Tail(queue) : n + 1 \in DOMAIN queue /\ Tail(queue)[n] = queue[n + 1]
      BY <1>1, <2>0, Tailed
    <3> QED BY <1>2, <3>1 DEF Calm
  <2>10. Calm'
    BY <1>4, <1>c, <2>4, <2>5, <2>6, <2>8, <2>9 DEF Calm, SoundNow, U
  <2> QED BY <1>2, <1>4, <2>7, <2>10 DEF Followed, Phase, Walking
<1> QED BY <1>1, <1>5, <1>6

\* Nothing is watched where nothing is found.
LEMMA NothingAdded ==
  ASSUME TypeOK, Tables(watches), Distinct(place), watches' = addWatches(watches, {})
  PROVE  Tables(watches') /\ watches'.kernel = watches.kernel /\ watches'.path = watches.path
<1>1. Tables(addWatches(watches, {}))
  BY TablesAdded
<1>2. watches'.kernel = watches.kernel
  BY DEF addWatches
<1>3. watches'.path = watches.path
  BY DEF addWatches, TypeOK
<1> QED BY <1>1, <1>2, <1>3

LEMMA FollowsMovedIn ==
  ASSUME TypeOK, SoundTree(place), Followed, eventMovedIn
  PROVE  Followed'
<1> DEFINE e == Head(queue)
<1>1. /\ queue # <<>> /\ e.event = "MoveTo" /\ pathOf(e) # NoPath /\ firstHalf(e) = {}
      /\ created(pathOf(e), e.isDir)
      /\ UNCHANGED cookies /\ Handled
  BY DEF eventMovedIn, NextEvent
<1>2. e = queue[1] /\ 1 \in DOMAIN queue
  BY <1>1, QueueTyped, Tailed
<1>3. ~IsMoveOfFolder(e) /\ Calm
  <2>1. ASSUME NEW i \in Folders, MovingSoon(i) \/ LeavingSoon(i) PROVE FALSE
    BY <1>1, <1>2, <2>1, HeadOfMove DEF IsOfFolder
  <2>2. ASSUME NEW i \in Folders, MovingNext(i) PROVE FALSE
    BY <1>1, <1>2, <2>2, HeadOfMove
  <2>3. \A i \in Folders : ~LeavingNext(i)
    BY <1>1 DEF LeavingNext
  <2>4. Calm
    BY <2>1, <2>2, <2>3 DEF Followed, Phase
  <2> QED BY <1>2, <2>4 DEF Calm
<1>4. ~e.isDir /\ Aside(e)
  BY <1>1, <1>3 DEF IsMoveOfFolder, IsOfFolder, Aside
<1>5. watches' = addWatches(watches, {}) /\ queue' = Tail(queue) /\ UNCHANGED m_dirWatch
  BY <1>1, <1>4 DEF created, found
<1>6. Tables(watches') /\ watches'.kernel = watches.kernel /\ watches'.path = watches.path
  BY <1>5, NothingAdded DEF Followed, SoundTree
<1>7. UNCHANGED <<place, excluded, m_paths, m_dirIter>> /\ ~Walking
  BY <1>1 DEF Handled, fileSystem, settings, Followed
<1>8. Calm'
  <2>1. \A c \in cookies' : ~c.isDir
    BY <1>1, <1>3 DEF Calm
  <2> QED BY <1>1, <1>3, <1>4, <1>5, <1>6, <1>7, <2>1, CalmPopped
<1> QED BY <1>1, <1>5, <1>6, <1>7, <1>8 DEF Followed, Phase, Walking

LEMMA FollowsCreate ==
  ASSUME TypeOK, SoundTree(place), Followed, eventCreate
  PROVE  Followed'
<1> DEFINE e == Head(queue)
           K == watches.kernel
           T == watches.path
           P == pathsIn(place)
<1>1. /\ queue # <<>> /\ e.event = "Create" /\ pathOf(e) # NoPath
      /\ created(pathOf(e), e.isDir)
      /\ UNCHANGED cookies /\ Handled
  BY DEF eventCreate, NextEvent
<1>2. Calm /\ ~Walking
  BY <1>1, CalmWhenTold
<1>3. /\ UNCHANGED <<place, excluded, m_paths, m_dirIter, m_dirWatch, cookies>>
      /\ queue' = Tail(queue)
  BY <1>1 DEF created, Handled, fileSystem, settings
<1>c. \A c \in cookies' : ~c.isDir
  BY <1>2, <1>3 DEF Calm
<1>4. CASE ~e.isDir
  <2>1. Aside(e)
    BY <1>1, <1>4 DEF IsOfFolder, Aside
  <2>2. watches' = addWatches(watches, {})
    BY <1>1, <1>4 DEF created, found
  <2>3. Tables(watches') /\ watches'.kernel = watches.kernel /\ watches'.path = watches.path
    BY <2>2, NothingAdded DEF Followed, SoundTree
  <2>4. Calm'
    BY <1>1, <1>2, <1>3, <1>c, <2>1, <2>3, CalmPopped
  <2> QED BY <1>2, <1>3, <2>3, <2>4 DEF Followed, Phase, Walking
<1>5. CASE e.isDir
  <2> DEFINE p == namedBy(1)
             F == Found(K, place, p, excluded)
             U == watches'.path
  <2>0. /\ queue \in Seq(AllEvents) /\ K \subseteq Watchable /\ T \in [Watchable -> {NoPath} \cup Seq(Names)]
        /\ excluded \subseteq Seq(Names) /\ place \in Trees
    BY QueueTyped
  <2>1. e = queue[1] /\ IsOfFolder(e, "Create")
    BY <1>1, <1>5, <2>0, Tailed DEF IsOfFolder
  <2>2. pathOf(e) = p /\ p \in Seq(Names) /\ p # NoPath
    BY <1>1, <1>2, <2>1, NewFolderIsTold
  <2>3. Tables(watches) /\ Stands(excluded, place)
    BY DEF Followed
  <2>4. foundIn(p) \cap Folders = F
    <3>1. shouldBeIndexed(p) <=> Clean(p, excluded)
      BY <2>2, <2>3, IndexedIsClean
    <3>2. ASSUME NEW x \in Folders, P[x] # NoPath
          PROVE  P[x] \in Seq(Names) /\ (shouldBeIndexed(P[x]) <=> Clean(P[x], excluded))
      <4>1. P[x] \in Seq(Names)
        BY <3>2, PathIsNames DEF Ids, Inodes
      <4> QED BY <2>3, <4>1, IndexedIsClean
    <3>3. ASSUME NEW x \in F PROVE shouldBeIndexed(p) /\ x \in Folders /\ P[x] # NoPath
      <4>1. x \in Folders /\ Clean(P[x], excluded) /\ IsPrefix(p, P[x]) /\ P[x] # NoPath
        BY DEF Found, Clean
      <4>2. P[x] \in Seq(Names)
        BY <3>2, <4>1
      <4>3. Clean(p, excluded)
        BY <2>0, <2>2, <4>1, <4>2, CleanAbove
      <4> QED BY <3>1, <4>1, <4>3
    <3>4. ASSUME NEW x \in foundIn(p) \cap Folders PROVE x \in F
      BY <3>2, <3>4 DEF foundIn, Found
    <3>5. ASSUME NEW x \in F PROVE x \in foundIn(p) \cap Folders
      BY <3>2, <3>3, <3>5 DEF foundIn, Found, Inodes
    <3> QED BY <3>4, <3>5
  <2>5. watches' = addWatches(watches, F)
    BY <1>1, <1>5, <2>2, <2>4 DEF created, found
  <2>6. F \in SUBSET Watchable
    BY DEF Found, Watchable
  <2>7. \A x \in Watchable : U[x] = IF x \in F THEN P[x] ELSE T[x]
    <3>1. \A x \in Watchable : addWatches(watches, F).path[x] = IF x \in F THEN pathsIn(place)[x] ELSE watches.path[x]
      BY <2>6, AddedWatches
    <3> QED BY <2>5, <3>1
  <2>8. Sound(K, T, place, queue, excluded, {}, {}) /\ ParentsToo(K, place)
    <3>1. m_paths = {} /\ toRead = {}
      BY <1>2 DEF Walking, toRead
    <3> QED BY <1>2, <3>1 DEF Calm, SoundNow
  <2>9. p = Append(T[e.wd], e.name)
    BY <2>1 DEF namedBy
  <2>10. watches'.kernel = K \cup F
    BY <2>5 DEF addWatches
  <2> HIDE DEF F, p, U, K, T
  <2>11. /\ Sound(K \cup F, U, place, Tail(queue), excluded, {}, {}) /\ ParentsToo(K \cup F, place)
         /\ \A x \in F : x \in Folders /\ T[x] = NoPath /\ pathsIn(place)[x] # NoPath
         /\ \A x \in F, j \in Watchable : T[j] # pathsIn(place)[x]
    <3>1. F = Found(K, place, p, excluded)
      BY DEF F
    <3>2. WithPaths(U, T, F, place)
      BY <2>7 DEF WithPaths
    <3>3. SoundTree(place) /\ queue # <<>> /\ IsOfFolder(Head(queue), "Create")
          /\ p = Append(T[Head(queue).wd], Head(queue).name)
      BY <1>1, <2>1, <2>9
    <3>4. LookedInto(K, T, place, queue, excluded, F, U)
      BY <2>0, <2>8, <3>1, <3>2, <3>3, SoundLooked
    <3> QED BY <3>4 DEF LookedInto
  <2>12. Tables(watches')
    <3>1. \A i \in F : watches.path[i] \in {NoPath, pathsIn(place)[i]}
      BY <2>11 DEF T
    <3>2. \A i \in F, j \in Watchable : watches.path[j] = pathsIn(place)[i] => j = i
      BY <2>11 DEF T
    <3> QED BY <2>3, <2>5, <2>6, <2>11, <3>1, <3>2, TablesAdded DEF SoundTree
  <2>13. toRead' = {} /\ m_paths' = {}
    BY <1>2, <1>3 DEF Walking, toRead
  <2>14. \A n \in DOMAIN Tail(queue) : ~IsMoveOfFolder(Tail(queue)[n])
    <3>1. \A n \in DOMAIN Tail(queue) : n + 1 \in DOMAIN queue /\ Tail(queue)[n] = queue[n + 1]
      BY <1>1, <2>0, Tailed
    <3> QED BY <1>2, <3>1 DEF Calm
  <2>15. Calm'
    BY <1>3, <1>c, <2>10, <2>11, <2>13, <2>14 DEF Calm, SoundNow, U
  <2> QED BY <1>2, <1>3, <2>12, <2>15 DEF Followed, Phase, Walking
<1> QED BY <1>4, <1>5

LEMMA FollowsExpire ==
  ASSUME TypeOK, SoundTree(place), Followed, expireCookie, disturbed' = {}
  PROVE  Followed'
<1>1. PICK c \in cookies : /\ ~InQueue("MoveTo", c.cookie)
                           /\ removeWatch(c.path, c.isDir)
                           /\ cookies' = cookies \ {c} /\ lostWith(c.path, c.isDir) = {}
  BY DEF expireCookie
<1>2. UNCHANGED <<place, excluded, m_dirWatch, queue>>
  BY DEF expireCookie, fileSystem, settings
<1>3. ~Walking /\ m_paths = {} /\ m_dirIter = NoPath
  BY <1>1 DEF Followed, Walking
<1>4. m_paths' = {} /\ m_dirIter' = NoPath /\ toRead = {} /\ toRead' = {}
  BY <1>1, <1>3 DEF removeWatch, toRead
<1>5. watches' = removeWatches(watches, watchesAt(c.path, c.isDir))
  BY <1>1 DEF removeWatch
<1>6. watchesAt(c.path, c.isDir) \in SUBSET Watchable /\ Tables(watches')
  BY <1>5, WatchesAt, TablesRemoved DEF Followed
<1>7. CASE Calm
  <2>1. ~c.isDir
    BY <1>1, <1>7 DEF Calm
  <2>2. watchesAt(c.path, c.isDir) = {}
    BY <1>1, <2>1 DEF lostWith
  <2>3. watches'.kernel = watches.kernel /\ watches'.path = watches.path
    BY <1>5, <2>2 DEF removeWatches, TypeOK
  <2>4. \A d \in cookies' : ~d.isDir
    BY <1>1, <1>7 DEF Calm
  <2>5. Calm'
    BY <1>2, <1>3, <1>4, <1>7, <2>3, <2>4 DEF Calm, SoundNow, Walking
  <2> QED BY <1>2, <1>4, <1>6, <2>5 DEF Followed, Phase, Walking
<1>8. ASSUME NEW i \in Folders, MovingSoon(i) \/ LeavingSoon(i) PROVE FALSE
  BY <1>1, <1>8 DEF MovingSoon, LeavingSoon
<1>9. ASSUME NEW i \in Folders, MovingNext(i) PROVE FALSE
  <2>1. c.cookie = queue[1].cookie /\ 1 \in DOMAIN queue /\ queue[1].event = "MoveTo"
    BY <1>1, <1>9 DEF MovingNext, Moving, IsOfFolder
  <2> QED BY <1>1, <2>1 DEF InQueue
<1>10. ASSUME NEW i \in Folders, LeavingNext(i) PROVE Followed'
  <2> DEFINE K == watches.kernel
             T == watches.path
  <2>1. c.path = T[i] /\ c.isDir = TRUE /\ cookies' = {} /\ queue = <<>>
    <3>1. PICK k \in Nat : cookies = {[cookie |-> k, path |-> T[i], isDir |-> TRUE]}
      BY <1>10 DEF LeavingNext
    <3>2. c = [cookie |-> k, path |-> T[i], isDir |-> TRUE]
      BY <1>1, <3>1
    <3>3. cookies' = {}
      BY <1>1, <3>1
    <3> QED BY <1>10, <3>2, <3>3 DEF LeavingNext
  <2>2. watchesAt(c.path, c.isDir) = {i}
    <3>1. /\ T[i] # NoPath /\ \A j \in Watchable \ {i} : T[j] # NoPath => ~IsPrefix(T[i], T[j])
      BY <1>10 DEF LeavingNext, Leaving
    <3>2. T \in [Watchable -> {NoPath} \cup Seq(Names)] /\ i \in Watchable
      BY QueueTyped DEF Watchable
    <3>3. IsPrefix(T[i], T[i])
      BY <3>1, <3>2, PrefixOrder
    <3> HIDE DEF T
    <3>4. \A j : startsWith(T[j], T[i], TRUE) <=> IsPrefix(T[i], T[j])
      BY DEF startsWith
    <3>5. watchesAt(T[i], TRUE) = {j \in Watchable : T[j] # NoPath /\ IsPrefix(T[i], T[j])}
      BY <3>2, <3>4 DEF watchesAt, T
    <3>6. {j \in Watchable : T[j] # NoPath /\ IsPrefix(T[i], T[j])} = {i}
      BY <3>1, <3>2, <3>3
    <3> QED BY <2>1, <3>5, <3>6
  <2>3. watches'.kernel = K \ {i} /\ watches'.path = [T EXCEPT ![i] = NoPath]
    <3>1. T \in [Watchable -> {NoPath} \cup Seq(Names)] /\ i \in Watchable
      BY QueueTyped DEF Watchable
    <3>2. watches'.path = [j \in Watchable |-> IF j \in {i} THEN NoPath ELSE T[j]]
      BY <1>5, <2>2, <3>1 DEF removeWatches
    <3> QED BY <1>5, <2>2, <3>1, <3>2 DEF removeWatches
  <2>4. SoundNow(K \ {i}, [T EXCEPT ![i] = NoPath])
    BY <1>10 DEF LeavingNext, Leaving
  <2>5. Calm'
    BY <1>2, <1>3, <1>4, <2>1, <2>3, <2>4 DEF Calm, SoundNow, Walking
  <2> QED BY <1>2, <1>4, <1>6, <2>5 DEF Followed, Phase, Walking
<1> QED BY <1>7, <1>8, <1>9, <1>10 DEF Followed, Phase

\* What follows the first half of a move, when it is read
LEMMA FollowsMoveFrom ==
  ASSUME TypeOK, Followed, eventMoveFrom
  PROVE  Followed'
<1> DEFINE e == Head(queue)
           K == watches.kernel
           T == watches.path
<1>1. /\ queue # <<>> /\ e.event = "MoveFrom" /\ pathOf(e) # NoPath
      /\ cookies' = cookies \cup {[cookie |-> e.cookie, path |-> pathOf(e), isDir |-> e.isDir]}
      /\ queue' = Tail(queue) /\ UNCHANGED <<watches, m_dirWatch>> /\ Handled
  BY DEF eventMoveFrom, NextEvent
<1>2. UNCHANGED <<place, excluded, m_paths, m_dirIter, changes>> /\ ~Walking
  BY <1>1 DEF Handled, fileSystem, settings, Followed
<1>3. /\ queue \in Seq(AllEvents) /\ K \subseteq Watchable /\ T \in [Watchable -> {NoPath} \cup Seq(Names)]
      /\ excluded \subseteq Seq(Names)
  BY QueueTyped
<1>4. /\ e = queue[1] /\ 1 \in DOMAIN queue
      /\ \A n \in DOMAIN Tail(queue) : n \in Nat /\ n >= 1 /\ n + 1 \in DOMAIN queue /\ Tail(queue)[n] = queue[n + 1]
      /\ \A n \in DOMAIN queue : n \in Nat /\ (n # 1 => n - 1 \in DOMAIN Tail(queue) /\ Tail(queue)[n - 1] = queue[n])
  BY <1>1, <1>3, Tailed
<1>5. Aside(e)
  BY <1>1 DEF Aside, IsOfFolder
<1>6. toRead = {} /\ toRead' = {} /\ m_paths = {} /\ m_paths' = {} /\ ~Walking'
  BY <1>2 DEF toRead, Walking
<1>7. ASSUME NEW L, L \subseteq Watchable, NEW U, SoundNow(L, U)
      PROVE  Sound(L, U, place', queue', excluded', m_paths', toRead') /\ ParentsToo(L, place')
  <2>1. Sound(L, U, place, queue, excluded, {}, {}) /\ ParentsToo(L, place)
    BY <1>2, <1>6, <1>7 DEF SoundNow
  <2>2. Sound(L, U, place, Tail(queue), excluded, {}, {})
    BY <1>1, <1>3, <1>5, <1>7, <2>1, SoundPopped
  <2> QED BY <1>1, <1>2, <1>6, <2>1, <2>2
<1>8. SUFFICES Phase'
  BY <1>1, <1>2, <1>6 DEF Followed
<1>9. CASE Calm
  <2>1. ~e.isDir
    BY <1>1, <1>4, <1>9 DEF Calm, IsMoveOfFolder, IsOfFolder
  <2>2. \A c \in cookies' : ~c.isDir
    BY <1>1, <1>9, <2>1 DEF Calm
  <2>3. Calm'
    BY <1>1, <1>2, <1>5, <1>9, <2>2, CalmPopped
  <2> QED BY <2>3 DEF Phase
<1>10. ASSUME NEW i \in Folders, MovingNext(i) PROVE FALSE
  BY <1>1, <1>4, <1>10, HeadOfMove DEF IsOfFolder
<1>11. ASSUME NEW i \in Folders, LeavingNext(i) PROVE FALSE
  BY <1>1, <1>11 DEF LeavingNext
<1>12. ASSUME NEW i \in Folders, MovingSoon(i) \/ LeavingSoon(i)
       PROVE  cookies' = {[cookie |-> queue[1].cookie, path |-> T[i], isDir |-> TRUE]}
  <2>1. cookies = {} /\ T[i] = namedBy(1)
    BY <1>12 DEF MovingSoon, LeavingSoon
  <2>2. pathOf(e) = namedBy(1) /\ IsOfFolder(e, "MoveFrom")
    BY <1>4, <1>12, HeadOfMove
  <2>3. e.isDir = TRUE
    <3>1. e \in Events
      BY <1>1, <1>3, <1>4, EventIs DEF Kinds
    <3>2. e.isDir \in BOOLEAN
      BY <3>1 DEF Events
    <3> QED BY <2>2, <3>2 DEF IsOfFolder
  <2>4. e.cookie = queue[1].cookie
    BY <1>4
  <2> QED BY <1>1, <2>1, <2>2, <2>3, <2>4
<1>13. ASSUME NEW i \in Folders, MovingSoon(i) PROVE MovingNext(i)'
  <2>1. Moving(i, 2) /\ queue[1].cookie = queue[2].cookie
    BY <1>13 DEF MovingSoon
  <2>2. queue'[1] = queue[2] /\ 1 \in DOMAIN queue' /\ 2 \in DOMAIN queue
    <3>1. 2 \in DOMAIN queue
      BY <2>1 DEF Moving
    <3>2. 2 - 1 \in DOMAIN Tail(queue) /\ Tail(queue)[2 - 1] = queue[2]
      BY <1>4, <3>1
    <3> QED BY <1>1, <3>1, <3>2
  <2>3. namedBy(1)' = namedBy(2)
    BY <1>1, <2>2 DEF namedBy
  <2>4. \A m \in DOMAIN queue' : IsMoveOfFolder(queue'[m]) => m <= 1
    <3> SUFFICES ASSUME NEW m \in DOMAIN Tail(queue), IsMoveOfFolder(Tail(queue)[m]) PROVE m <= 1
      BY <1>1
    <3>1. m \in Nat /\ m + 1 \in DOMAIN queue /\ IsMoveOfFolder(queue[m + 1])
      BY <1>4
    <3>2. m + 1 <= 2
      BY <2>1, <3>1 DEF Moving
    <3> QED BY <3>1, <3>2
  <2>5. SoundNow(K, [T EXCEPT ![i] = namedBy(2)])
    BY <2>1 DEF Moving
  <2>6. SoundNow(watches.kernel, [watches.path EXCEPT ![i] = namedBy(1)])'
    <3>1. Sound(K, [T EXCEPT ![i] = namedBy(2)], place', queue', excluded', m_paths', toRead') /\ ParentsToo(K, place')
      BY <1>3, <1>7, <2>5
    <3> QED BY <1>1, <2>3, <3>1 DEF SoundNow
  <2>7. IsOfFolder(queue'[1], "MoveTo") /\ T[queue'[1].wd] # NoPath /\ T[i] # NoPath
        /\ \A j \in Watchable : T[j] # namedBy(1)'
    BY <2>1, <2>2, <2>3 DEF Moving
  <2>8. cookies' = {[cookie |-> queue'[1].cookie, path |-> T[i], isDir |-> TRUE]}
    BY <1>12, <1>13, <2>1, <2>2
  <2>9. Moving(i, 1)'
    BY <1>1, <2>2, <2>4, <2>6, <2>7 DEF Moving
  <2> QED BY <1>1, <2>8, <2>9 DEF MovingNext
<1>14. ASSUME NEW i \in Folders, LeavingSoon(i) PROVE LeavingNext(i)'
  <2>1. queue' = <<>>
    <3>1. Len(queue) = 1
      BY <1>14 DEF LeavingSoon
    <3> QED BY <1>1, <1>3, <3>1
  <2>2. queue[1].cookie \in Nat
    <3>1. e \in Events
      BY <1>1, <1>3, <1>4, EventIs DEF Kinds
    <3> QED BY <1>4, <3>1 DEF Events
  <2>3. Leaving(i)
    BY <1>14 DEF LeavingSoon
  <2>4. SoundNow(watches.kernel \ {i}, [watches.path EXCEPT ![i] = NoPath])'
    <3>1. SoundNow(K \ {i}, [T EXCEPT ![i] = NoPath]) /\ K \ {i} \subseteq Watchable
      BY <1>3, <2>3 DEF Leaving
    <3>2. /\ Sound(K \ {i}, [T EXCEPT ![i] = NoPath], place', queue', excluded', m_paths', toRead')
          /\ ParentsToo(K \ {i}, place')
      BY <1>7, <3>1
    <3> QED BY <1>1, <3>2 DEF SoundNow
  <2>5. Leaving(i)'
    BY <1>1, <2>3, <2>4 DEF Leaving
  <2>6. cookies' = {[cookie |-> queue[1].cookie, path |-> watches'.path[i], isDir |-> TRUE]}
    BY <1>1, <1>12, <1>14
  <2> QED BY <2>1, <2>2, <2>5, <2>6 DEF LeavingNext
<1> QED BY <1>9, <1>10, <1>11, <1>13, <1>14 DEF Followed, Phase

LEMMA FollowsMoved ==
  ASSUME TypeOK, Followed, eventMoved
  PROVE  Followed'
<1> DEFINE e == Head(queue)
           K == watches.kernel
           T == watches.path
<1>1. /\ queue # <<>> /\ e.event = "MoveTo" /\ pathOf(e) # NoPath
      /\ cookies' = cookies \ firstHalf(e)
      /\ queue' = Tail(queue) /\ UNCHANGED m_dirWatch /\ Handled
  BY DEF eventMoved, NextEvent
<1>2. PICK c \in firstHalf(e) :
        watches' = IF e.isDir /\ watchedAs(c.path) # {}
                   THEN movedWatch(watches, c.path, CHOOSE i \in watchedAs(c.path) : TRUE, pathOf(e))
                   ELSE watches
  BY DEF eventMoved
<1>3. UNCHANGED <<place, excluded, m_paths, m_dirIter>> /\ ~Walking /\ Tables(watches)
  BY <1>1 DEF Handled, fileSystem, settings, Followed
<1>4. /\ queue \in Seq(AllEvents) /\ K \subseteq Watchable /\ T \in [Watchable -> {NoPath} \cup Seq(Names)]
  BY QueueTyped
<1>5. /\ e = queue[1] /\ 1 \in DOMAIN queue
      /\ \A n \in DOMAIN Tail(queue) : n \in Nat /\ n >= 1 /\ n + 1 \in DOMAIN queue /\ Tail(queue)[n] = queue[n + 1]
  BY <1>1, <1>4, Tailed
<1>6. Aside(e)
  BY <1>1 DEF Aside, IsOfFolder
<1>7. toRead = {} /\ toRead' = {} /\ m_paths = {} /\ m_paths' = {} /\ ~Walking'
  BY <1>3 DEF toRead, Walking
<1>8. SUFFICES Tables(watches') /\ Calm'
  BY <1>1, <1>3, <1>7 DEF Followed, Phase
<1>9. CASE Calm
  <2>1. ~e.isDir
    BY <1>1, <1>5, <1>9 DEF Calm, IsMoveOfFolder, IsOfFolder
  <2>2. \A d \in cookies' : ~d.isDir
    BY <1>1, <1>9 DEF Calm
  <2>3. watches' = watches
    BY <1>2, <2>1
  <2>4. Calm'
    BY <1>1, <1>3, <1>6, <1>9, <2>2, <2>3, CalmPopped
  <2> QED BY <1>3, <2>3, <2>4
<1>10. ASSUME NEW i \in Folders, MovingSoon(i) \/ LeavingSoon(i) PROVE FALSE
  BY <1>1, <1>5, <1>10, HeadOfMove DEF IsOfFolder
<1>11. ASSUME NEW i \in Folders, LeavingNext(i) PROVE FALSE
  BY <1>1, <1>11 DEF LeavingNext
<1>12. ASSUME NEW i \in Folders, MovingNext(i) PROVE Tables(watches') /\ Calm'
  <2> DEFINE to == namedBy(1)
  <2>1. /\ IsOfFolder(e, "MoveTo") /\ pathOf(e) = to /\ to # NoPath /\ to \in Seq(Names)
        /\ firstHalf(e) = cookies
    BY <1>5, <1>12, HeadOfMove
  <2>2. cookies = {[cookie |-> queue[1].cookie, path |-> T[i], isDir |-> TRUE]} /\ Moving(i, 1)
    BY <1>12 DEF MovingNext
  <2>3. c.path = T[i] /\ T[i] # NoPath
    BY <1>2, <2>1, <2>2 DEF Moving
  <2>4. watchedAs(T[i]) = {i}
    <3>1. watchedAs(T[i]) = {j \in Watchable : T[j] = T[i]}
      BY <1>3, <1>4, <2>3, WatchedAs
    <3>2. i \in Watchable /\ \A x, y \in Watchable : T[x] # NoPath /\ T[x] = T[y] => x = y
      BY <1>3 DEF Tables, Watchable
    <3> QED BY <2>3, <3>1, <3>2
  <2>5. watches' = movedWatch(watches, T[i], i, to)
    BY <1>2, <2>1, <2>3, <2>4 DEF IsOfFolder
  <2>6. i \in Watchable /\ \A j \in Watchable : T[j] # to
    BY <2>2 DEF Moving, Watchable
  <2> HIDE DEF to
  <2>7. Tables(watches')
    BY <1>3, <2>1, <2>3, <2>5, <2>6, TablesMoved
  <2>8. watches'.kernel = K /\ watches'.path = [T EXCEPT ![i] = to]
    BY <2>5 DEF movedWatch, insertWatch, TypeOK
  <2>9. Sound(K, [T EXCEPT ![i] = to], place, queue, excluded, {}, {}) /\ ParentsToo(K, place)
    BY <1>3, <1>7, <2>2 DEF Moving, SoundNow, to
  <2>10. Sound(K, [T EXCEPT ![i] = to], place, Tail(queue), excluded, {}, {})
    BY <1>1, <1>4, <1>6, <2>9, SoundPopped
  <2>11. \A n \in DOMAIN Tail(queue) : ~IsMoveOfFolder(Tail(queue)[n])
    <3> SUFFICES ASSUME NEW n \in DOMAIN Tail(queue), IsMoveOfFolder(Tail(queue)[n]) PROVE FALSE
      OBVIOUS
    <3>1. n \in Nat /\ n >= 1 /\ n + 1 \in DOMAIN queue /\ IsMoveOfFolder(queue[n + 1])
      BY <1>5
    <3>2. n + 1 <= 1
      BY <2>2, <3>1 DEF Moving
    <3> QED BY <3>1, <3>2
  <2>12. cookies' = {}
    BY <1>1, <2>1
  <2>13. SoundNow(watches.kernel, watches.path)'
    BY <1>1, <1>3, <1>7, <2>8, <2>9, <2>10 DEF SoundNow
  <2>14. Calm'
    BY <1>1, <2>11, <2>12, <2>13 DEF Calm
  <2> QED BY <2>7, <2>14
<1> QED BY <1>9, <1>10, <1>11, <1>12 DEF Followed, Phase

LEMMA FollowsWatcher ==
  ASSUME TypeOK, TypeOK', WatchInv, Watcher, disturbed = {}, disturbed' = {}
  PROVE  WatchInv'
<1>1. SoundTree(place) /\ Followed
  BY DEF WatchInv
<1>2. ~reachLimit
  BY DEF reachLimit
<1>3. place' = place
  <2>1. CASE nextWalk \/ addNextWatches \/ expireCookie
    BY <2>1 DEF nextWalk, addNextWatches, expireCookie, fileSystem
  <2>2. CASE Handled
    BY <2>2 DEF Handled, fileSystem
  <2>3. ignore \/ eventCreate \/ eventModify \/ eventDelete \/ eventMoveFrom \/ eventMoved \/ eventMovedIn
          => Handled
    BY DEF ignore, eventCreate, eventModify, eventDelete, eventMoveFrom, eventMoved, eventMovedIn
  <2> QED BY <1>2, <2>1, <2>2, <2>3 DEF Watcher
<1>4. Followed'
  BY <1>1, <1>2, FollowsNextWalk, FollowsAddNext, FollowsIgnore, FollowsCreate, FollowsModify, FollowsDelete,
     FollowsMoveFrom, FollowsMoved, FollowsMovedIn, FollowsExpire DEF Watcher
<1> QED BY <1>1, <1>3, <1>4 DEF WatchInv

LEMMA FollowsUnchanged ==
  ASSUME WatchInv, UNCHANGED <<fileSystem, queue, kinotify, excluded>>, disturbed' = {} => disturbed = {}
  PROVE  WatchInv'
<1>1. UNCHANGED <<place, changes, queue, m_dirWatch, watches, m_paths, m_dirIter, cookies, excluded>>
  BY DEF fileSystem, kinotify
<1>2. toRead' = toRead /\ Walking' = Walking
  BY <1>1 DEF toRead, Walking
<1>3. SoundTree(place')
  BY <1>1 DEF WatchInv
<1>4. ASSUME NEW K, NEW T PROVE SoundNow(K, T) => Sound(K, T, place', queue', excluded', m_paths', toRead')
                                   /\ (Walking' \/ ParentsToo(K, place'))
  BY <1>1, <1>2 DEF SoundNow
<1>5. ASSUME Phase PROVE Phase'
  <2>1. ASSUME Calm PROVE Calm'
    BY <1>1, <1>2, <2>1 DEF Calm, SoundNow
  <2>2. ASSUME NEW i \in Folders, NEW n, Moving(i, n) PROVE Moving(i, n)'
    BY <1>1, <1>2, <2>2 DEF Moving, SoundNow, namedBy
  <2>3. ASSUME NEW i \in Folders, Leaving(i) PROVE Leaving(i)'
    BY <1>1, <1>2, <2>3 DEF Leaving, SoundNow
  <2>4. \A n : namedBy(n)' = namedBy(n)
    BY <1>1 DEF namedBy
  <2>5. ASSUME NEW i \in Folders PROVE (MovingSoon(i) => MovingSoon(i)') /\ (MovingNext(i) => MovingNext(i)')
    BY <1>1, <2>2, <2>4 DEF MovingSoon, MovingNext
  <2>6. ASSUME NEW i \in Folders PROVE (LeavingSoon(i) => LeavingSoon(i)') /\ (LeavingNext(i) => LeavingNext(i)')
    BY <1>1, <2>3, <2>4 DEF LeavingSoon, LeavingNext
  <2> QED BY <1>5, <2>1, <2>5, <2>6 DEF Phase
<1>6. ASSUME Followed PROVE Followed'
  <2>1. Tables(watches') /\ Stands(excluded', place')
    BY <1>1, <1>6 DEF Followed
  <2>2. Walking' => queue' = <<>> /\ cookies' = {}
    BY <1>1, <1>6 DEF Followed, Walking
  <2>3. Phase'
    BY <1>5, <1>6 DEF Followed
  <2> QED BY <1>1, <1>6, <2>1, <2>2, <2>3 DEF Followed
<1> QED BY <1>3, <1>6 DEF WatchInv

-----------------------------------------------------------------------------
(* The user's changes. *)

\* Changes after which nothing is lost come when no walk goes on, and are told all.
LEMMA NotifiedQuietly ==
  ASSUME TypeOK, NEW es \in Seq(Events), NEW causes, Notify(es, causes), disturbed' = {}
  PROVE  /\ queue' = queue \o es /\ causes = {} /\ ~Walking /\ ~HalfMoved
         /\ queue \o es \in Seq(AllEvents) /\ es \in Seq(AllEvents)
<1>1. causes = {} /\ ~Walking /\ ~HalfMoved /\ Overflow \notin Range(queue') /\ queue' = queued(es)
  BY DEF Notify
<1>2. es \in Seq(AllEvents) /\ queue \in Seq(AllEvents)
  BY QueueTyped DEF AllEvents
<1>3. queue \o es \in Seq(AllEvents)
  BY <1>2
<1>4. Len(queue \o es) <= QueueLimit
  <2> SUFFICES ASSUME ~(Len(queue \o es) <= QueueLimit) PROVE FALSE
    OBVIOUS
  <2> DEFINE s == SubSeq(queue \o es, 1, QueueLimit)
  <2>1. queue' = Append(s, Overflow)
    BY <1>1 DEF queued
  <2>2. s \in Seq(AllEvents)
    <3>1. QueueLimit \in Nat /\ QueueLimit <= Len(queue \o es)
      BY <1>3, ConstantsAssumption
    <3> QED BY <1>3, <3>1
  <2> HIDE DEF s
  <2>3. Append(s, Overflow)[Len(s) + 1] = Overflow /\ Len(s) + 1 \in DOMAIN Append(s, Overflow)
    BY <2>2 DEF AllEvents
  <2> QED BY <1>1, <2>1, <2>3 DEF Range
<1>5. queue' = queue \o es
  BY <1>1, <1>4 DEF queued
<1> QED BY <1>1, <1>2, <1>3, <1>5

\* A folder that leaves is a move that is not followed.
LEMMA LeavingIsHalfMoved ==
  ASSUME TypeOK, NEW i \in Folders, LeavingSoon(i) \/ LeavingNext(i)
  PROVE  HalfMoved
<1>1. CASE LeavingNext(i)
  <2>1. queue = <<>> /\ cookies # {}
    BY <1>1 DEF LeavingNext
  <2> QED BY <2>1 DEF HalfMoved, InQueue
<1>2. CASE LeavingSoon(i)
  <2>1. Len(queue) = 1 /\ queue[1].event = "MoveFrom" /\ queue[1].cookie \in 1..changes
    BY <1>2 DEF LeavingSoon, IsOfFolder
  <2>2. DOMAIN queue = {1}
    BY <2>1, QueueTyped
  <2> QED BY <2>1, <2>2 DEF HalfMoved, InQueue
<1> QED BY <1>1, <1>2

LEMMA PhaseExtended ==
  ASSUME TypeOK, Followed, ~Walking, ~HalfMoved, NEW es \in Seq(AllEvents), queue' = queue \o es,
         \A m \in DOMAIN es : ~IsMoveOfFolder(es[m]),
         watches'.path = watches.path, UNCHANGED <<m_paths, m_dirIter, cookies, excluded>>,
         \A T : Sound(watches.kernel, T, place, queue, excluded, {}, {}) /\ ParentsToo(watches.kernel, place)
                  => /\ Sound(watches'.kernel, T, place', queue \o es, excluded, {}, {})
                     /\ ParentsToo(watches'.kernel, place')
  PROVE  Phase'
<1>1. m_paths = {} /\ toRead = {} /\ m_paths' = {} /\ toRead' = {}
  BY DEF Walking, toRead
<1>2. ASSUME NEW T, SoundNow(watches.kernel, T)
      PROVE  /\ Sound(watches'.kernel, T, place', queue', excluded', m_paths', toRead')
             /\ ParentsToo(watches'.kernel, place')
  <2>1. Sound(watches.kernel, T, place, queue, excluded, {}, {}) /\ ParentsToo(watches.kernel, place)
    BY <1>1, <1>2 DEF SoundNow
  <2> QED BY <1>1, <2>1
<1>3. queue \in Seq(AllEvents)
  BY QueueTyped
<1>4. /\ \A n \in DOMAIN queue : n \in DOMAIN queue' /\ queue'[n] = queue[n]
      /\ \A n \in DOMAIN queue' : IsMoveOfFolder(queue'[n]) => n \in DOMAIN queue /\ queue'[n] = queue[n]
  <2>1. \A n \in DOMAIN queue : n \in DOMAIN queue' /\ queue'[n] = queue[n]
    BY <1>3, Grown
  <2>2. ASSUME NEW n \in DOMAIN queue', IsMoveOfFolder(queue'[n]) PROVE n \in DOMAIN queue
    <3>1. n \in DOMAIN queue \/ (n - Len(queue) \in DOMAIN es /\ (queue \o es)[n] = es[n - Len(queue)])
      BY <1>3, Grown
    <3> QED BY <2>2, <3>1
  <2> QED BY <2>1, <2>2
<1>5. CASE Calm
  <2>1. \A n \in DOMAIN queue' : ~IsMoveOfFolder(queue'[n])
    BY <1>4, <1>5 DEF Calm
  <2>2. /\ Sound(watches'.kernel, watches'.path, place', queue', excluded', m_paths', toRead')
        /\ ParentsToo(watches'.kernel, place')
    BY <1>2, <1>5 DEF Calm
  <2>3. Calm'
    BY <1>5, <2>1, <2>2 DEF Calm, SoundNow
  <2> QED BY <2>3 DEF Phase
<1>6. ASSUME NEW i \in Folders, NEW n, Moving(i, n) PROVE Moving(i, n)' /\ namedBy(n)' = namedBy(n)
  <2>1. n \in DOMAIN queue /\ queue'[n] = queue[n] /\ n \in DOMAIN queue'
    BY <1>4, <1>6 DEF Moving
  <2>2. namedBy(n)' = namedBy(n)
    BY <2>1 DEF namedBy
  <2>3. \A m \in DOMAIN queue' : IsMoveOfFolder(queue'[m]) => m <= n
    BY <1>4, <1>6 DEF Moving
  <2>4. SoundNow(watches.kernel, [watches.path EXCEPT ![i] = namedBy(n)])
    BY <1>6 DEF Moving
  <2>5. /\ Sound(watches'.kernel, [watches.path EXCEPT ![i] = namedBy(n)], place', queue', excluded', m_paths', toRead')
        /\ ParentsToo(watches'.kernel, place')
    BY <1>2, <2>4
  <2>6. SoundNow(watches.kernel, [watches.path EXCEPT ![i] = namedBy(n)])'
    BY <2>2, <2>5 DEF SoundNow
  <2>7. /\ IsOfFolder(queue'[n], "MoveTo") /\ watches'.path[queue'[n].wd] # NoPath /\ watches'.path[i] # NoPath
        /\ \A j \in Watchable : watches'.path[j] # namedBy(n)'
    BY <1>6, <2>1, <2>2 DEF Moving
  <2> QED BY <2>1, <2>2, <2>3, <2>6, <2>7 DEF Moving
<1>7. ASSUME NEW i \in Folders, MovingNext(i) PROVE MovingNext(i)'
  <2>1. Moving(i, 1) /\ cookies = {[cookie |-> queue[1].cookie, path |-> watches.path[i], isDir |-> TRUE]}
    BY <1>7 DEF MovingNext
  <2>2. 1 \in DOMAIN queue
    BY <2>1 DEF Moving
  <2>3. queue'[1] = queue[1]
    BY <1>4, <2>2
  <2>4. Moving(i, 1)'
    BY <1>6, <2>1
  <2> QED BY <2>1, <2>3, <2>4 DEF MovingNext
<1>8. ASSUME NEW i \in Folders, MovingSoon(i) PROVE MovingSoon(i)'
  <2>1. /\ cookies = {} /\ Moving(i, 2) /\ IsOfFolder(queue[1], "MoveFrom") /\ watches.path[queue[1].wd] # NoPath
        /\ queue[1].cookie = queue[2].cookie /\ watches.path[i] = namedBy(1)
    BY <1>8 DEF MovingSoon
  <2>2. 1 \in DOMAIN queue /\ 2 \in DOMAIN queue
    BY <1>3, <2>1 DEF Moving
  <2>3. queue'[1] = queue[1] /\ queue'[2] = queue[2]
    BY <1>4, <2>2
  <2>4. namedBy(1)' = namedBy(1)
    BY <2>3 DEF namedBy
  <2>5. Moving(i, 2)'
    BY <1>6, <2>1
  <2> QED BY <2>1, <2>3, <2>4, <2>5 DEF MovingSoon
<1> QED BY <1>5, <1>7, <1>8, LeavingIsHalfMoved DEF Phase, Followed

LEMMA StandsStay ==
  ASSUME NEW S, NEW t, NEW u, Stands(S, t),
         \A j \in Folders, n \in Names : <<n>> \in S /\ t[j] = <<Home, n>> => u[j] = t[j]
  PROVE  Stands(S, u)
<1> SUFFICES ASSUME NEW p \in S PROVE \E i \in Folders, n \in Names : p = <<n>> /\ u[i] = <<Home, n>>
  BY DEF Stands
<1>1. PICK i \in Folders, n \in Names : p = <<n>> /\ t[i] = <<Home, n>>
  BY DEF Stands
<1> QED BY <1>1

LEMMA InHome == \A n \in Names : <<Home, n>> \in Places
BY DEF Places, Parents

\* No excluded folder is watched.
LEMMA ExcludedNotWatched ==
  ASSUME NEW K, K \subseteq Watchable, NEW T, NEW t, NEW S, S \subseteq Seq(Names), WatchedRightly(K, T, t, S),
         NEW i \in Folders, NEW n \in Names, <<n>> \in S, t[i] = <<Home, n>>
  PROVE  i \notin K
<1> SUFFICES ASSUME i \in K PROVE FALSE
  OBVIOUS
<1>1. i \in Inodes /\ t[i] \in Places /\ t[i][1] = Home /\ t[i][2] = n
  BY InHome DEF Inodes
<1>2. pathsIn(t)[Home] = <<>> /\ <<>> # NoPath
  <2>1. <<>> \in Seq(Names) /\ NoPath \notin Seq(Names)
    BY ConstantsAssumption
  <2> QED BY <2>1, PathEquation
<1>3. pathsIn(t)[i] = Append(<<>>, n)
  <2>1. pathsIn(t)[i] = IF pathsIn(t)[t[i][1]] = NoPath THEN NoPath ELSE Append(pathsIn(t)[t[i][1]], t[i][2])
    BY <1>1, PathEquation
  <2> QED BY <1>1, <1>2, <2>1
<1>4. IsPrefix(<<n>>, <<n>>)
  BY PrefixOrder
<1>5. Append(<<>>, n) = <<n>>
  OBVIOUS
<1>6. Clean(<<n>>, S)
  BY <1>3, <1>5 DEF WatchedRightly
<1> QED BY <1>4, <1>6 DEF Clean

\* What the kernel tells of a change of files
LEMMA FilesChanged ==
  ASSUME TypeOK, TypeOK', SoundTree(place'), Followed, NEW es \in Seq(Events), NEW causes, Notify(es, causes), disturbed' = {},
         UNCHANGED <<m_dirWatch, m_paths, m_dirIter, cookies, excluded, watches>>,
         \A i \in Folders : place'[i] = place[i], \A m \in DOMAIN es : ~es[m].isDir /\ es[m].event # "DeleteSelf"
  PROVE  WatchInv'
<1>1. queue' = queue \o es /\ ~Walking /\ ~HalfMoved /\ es \in Seq(AllEvents) /\ queue \o es \in Seq(AllEvents)
  BY NotifiedQuietly
<1>2. queue \in Seq(AllEvents) /\ watches.kernel \subseteq Watchable
  BY QueueTyped
<1>3. \A m \in DOMAIN es : Aside(es[m]) /\ ~IsMoveOfFolder(es[m])
  BY DEF Aside, IsMoveOfFolder, IsOfFolder
<1>4. ASSUME NEW T, Sound(watches.kernel, T, place, queue, excluded, {}, {}), ParentsToo(watches.kernel, place)
      PROVE  /\ Sound(watches'.kernel, T, place', queue \o es, excluded, {}, {})
             /\ ParentsToo(watches'.kernel, place')
  <2>1. Sound(watches.kernel, T, place', queue \o es, excluded, {}, {})
    BY <1>1, <1>2, <1>3, <1>4, SoundGrown
  <2>2. ParentsToo(watches.kernel, place')
    BY <1>4 DEF ParentsToo
  <2> QED BY <2>1, <2>2
<1>5. Phase'
  <2>1. watches'.path = watches.path
    OBVIOUS
  <2> QED BY <1>1, <1>3, <1>4, <2>1, PhaseExtended
<1>6. Stands(excluded', place')
  BY StandsStay DEF Followed
<1>7. ~Walking'
  BY <1>1 DEF Walking
<1> QED BY <1>5, <1>6, <1>7 DEF WatchInv, Followed

LEMMA TreeCreated ==
  ASSUME TypeOK, SoundTree(place), NEW i \in Inodes, NEW at \in Places, create(i, at)
  PROVE  SoundTree(place') /\ place' = [place EXCEPT ![i] = at] /\ place[i] = Unborn
         /\ (at[1] \in Inodes => place[at[1]] \in Places) /\ \A j \in Inodes : place[j] # at
<1>1. /\ place' = [place EXCEPT ![i] = at] /\ place[i] = Unborn /\ place[i] \notin Places
      /\ at[1] \in Inodes => place[at[1]] \in Places
      /\ \A j \in Inodes : place[j] # at
  BY ConstantsAssumption DEF create, isParent, Free
<1>2. place'[i] = at /\ \A j \in Inodes \ {i} : place'[j] = place[j]
  BY <1>1 DEF TypeOK
<1>3. Distinct(place')
  BY <1>1, <1>2 DEF SoundTree, Distinct
<1>4. ASSUME NEW j \in Inodes, place'[j] \in Places, place'[j][1] \in Inodes PROVE place'[place'[j][1]] \in Places
  <2>1. CASE j = i
    BY <1>1, <1>2, <2>1, <1>4
  <2>2. CASE j # i
    BY <1>1, <1>2, <2>2, <1>4 DEF SoundTree
  <2> QED BY <2>1, <2>2
<1> QED BY <1>1, <1>3, <1>4 DEF SoundTree

LEMMA FollowsMake ==
  ASSUME TypeOK, TypeOK', WatchInv, NEW i \in Inodes, NEW at \in Places, create(i, at), disturbed = {}, disturbed' = {}
  PROVE  WatchInv'
<1> DEFINE e == Event("Create", at[1], at[2], i \in Folders, 0)
           es == heard(e)
           K == watches.kernel
<1>1. SoundTree(place) /\ Followed
  BY DEF WatchInv
<1>2. /\ SoundTree(place') /\ place' = [place EXCEPT ![i] = at] /\ place[i] = Unborn
      /\ at[1] \in Inodes => place[at[1]] \in Places
      /\ \A j \in Inodes : place[j] # at
  BY <1>1, TreeCreated
<1>3. Notify(es, {}) /\ UNCHANGED <<m_dirWatch, m_paths, m_dirIter, cookies, excluded, watches>>
  BY DEF create, kinotify, settings
<1>4. e \in [event : Kinds, wd : Parents, name : Names, isDir : BOOLEAN, cookie : Nat]
  BY DEF Event, Kinds, Places
<1>5. es \in Seq(Events) /\ \A m \in DOMAIN es : es[m] = e
  BY <1>4, Heard
<1>6. /\ e.event = "Create" /\ e.wd = at[1] /\ e.name = at[2] /\ e.isDir = (i \in Folders)
      /\ es = IF at[1] \in K THEN <<e>> ELSE <<>>
  BY DEF Event, heard
<1> HIDE DEF e, es
<1>7. CASE i \notin Folders
  <2>1. \A m \in DOMAIN es : ~es[m].isDir /\ es[m].event # "DeleteSelf"
    BY <1>5, <1>6, <1>7
  <2>2. \A j \in Folders : place'[j] = place[j]
    BY <1>2, <1>7 DEF TypeOK, Inodes
  <2> QED BY <1>1, <1>2, <1>3, <1>5, <2>1, <2>2, FilesChanged
<1>8. CASE i \in Folders
  <2>1. queue' = queue \o es /\ ~Walking /\ ~HalfMoved /\ es \in Seq(AllEvents)
    BY <1>3, <1>5, NotifiedQuietly
  <2>2. /\ queue \in Seq(AllEvents) /\ K \subseteq Watchable /\ place \in Trees
        /\ excluded \subseteq Seq(Names)
    BY QueueTyped
  <2>3. spot(e) = at /\ IsOfFolder(e, "Create")
    BY <1>6, <1>8, PlacesAre DEF spot, IsOfFolder
  <2>4. \A m \in DOMAIN es : ~IsMoveOfFolder(es[m])
    BY <1>5, <1>6 DEF IsMoveOfFolder, IsOfFolder
  <2>5. ASSUME NEW T, Sound(K, T, place, queue, excluded, {}, {}), ParentsToo(K, place)
        PROVE  /\ Sound(watches'.kernel, T, place', queue \o es, excluded, {}, {})
               /\ ParentsToo(watches'.kernel, place')
    <3>1. Sound(K, T, place', queue \o es, excluded, {}, {})
      BY <1>1, <1>2, <1>6, <1>8, <2>1, <2>2, <2>3, <2>5, SoundMade
    <3>2. i \notin K
      <4>1. place[i] \notin Places
        BY <1>2, ConstantsAssumption
      <4>2. pathsIn(place)[i] = NoPath
        BY <4>1, PathEquation
      <4> QED BY <2>5, <4>2 DEF Sound, WatchedRightly, Clean
    <3>3. ParentsToo(K, place')
      <4>1. \A x \in Inodes \ {i} : place'[x] = place[x]
        BY <1>2, <2>2 DEF Trees
      <4> QED BY <2>5, <3>2, <4>1 DEF ParentsToo, Inodes
    <3> QED BY <1>3, <3>1, <3>3
  <2>6. Phase'
    <3>1. watches'.path = watches.path
      BY <1>3
    <3> QED BY <1>1, <1>3, <2>1, <2>4, <2>5, <3>1, PhaseExtended
  <2>7. Stands(excluded', place')
    <3>1. \A j \in Folders, n \in Names : place[j] = <<Home, n>> => place'[j] = place[j]
      <4>1. place[i] \notin Places
        BY <1>2, ConstantsAssumption
      <4>2. \A j \in Folders : j # i => place'[j] = place[j]
        BY <1>2, <2>2 DEF Trees, Inodes
      <4> QED BY <4>1, <4>2, InHome
    <3> QED BY <1>1, <1>3, <3>1, StandsStay DEF Followed
  <2>8. ~Walking'
    BY <1>3, <2>1 DEF Walking
  <2> QED BY <1>1, <1>2, <1>3, <2>6, <2>7, <2>8 DEF WatchInv, Followed
<1> QED BY <1>7, <1>8

LEMMA TreeRemoved ==
  ASSUME TypeOK, SoundTree(place), NEW i \in Inodes, remove(i)
  PROVE  SoundTree(place') /\ place' = [place EXCEPT ![i] = Gone]
         /\ place[i] \in Places /\ \A j \in Inodes : place[j] \in Places => place[j][1] # i
<1>1. /\ place' = [place EXCEPT ![i] = Gone] /\ place[i] \in Places
      /\ \A j \in Inodes : place[j] \notin {i} \X Names /\ Gone \notin Places
  BY ConstantsAssumption DEF remove
<1>2. \A j \in Inodes : place[j] \in Places => place[j][1] # i
  BY <1>1 DEF Places
<1>3. place'[i] = Gone /\ \A j \in Inodes \ {i} : place'[j] = place[j]
  BY <1>1 DEF TypeOK
<1>4. Distinct(place')
  BY <1>1, <1>3 DEF SoundTree, Distinct
<1>5. ASSUME NEW j \in Inodes, place'[j] \in Places, place'[j][1] \in Inodes PROVE place'[place'[j][1]] \in Places
  <2>1. j # i
    BY <1>1, <1>3, <1>5
  <2> QED BY <1>2, <1>3, <1>5, <2>1 DEF SoundTree
<1> QED BY <1>1, <1>2, <1>4, <1>5 DEF SoundTree

LEMMA FollowsRemove ==
  ASSUME TypeOK, TypeOK', WatchInv, NEW i \in Inodes, remove(i), disturbed = {}, disturbed' = {}
  PROVE  WatchInv'
<1> DEFINE K == watches.kernel
<1>1. SoundTree(place) /\ Followed
  BY DEF WatchInv
<1>2. /\ SoundTree(place') /\ place' = [place EXCEPT ![i] = Gone] /\ place[i] \in Places
      /\ \A j \in Inodes : place[j] \in Places => place[j][1] # i
  BY <1>1, TreeRemoved
<1>3. UNCHANGED <<m_dirWatch, m_paths, m_dirIter, cookies, excluded>> /\ watches' = [watches EXCEPT !.kernel = K \ {i}]
  BY DEF remove, settings
<1>4. place[i][1] \in Parents /\ place[i][2] \in Names
  BY <1>2 DEF Places
<1>5. /\ queue \in Seq(AllEvents) /\ K \subseteq Watchable /\ place \in Trees
      /\ excluded \subseteq Seq(Names)
  BY QueueTyped
<1>6. CASE i \notin Folders
  <2> DEFINE e == Event("Delete", place[i][1], place[i][2], FALSE, 0)
  <2>1. Notify(heard(e), {})
    BY <1>6 DEF remove
  <2>2. e \in [event : Kinds, wd : Parents, name : Names, isDir : BOOLEAN, cookie : Nat]
    BY <1>4 DEF Event, Kinds
  <2>3. heard(e) \in Seq(Events) /\ \A m \in DOMAIN heard(e) : heard(e)[m] = e
    BY <2>2, Heard
  <2>4. ~e.isDir /\ e.event # "DeleteSelf"
    BY DEF Event
  <2> HIDE DEF e
  <2>5. \A j \in Folders : place'[j] = place[j]
    BY <1>2, <1>5, <1>6 DEF Trees, Inodes
  <2>6. watches' = watches
    <3>1. K \ {i} = K
      <4>1. i \notin Watchable
        BY <1>6, ConstantsAssumption DEF Watchable
      <4> QED BY <1>5, <4>1
    <3> QED BY <1>3, <3>1 DEF TypeOK
  <2> QED BY <1>1, <1>2, <1>3, <2>1, <2>3, <2>4, <2>5, <2>6, FilesChanged
<1>7. CASE i \in Folders
  <2> DEFINE e == Event("DeleteSelf", i, place[i][2], TRUE, 0)
  <2>1. Notify(heard(e), IF i \in Folders \ K THEN {"notYetWatched"} ELSE {})
    BY <1>7 DEF remove
  <2>2. i \in K
    <3>1. (IF i \in Folders \ K THEN {"notYetWatched"} ELSE {}) \subseteq disturbed'
      BY <2>1 DEF Notify
    <3> QED BY <1>7, <3>1
  <2>3. e \in Events /\ e.event = "DeleteSelf" /\ e.wd = i /\ heard(e) = <<e>>
    BY <1>4, <1>5, <2>2 DEF Event, Events, Kinds, heard
  <2> HIDE DEF e
  <2>4. queue' = queue \o <<e>> /\ ~Walking /\ ~HalfMoved /\ <<e>> \in Seq(AllEvents)
    <3>1. <<e>> \in Seq(Events)
      BY <2>3
    <3> QED BY <2>1, <2>3, <3>1, NotifiedQuietly
  <2>5. watches'.kernel = K \ {i} /\ watches'.path = watches.path /\ watches'.wd = watches.wd
    BY <1>3 DEF TypeOK
  <2>6. \A m \in DOMAIN <<e>> : ~IsMoveOfFolder(<<e>>[m])
    BY <2>3 DEF IsMoveOfFolder, IsOfFolder
  <2>7. ASSUME NEW T, Sound(K, T, place, queue, excluded, {}, {}), ParentsToo(K, place)
        PROVE  /\ Sound(watches'.kernel, T, place', queue \o <<e>>, excluded, {}, {})
               /\ ParentsToo(watches'.kernel, place')
    <3>1. /\ Sound(K \ {i}, T, [place EXCEPT ![i] = Gone], queue \o <<e>>, excluded, {}, {})
          /\ ParentsToo(K \ {i}, [place EXCEPT ![i] = Gone])
      BY <1>1, <1>2, <1>5, <1>7, <2>2, <2>3, <2>7, SoundUnmade
    <3> QED BY <1>2, <2>5, <3>1
  <2>8. Phase'
    BY <1>1, <1>3, <2>4, <2>5, <2>6, <2>7, PhaseExtended
  <2>9. Tables(watches')
    BY <1>1, <2>5 DEF Followed, Tables
  <2>10. Stands(excluded', place')
    <3>1. ASSUME NEW j \in Folders, NEW n \in Names, <<n>> \in excluded, place[j] = <<Home, n>> PROVE place'[j] = place[j]
      <4>1. \E T : WatchedRightly(K, T, place, excluded)
        <5>1. ASSUME NEW k \in Folders, LeavingSoon(k) \/ LeavingNext(k) PROVE FALSE
          BY <2>4, <5>1, LeavingIsHalfMoved
        <5>2. \E T : SoundNow(K, T)
          BY <1>1, <5>1 DEF Followed, Phase, Calm, MovingSoon, MovingNext, Moving
        <5> QED BY <5>2 DEF SoundNow, Sound
      <4>2. j \notin K
        BY <1>5, <3>1, <4>1, ExcludedNotWatched
      <4> QED BY <1>2, <1>5, <2>2, <4>2 DEF Trees, Inodes
    <3> QED BY <1>1, <1>3, <3>1, StandsStay DEF Followed
  <2>11. ~Walking'
    BY <1>3, <2>4 DEF Walking
  <2> QED BY <1>1, <1>2, <1>3, <2>8, <2>9, <2>10, <2>11 DEF WatchInv, Followed
<1> QED BY <1>6, <1>7

LEMMA ChildIsBelow ==
  ASSUME NEW tree, NEW i \in Inodes
  PROVE  i \in below(tree, i) /\ \A j \in Inodes : tree[j] \in Places /\ tree[j][1] = i => j \in below(tree, i)
<1>1. PICK w : AreWithin(tree, i, w, Size) /\ below(tree, i) = w[Size] \cap Inodes
  BY BelowIs
<1>2. Size \in Nat
  BY SizeIsNat
<1>3. Size # 0
  <2>1. IsFiniteSet(Inodes) /\ Inodes # {}
    BY ConstantsAssumption
  <2> QED BY <2>1, FS_EmptySet DEF Size
<1>4. Size \in 0..Size /\ Size - 1 \in 0..Size
  BY <1>2, <1>3
<1>5. w[Size] = farther(tree, i, w[Size - 1])
  BY <1>1, <1>3, <1>4 DEF AreWithin
<1>6. ASSUME NEW n \in 0..Size PROVE i \in w[n]
  <2>1. w[n] = IF n = 0 THEN {i} ELSE farther(tree, i, w[n - 1])
    BY <1>1 DEF AreWithin
  <2> QED BY <2>1 DEF farther
<1>7. i \in w[Size] /\ i \in w[Size - 1]
  BY <1>4, <1>6
<1> QED BY <1>1, <1>5, <1>7 DEF farther

LEMMA TreeRenamed ==
  ASSUME TypeOK, SoundTree(place), NEW i \in Inodes, NEW at \in Places, rename(i, at)
  PROVE  /\ SoundTree(place') /\ place' \in [Inodes -> Places \cup {Unborn, Gone}]
         /\ place[i] \in Places /\ place'[i] = at /\ at # place[i]
         /\ \A j \in Folders \ {i} : place'[j] = place[j]
         /\ i \in Folders => \A j \in Inodes : place[j] # at
         /\ at[1] \notin below(place, i) /\ at[1] # i
<1> DEFINE over == {j \in Inodes : place[j] = at}
<1>1. /\ place[i] \in Places /\ isParent(at[1]) /\ at # place[i]
      /\ at[1] \notin below(place, i) /\ (over # {} => {i} \cup over \subseteq Files)
      /\ place' = [j \in Inodes |-> IF j = i THEN at ELSE IF j \in over THEN Gone ELSE place[j]]
  BY DEF rename
<1>2. at[1] \in Folders \cup {Home, Outside} /\ Gone \notin Places /\ Folders \cap Files = {}
  BY ConstantsAssumption DEF Places, Parents
<1>3. at[1] # i
  BY <1>1, ChildIsBelow
<1>4. place'[i] = at /\ \A j \in Inodes : place'[j] = IF j = i THEN at ELSE IF j \in over THEN Gone ELSE place[j]
  BY <1>1
<1>5. \A j \in Inodes : place[j] = at => j \in over
  OBVIOUS
<1>6. \A j \in Folders \ {i} : place'[j] = place[j]
  BY <1>1, <1>2, <1>4 DEF Inodes
<1>7. \A j \in Inodes : place'[j] \in Places => j = i \/ (place'[j] = place[j] /\ place[j] # at)
  BY <1>2, <1>4
<1>8. i \in Folders => \A j \in Inodes : place[j] # at
  BY <1>1, <1>2
<1> HIDE DEF over
<1>9. Distinct(place')
  BY <1>4, <1>7 DEF SoundTree, Distinct
<1>10. ASSUME NEW j \in Inodes, place'[j] \in Places, place'[j][1] \in Inodes PROVE place'[place'[j][1]] \in Places
  <2> DEFINE a == place'[j][1]
  <2>1. a \in Folders
    BY <1>10, ConstantsAssumption DEF Places, Parents
  <2>2. place[a] \in Places
    BY <1>1, <1>4, <1>7, <1>10 DEF isParent, SoundTree
  <2>3. place'[a] \in Places
    <3>1. CASE a = i
      BY <1>4, <3>1
    <3>2. CASE a # i
      BY <1>6, <2>1, <2>2, <3>2
    <3> QED BY <3>1, <3>2
  <2> QED BY <2>3
<1>11. place' \in [Inodes -> Places \cup {Unborn, Gone}]
  BY <1>1 DEF TypeOK
<1> QED BY <1>1, <1>3, <1>4, <1>6, <1>8, <1>9, <1>10, <1>11 DEF SoundTree

LEMMA FollowsWrite ==
  ASSUME TypeOK, TypeOK', WatchInv, NEW f \in Files, write(f), disturbed = {}, disturbed' = {}
  PROVE  WatchInv'
<1> DEFINE e == Event("Modify", place[f][1], place[f][2], FALSE, 0)
<1>1. SoundTree(place) /\ Followed
  BY DEF WatchInv
<1>2. Notify(heard(e), {}) /\ place[f] \in Places /\ place' = place
      /\ UNCHANGED <<m_dirWatch, m_paths, m_dirIter, cookies, excluded, watches>>
  BY DEF write, kinotify, settings
<1>3. e \in [event : Kinds, wd : Parents, name : Names, isDir : BOOLEAN, cookie : Nat]
  BY <1>2 DEF Event, Kinds, Places
<1>4. heard(e) \in Seq(Events) /\ \A m \in DOMAIN heard(e) : heard(e)[m] = e
  BY <1>3, Heard
<1>5. ~e.isDir /\ e.event # "DeleteSelf"
  BY DEF Event
<1> HIDE DEF e
<1>6. SoundTree(place')
  BY <1>1, <1>2
<1> QED BY <1>1, <1>2, <1>4, <1>5, <1>6, FilesChanged

\* The two halves of a move
LEMMA MoveEvents ==
  ASSUME TypeOK, NEW i \in Inodes, NEW at \in Places, place[i] \in Places, changes' \in Nat,
         NEW from, from = Event("MoveFrom", place[i][1], place[i][2], i \in Folders, changes'),
         NEW to, to = Event("MoveTo", at[1], at[2], i \in Folders, changes')
  PROVE  /\ heard(from) \o heard(to) \in Seq(Events)
         /\ \A m \in DOMAIN (heard(from) \o heard(to)) :
               (heard(from) \o heard(to))[m] \in {from, to}
         /\ Aside(from) /\ Aside(to) /\ from.event # "DeleteSelf" /\ to.event # "DeleteSelf"
         /\ from.isDir = (i \in Folders) /\ to.isDir = (i \in Folders)
         /\ heard(from) = IF place[i][1] \in watches.kernel THEN <<from>> ELSE <<>>
         /\ heard(to) = IF at[1] \in watches.kernel THEN <<to>> ELSE <<>>
<1>1. /\ from \in [event : Kinds, wd : Parents, name : Names, isDir : BOOLEAN, cookie : Nat]
      /\ to \in [event : Kinds, wd : Parents, name : Names, isDir : BOOLEAN, cookie : Nat]
  BY DEF Event, Kinds, Places
<1>2. /\ from.event = "MoveFrom" /\ from.isDir = (i \in Folders) /\ from.wd = place[i][1]
      /\ to.event = "MoveTo" /\ to.isDir = (i \in Folders) /\ to.wd = at[1]
  BY DEF Event
<1>3. heard(from) \in Seq(Events) /\ \A m \in DOMAIN heard(from) : heard(from)[m] = from
  BY <1>1, Heard
<1>4. heard(to) \in Seq(Events) /\ \A m \in DOMAIN heard(to) : heard(to)[m] = to
  BY <1>1, Heard
<1> DEFINE a == heard(from)
           b == heard(to)
<1> HIDE DEF a, b
<1>5. a \in Seq(AllEvents) /\ b \in Seq(AllEvents)
  BY <1>3, <1>4 DEF a, b, AllEvents
<1>6. a \o b \in Seq(Events)
  BY <1>3, <1>4 DEF a, b
<1>7. \A m \in DOMAIN (a \o b) : (a \o b)[m] \in {from, to}
  BY <1>3, <1>4, <1>5, Grown DEF a, b
<1> QED BY <1>2, <1>6, <1>7 DEF a, b, heard, Aside, IsOfFolder

LEMMA FollowsRenameFile ==
  ASSUME TypeOK, TypeOK', WatchInv, NEW i \in Inodes \ Folders, NEW at \in Places, rename(i, at), disturbed' = {}
  PROVE  WatchInv'
<1> DEFINE from == Event("MoveFrom", place[i][1], place[i][2], i \in Folders, changes')
           to   == Event("MoveTo", at[1], at[2], i \in Folders, changes')
           causes == IF keepsUpWithMove(i, at) THEN {} ELSE {"move"}
<1>0. disturbed = {}
  BY DEF rename, Change
<1>1. SoundTree(place) /\ Followed
  BY <1>0 DEF WatchInv
<1>2. /\ SoundTree(place') /\ place[i] \in Places
      /\ \A j \in Folders \ {i} : place'[j] = place[j]
  BY <1>1, TreeRenamed
<1>3. Notify(heard(from) \o heard(to), causes)
      /\ UNCHANGED <<m_dirWatch, m_paths, m_dirIter, cookies, excluded, watches>>
  BY DEF rename, kinotify, settings
<1>4. changes' \in Nat
  BY ConstantsAssumption DEF TypeOK
<1> HIDE DEF causes
<1>5. i \in Inodes /\ i \notin Folders
  OBVIOUS
<1>6. /\ from = Event("MoveFrom", place[i][1], place[i][2], i \in Folders, changes')
      /\ to = Event("MoveTo", at[1], at[2], i \in Folders, changes')
  OBVIOUS
<1> HIDE DEF from, to
<1> DEFINE es == heard(from) \o heard(to)
<1>7. /\ es \in Seq(Events) /\ \A m \in DOMAIN es : es[m] \in {from, to}
      /\ from.event # "DeleteSelf" /\ to.event # "DeleteSelf"
      /\ from.isDir = (i \in Folders) /\ to.isDir = (i \in Folders)
  BY <1>2, <1>4, <1>5, <1>6, MoveEvents
<1>8. Notify(es, causes)
  BY <1>3
<1> HIDE DEF es
<1>9. \A m \in DOMAIN es : ~es[m].isDir /\ es[m].event # "DeleteSelf"
  BY <1>5, <1>7
<1>10. \A j \in Folders : place'[j] = place[j]
  BY <1>2, <1>5
<1> QED BY <1>1, <1>2, <1>3, <1>7, <1>8, <1>9, <1>10, FilesChanged

\* A folder without folders in it that is moved: the paths of the others stay.
Moved(P, R, i, at) ==
  /\ \A x \in Watchable \ {i} : R[x] = P[x]
  /\ R[at[1]] = P[at[1]]
  /\ R[i] = IF P[at[1]] = NoPath THEN NoPath ELSE Append(P[at[1]], at[2])
  /\ P[at[1]] # NoPath => P[at[1]] \in Seq(Names) /\ at[1] \in Watchable

LEMMA PathsMoved ==
  ASSUME TypeOK, SoundTree(place), NEW i \in Folders, NEW at \in Places, rename(i, at),
         below(place, i) \cap Folders = {i}
  PROVE  Moved(pathsIn(place), pathsIn(place'), i, at)
<1> DEFINE P == pathsIn(place)
           R == pathsIn(place')
           S == Folders \ {i}
<1>1. i \in Inodes /\ S \subseteq Inodes
  BY DEF Inodes
<1>2. /\ place'[i] = at /\ \A j \in S : place'[j] = place[j]
      /\ at[1] # i
  BY <1>1, TreeRenamed
<1>3. Closed(place, S)
  <2>1. ASSUME NEW j \in S, place[j] \in Places PROVE place[j][1] \in S \cup {Home, Outside}
    <3>1. j \in Inodes /\ place[j][1] \in Parents
      BY <2>1 DEF Places, Inodes
    <3>2. place[j][1] # i
      <4>1. j \notin below(place, i)
        BY <2>1
      <4> QED BY <1>1, <2>1, <3>1, <4>1, ChildIsBelow
    <3> QED BY <3>1, <3>2 DEF Parents
  <2> QED BY <1>1, <2>1 DEF Closed
<1>4. \A x \in S \cup {Home, Outside} : R[x] = P[x]
  BY <1>2, <1>3, PathsStay
<1>5. at[1] \in S \cup {Home, Outside} /\ at[1] \in Ids
  BY <1>2 DEF Places, Parents, Ids, Inodes
<1>6. R[i] = IF R[at[1]] = NoPath THEN NoPath ELSE Append(R[at[1]], at[2])
  BY <1>1, <1>2, PathEquation
<1>7. P[at[1]] # NoPath => P[at[1]] \in Seq(Names)
  BY <1>5, PathIsNames
<1>8. P[Outside] = NoPath
  BY PathEquation
<1>9. \A x \in Watchable \ {i} : x \in S \cup {Home, Outside}
  BY DEF Watchable
<1>10. at[1] # Outside => at[1] \in Watchable
  BY <1>5 DEF Watchable
<1> HIDE DEF P, R, S
<1>11. Moved(P, R, i, at)
  BY <1>4, <1>5, <1>6, <1>7, <1>8, <1>9, <1>10 DEF Moved
<1> QED BY <1>11 DEF P, R

\* The tables when nothing waits and no walk goes on
LEMMA KnownWhenSettled ==
  ASSUME TypeOK, Followed, Settled, ~Walking
  PROVE  /\ AllKnown(watches.kernel, watches.path, place, excluded, {}, {})
         /\ queue = <<>> /\ cookies = {} /\ watches.kernel \subseteq Watchable /\ excluded \subseteq Seq(Names)
         /\ ParentsToo(watches.kernel, place)
<1>1. queue = <<>> /\ cookies = {} /\ m_paths = {} /\ toRead = {}
  BY DEF Settled, Walking, toRead
<1>2. AllKnown(watches.kernel, watches.path, place, excluded, m_paths, toRead)
  BY <1>1, CalmWhenEmpty
<1>3. watches.kernel \subseteq Watchable /\ excluded \subseteq Seq(Names)
  BY QueueTyped
<1>4. AllKnown(watches.kernel, watches.path, place, excluded, {}, {})
  BY <1>1, <1>2
<1> QED BY <1>1, <1>3, <1>4, ParentsAreToo

\* Of the folders but the moved one all is known as before.
Except(i, T, U, t, u) == \A x \in Watchable \ {i} : pathsIn(u)[x] = pathsIn(t)[x] /\ U[x] = T[x]
LEMMA OthersKnown ==
  ASSUME NEW K, K \subseteq Watchable, NEW T, NEW t, NEW u, NEW S, AllKnown(K, T, t, S, {}, {}),
         NEW i \in K, NEW U, Except(i, T, U, t, u)
  PROVE  /\ Clean(pathsIn(u)[i], S) /\ U[i] = pathsIn(u)[i] => AllKnown(K, U, u, S, {}, {})
         /\ ~Clean(pathsIn(u)[i], S) /\ U[i] = NoPath => AllKnown(K \ {i}, U, u, S, {}, {})
<1>0. \A x \in Watchable \ {i} : pathsIn(u)[x] = pathsIn(t)[x] /\ U[x] = T[x]
  BY DEF Except
<1>1. \A x \in K : T[x] = pathsIn(t)[x] /\ Clean(pathsIn(t)[x], S)
  BY DEF AllKnown, WatchedRightly
<1>2. \A x \in Watchable \ K : T[x] = NoPath /\ ~Clean(pathsIn(t)[x], S)
  BY DEF AllKnown, ToBeRead
<1>3. ASSUME Clean(pathsIn(u)[i], S), U[i] = pathsIn(u)[i] PROVE AllKnown(K, U, u, S, {}, {})
  <2>1. WatchedRightly(K, U, u, S)
    BY <1>0, <1>1, <1>3 DEF WatchedRightly
  <2>2. \A x \in Watchable \ K : U[x] = NoPath /\ ~Clean(pathsIn(u)[x], S)
    BY <1>0, <1>2
  <2> QED BY <2>1, <2>2 DEF AllKnown
<1>4. ASSUME ~Clean(pathsIn(u)[i], S), U[i] = NoPath PROVE AllKnown(K \ {i}, U, u, S, {}, {})
  <2>1. WatchedRightly(K \ {i}, U, u, S)
    BY <1>0, <1>1 DEF WatchedRightly
  <2>2. \A x \in Watchable \ (K \ {i}) : U[x] = NoPath /\ ~Clean(pathsIn(u)[x], S)
    BY <1>0, <1>2, <1>4
  <2> QED BY <2>1, <2>2 DEF AllKnown
<1> QED BY <1>3, <1>4

\* What is known of the folder, and told by the kernel, when it is moved and the
\* watcher keeps up with it
RenamedQuietly(i, at, from, to) ==
  /\ SoundTree(place) /\ SoundTree(place') /\ Followed /\ Tables(watches) /\ m_dirWatch
  /\ UNCHANGED <<m_dirWatch, m_paths, m_dirIter, cookies, excluded, watches>>
  /\ queue' = heard(from) \o heard(to) /\ ~Walking /\ cookies = {} /\ changes' \in Nat /\ changes' \in 1..changes'
  /\ AllKnown(watches.kernel, watches.path, place, excluded, {}, {})
  /\ ParentsToo(watches.kernel, place)
  /\ i \in watches.kernel /\ keepsUpWithMove(i, at) /\ Stands(excluded', place')
  /\ below(place, i) \cap Folders = {i} /\ \A j \in Inodes : place[j] # at
  /\ place[i] \in Places /\ place[i][1] \in watches.kernel /\ watches.kernel \subseteq Watchable
  /\ watches.path \in [Watchable -> {NoPath} \cup Seq(Names)]
  /\ excluded \subseteq Seq(Names)
  /\ Aside(from) /\ Aside(to)
  /\ IsOfFolder(from, "MoveFrom") /\ from.wd = place[i][1] /\ from.name = place[i][2] /\ from.cookie = changes'
  /\ IsOfFolder(to, "MoveTo") /\ to.wd = at[1] /\ to.name = at[2] /\ to.cookie = changes'
  /\ heard(from) = <<from>> /\ heard(to) = IF at[1] \in watches.kernel THEN <<to>> ELSE <<>>
  /\ Moved(pathsIn(place), pathsIn(place'), i, at)

LEMMA RenameIsQuiet ==
  ASSUME TypeOK, TypeOK', WatchInv, NEW i \in Folders, NEW at \in Places, rename(i, at), disturbed' = {},
         NEW from, from = Event("MoveFrom", place[i][1], place[i][2], i \in Folders, changes'),
         NEW to, to = Event("MoveTo", at[1], at[2], i \in Folders, changes')
  PROVE  RenamedQuietly(i, at, from, to)
<1> DEFINE causes == IF keepsUpWithMove(i, at) THEN {} ELSE {"move"}
           K == watches.kernel
<1>0. disturbed = {} /\ i \in Inodes
  BY DEF rename, Change, Inodes
<1>1. SoundTree(place) /\ Followed /\ Tables(watches) /\ m_dirWatch
  BY <1>0 DEF WatchInv, Followed
<1>2. /\ SoundTree(place') /\ place[i] \in Places /\ place'[i] = at
      /\ \A j \in Folders \ {i} : place'[j] = place[j]
      /\ \A j \in Inodes : place[j] # at
  BY <1>0, <1>1, TreeRenamed
<1>3. Notify(heard(from) \o heard(to), causes)
      /\ UNCHANGED <<m_dirWatch, m_paths, m_dirIter, cookies, excluded, watches>>
  BY DEF rename, kinotify, settings
<1>4. changes' \in Nat /\ changes' \in 1..changes'
  <2>1. changes' = changes + 1 /\ changes \in Nat
    BY ConstantsAssumption DEF rename, Change, TypeOK
  <2> QED BY <2>1
<1>5. /\ heard(from) \o heard(to) \in Seq(Events)
      /\ Aside(from) /\ Aside(to)
      /\ heard(from) = IF place[i][1] \in K THEN <<from>> ELSE <<>>
      /\ heard(to) = IF at[1] \in K THEN <<to>> ELSE <<>>
  BY <1>0, <1>2, <1>4, MoveEvents
<1>6. /\ IsOfFolder(from, "MoveFrom") /\ from.wd = place[i][1] /\ from.name = place[i][2] /\ from.cookie = changes'
      /\ IsOfFolder(to, "MoveTo") /\ to.wd = at[1] /\ to.name = at[2] /\ to.cookie = changes'
  BY DEF Event, IsOfFolder
<1> DEFINE es == heard(from) \o heard(to)
<1>7. queue' = queue \o es /\ causes = {} /\ ~Walking
  <2>1. es \in Seq(Events) /\ Notify(es, causes)
    BY <1>3, <1>5
  <2> HIDE DEF es, causes
  <2> QED BY <2>1, NotifiedQuietly
<1>8. keepsUpWithMove(i, at)
  BY <1>7
<1>9. i \in K /\ Settled /\ below(place, i) \cap Folders = {i}
  BY <1>8 DEF keepsUpWithMove
<1>10. /\ AllKnown(K, watches.path, place, excluded, {}, {})
       /\ queue = <<>> /\ cookies = {} /\ K \subseteq Watchable /\ excluded \subseteq Seq(Names)
       /\ ParentsToo(K, place)
  BY <1>1, <1>7, <1>9, KnownWhenSettled
<1>11. place[i][1] \in K
  BY <1>9, <1>10 DEF ParentsToo
<1>12. queue' = es
  <2>1. es \in Seq(Events)
    BY <1>5
  <2> HIDE DEF es
  <2>2. <<>> \o es = es
    BY <2>1
  <2> QED BY <1>7, <1>10, <2>2
<1>13. Stands(excluded', place')
  <2>1. ASSUME NEW j \in Folders, NEW n \in Names, <<n>> \in excluded, place[j] = <<Home, n>> PROVE place'[j] = place[j]
    <3>1. WatchedRightly(K, watches.path, place, excluded)
      BY <1>10 DEF AllKnown
    <3>2. j \notin K
      BY <1>10, <2>1, <3>1, ExcludedNotWatched
    <3> QED BY <1>2, <1>9, <3>2
  <2> QED BY <1>1, <1>3, <2>1, StandsStay DEF Followed
<1>14. watches.path \in [Watchable -> {NoPath} \cup Seq(Names)]
  BY QueueTyped
<1>15. Moved(pathsIn(place), pathsIn(place'), i, at)
  BY <1>1, <1>9, PathsMoved
<1> HIDE DEF K, es
<1> QED BY <1>1, <1>2, <1>3, <1>4, <1>5, <1>6, <1>7, <1>8, <1>9, <1>10, <1>11, <1>12, <1>13, <1>14, <1>15
        DEF RenamedQuietly, K, es

\* Between folders that are watched both halves of the move are told.
LEMMA FollowsMoveInside ==
  ASSUME TypeOK, TypeOK', NEW i \in Folders, NEW at \in Places, NEW from, NEW to,
         RenamedQuietly(i, at, from, to), at[1] \in watches.kernel
  PROVE  WatchInv'
<1> DEFINE K == watches.kernel
           T == watches.path
           P == pathsIn(place)
           R == pathsIn(place')
           new == Append(P[at[1]], at[2])
           U == [T EXCEPT ![i] = new]
<1>1. /\ queue'[1] = from /\ queue'[2] = to /\ DOMAIN queue' = 1..2 /\ cookies' = {} /\ watches' = watches
      /\ m_paths' = {} /\ toRead' = {} /\ excluded' = excluded /\ ~Walking'
  <2>1. queue' = <<from>> \o <<to>>
    <3>1. queue' = heard(from) \o heard(to) /\ heard(from) = <<from>>
      BY DEF RenamedQuietly
    <3>2. heard(to) = <<to>>
      BY DEF RenamedQuietly
    <3> QED BY <3>1, <3>2
  <2>2. m_paths = {} /\ m_dirIter = NoPath /\ m_paths' = m_paths /\ m_dirIter' = m_dirIter
    BY DEF RenamedQuietly, Walking
  <2>3. cookies' = {} /\ watches' = watches /\ excluded' = excluded
    BY DEF RenamedQuietly
  <2>4. /\ (<<from>> \o <<to>>)[1] = from /\ (<<from>> \o <<to>>)[2] = to
        /\ DOMAIN (<<from>> \o <<to>>) = 1..2
    <3> DEFINE both == {from, to}
    <3>1. <<from>> \in Seq(both) /\ <<to>> \in Seq(both)
      OBVIOUS
    <3>2. Len(<<from>>) = 1 /\ Len(<<to>>) = 1 /\ <<from>>[1] = from /\ <<to>>[1] = to
      OBVIOUS
    <3> QED BY <3>1, <3>2
  <2> QED BY <2>1, <2>2, <2>3, <2>4 DEF Walking, toRead
<1>2. /\ AllKnown(K, T, place, excluded, {}, {}) /\ ParentsToo(K, place)
      /\ i \in K /\ K \subseteq Watchable /\ T \in [Watchable -> {NoPath} \cup Seq(Names)]
      /\ excluded \subseteq Seq(Names) /\ place[i] \in Places /\ place[i][1] \in K
      /\ \A x \in Watchable \ {i} : R[x] = P[x]
      /\ R[i] = IF P[at[1]] = NoPath THEN NoPath ELSE Append(P[at[1]], at[2])
      /\ P[at[1]] # NoPath => P[at[1]] \in Seq(Names)
      /\ \A j \in Inodes : place[j] # at
      /\ SoundTree(place)
  BY DEF RenamedQuietly, Moved
<1>3. \A x \in K : T[x] = P[x] /\ Clean(P[x], excluded) /\ P[x] # NoPath
  BY <1>2 DEF AllKnown, WatchedRightly, Clean
<1>4. at[1] \in K /\ P[at[1]] \in Seq(Names) /\ at[2] \in Names /\ at[1] \in Ids /\ at = <<at[1], at[2]>>
      /\ i \in Inodes /\ i \in Ids /\ Watchable \subseteq Ids
  BY <1>2, <1>3, PlacesAre DEF Inodes, Ids, Watchable
<1>5. R[i] = new /\ new \in Seq(Names)
  BY <1>2, <1>3, <1>4
<1>6. Clean(new, excluded)
  <2>1. shouldBeIndexed(new)
    BY <1>3, <1>4 DEF RenamedQuietly, keepsUpWithMove
  <2>2. Stands(excluded, place)
    BY DEF RenamedQuietly, Followed
  <2> QED BY <1>5, <2>1, <2>2, IndexedIsClean
<1>7. U[i] = new /\ \A x \in Watchable \ {i} : U[x] = T[x]
  BY <1>2
<1>8. AllKnown(K, U, place', excluded, {}, {})
  <2>0. Except(i, T, U, place, place')
    BY <1>2, <1>7 DEF Except
  <2>1. Clean(pathsIn(place')[i], excluded) /\ U[i] = pathsIn(place')[i]
    BY <1>2, <1>5, <1>6, <1>7
  <2> HIDE DEF U
  <2> QED BY <1>2, <1>7, <2>0, <2>1, OthersKnown
<1>9. ASSUME NEW j \in Watchable, T[j] = new PROVE FALSE
  <2>1. new # NoPath /\ new # <<>>
    BY <1>4, <1>5, ConstantsAssumption, AppendedIsLonger
  <2>2. j \in K /\ P[j] = new /\ j \in Ids
    BY <1>2, <1>3, <1>4, <1>9, <2>1 DEF AllKnown
  <2>3. StepUp(place, j)
    BY <2>1, <2>2, StepsUp
  <2> DEFINE up == place[j][1]
  <2>4. /\ j \in Inodes /\ place[j] \in Places /\ place[j] = <<up, place[j][2]>>
        /\ up \in Ids /\ place[j][2] \in Names /\ P[up] # NoPath /\ P[up] \in Seq(Names)
        /\ P[j] = Append(P[up], place[j][2])
    BY <2>1, <2>2, <2>3 DEF StepUp
  <2>5. P[up] = P[at[1]] /\ place[j][2] = at[2]
    <3> HIDE DEF P, up
    <3>1. Append(P[up], place[j][2]) = Append(P[at[1]], at[2])
      BY <2>2, <2>4
    <3> QED BY <1>4, <2>4, <3>1, AppendedSame
  <2>6. up = at[1]
    BY <1>2, <1>4, <2>4, <2>5, PathsAreDistinct DEF SoundTree
  <2> QED BY <1>2, <1>4, <2>4, <2>5, <2>6
<1> HIDE DEF K, T, P, R, new, U
<1>10. \A n \in DOMAIN queue' : Aside(queue'[n])
  BY <1>1 DEF RenamedQuietly
<1>11. Sound(K, U, place', queue', excluded, {}, {}) /\ ParentsToo(K, place')
  BY <1>2, <1>8, <1>10, KnownIsSound
<1>12. /\ queue'[1] = from /\ queue'[2] = to /\ DOMAIN queue' = 1..2
       /\ watches'.path = T /\ watches'.kernel = K
  BY <1>1 DEF K, T
<1>13. namedBy(2)' = new /\ namedBy(1)' = T[i]
  <2>1. new = Append(T[at[1]], at[2])
    BY <1>3, <1>4 DEF new
  <2>2. to.wd = at[1] /\ to.name = at[2] /\ from.wd = place[i][1] /\ from.name = place[i][2]
    BY DEF RenamedQuietly
  <2>3. T[i] = Append(T[place[i][1]], place[i][2])
    <3>1. P[i] = IF P[place[i][1]] = NoPath THEN NoPath ELSE Append(P[place[i][1]], place[i][2])
      BY <1>2, <1>4, PathEquation DEF P
    <3> QED BY <1>2, <1>3, <3>1
  <2> QED BY <1>12, <2>1, <2>2, <2>3 DEF namedBy
<1>14. SoundNow(watches.kernel, [watches.path EXCEPT ![i] = namedBy(2)])'
  <2>1. [watches'.path EXCEPT ![i] = namedBy(2)'] = U
    BY <1>12, <1>13 DEF U
  <2> QED BY <1>1, <1>11, <1>12, <2>1 DEF SoundNow
<1>15. Moving(i, 2)'
  <2>1. IsOfFolder(to, "MoveTo") /\ to.wd = at[1]
    BY DEF RenamedQuietly
  <2>2. T[i] # NoPath /\ T[at[1]] # NoPath
    BY <1>2, <1>3, <1>4
  <2>3. \A j \in Watchable : T[j] # new
    BY <1>9
  <2>4. \A m \in DOMAIN queue' : IsMoveOfFolder(queue'[m]) => m <= 2
    BY <1>12
  <2>5. 2 \in DOMAIN queue' /\ IsOfFolder(queue'[2], "MoveTo") /\ watches'.path[queue'[2].wd] # NoPath
    BY <1>12, <2>1, <2>2
  <2>6. watches'.path[i] # NoPath /\ \A j \in Watchable : watches'.path[j] # namedBy(2)'
    BY <1>12, <1>13, <2>2, <2>3
  <2> QED BY <1>14, <2>4, <2>5, <2>6 DEF Moving
<1>16. MovingSoon(i)'
  <2>1. /\ IsOfFolder(from, "MoveFrom") /\ from.wd = place[i][1] /\ from.cookie = changes' /\ to.cookie = changes'
    BY DEF RenamedQuietly
  <2>2. T[place[i][1]] # NoPath
    BY <1>2, <1>3
  <2> QED BY <1>1, <1>12, <1>13, <1>15, <2>1, <2>2 DEF MovingSoon
<1>17. Phase'
  BY <1>16 DEF Phase
<1>18. Tables(watches') /\ m_dirWatch' /\ SoundTree(place') /\ Stands(excluded', place')
  BY DEF RenamedQuietly
<1> QED BY <1>1, <1>17, <1>18 DEF WatchInv, Followed

\* Where it is moved is not watched, so that its new path is not one to be indexed.
LEMMA FollowsMoveOutside ==
  ASSUME TypeOK, TypeOK', NEW i \in Folders, NEW at \in Places, NEW from, NEW to,
         RenamedQuietly(i, at, from, to), at[1] \notin watches.kernel
  PROVE  WatchInv'
<1> DEFINE K == watches.kernel
           T == watches.path
           P == pathsIn(place)
           R == pathsIn(place')
           U == [T EXCEPT ![i] = NoPath]
<1>1. /\ queue' = <<from>> /\ cookies' = {} /\ watches' = watches
      /\ m_paths' = {} /\ toRead' = {} /\ excluded' = excluded /\ ~Walking'
  BY DEF RenamedQuietly, Walking, toRead
<1>2. /\ AllKnown(K, T, place, excluded, {}, {}) /\ ParentsToo(K, place)
      /\ i \in K /\ K \subseteq Watchable /\ T \in [Watchable -> {NoPath} \cup Seq(Names)]
      /\ excluded \subseteq Seq(Names) /\ place[i] \in Places /\ place[i][1] \in K
      /\ \A x \in Watchable \ {i} : R[x] = P[x]
      /\ R[i] = IF P[at[1]] = NoPath THEN NoPath ELSE Append(P[at[1]], at[2])
      /\ P[at[1]] # NoPath => P[at[1]] \in Seq(Names) /\ at[1] \in Watchable
      /\ SoundTree(place) /\ below(place, i) \cap Folders = {i}
      /\ at[1] \notin K
  BY DEF RenamedQuietly, Moved
<1>3. \A x \in K : T[x] = P[x] /\ Clean(P[x], excluded) /\ P[x] # NoPath
  BY <1>2 DEF AllKnown, WatchedRightly, Clean
<1>4. at[2] \in Names /\ i \in Inodes /\ i \in Ids /\ Watchable \subseteq Ids
  BY PlacesAre DEF Inodes, Ids, Watchable
<1>5. ~Clean(R[i], excluded)
  <2> SUFFICES ASSUME Clean(R[i], excluded) PROVE FALSE
    OBVIOUS
  <2> DEFINE s == P[at[1]]
  <2> HIDE DEF s, P, R
  <2>1. s # NoPath /\ s \in Seq(Names) /\ at[1] \in Watchable /\ R[i] = Append(s, at[2])
    BY <1>2 DEF Clean, s
  <2>2. IsPrefix(s, R[i]) /\ R[i] \in Seq(Names)
    BY <1>4, <2>1, AppendedIsLonger
  <2>3. Clean(s, excluded)
    BY <1>2, <2>1, <2>2, CleanAbove
  <2>4. at[1] \in K
    BY <1>2, <2>1, <2>3 DEF AllKnown, ToBeRead, s, P
  <2> QED BY <1>2, <2>4
<1>6. U[i] = NoPath /\ \A x \in Watchable \ {i} : U[x] = T[x]
  BY <1>2
<1>7. AllKnown(K \ {i}, U, place', excluded, {}, {})
  <2>0. Except(i, T, U, place, place')
    BY <1>2, <1>6 DEF Except
  <2>1. ~Clean(pathsIn(place')[i], excluded)
    BY <1>2, <1>5
  <2> HIDE DEF U
  <2> QED BY <1>2, <1>6, <2>0, <2>1, OthersKnown
<1>8. ASSUME NEW j \in Watchable \ {i}, T[j] # NoPath PROVE ~IsPrefix(T[i], T[j])
  <2>1. j \in K /\ T[j] = P[j] /\ P[j] # NoPath /\ j \in Ids
    BY <1>2, <1>3, <1>4, <1>8 DEF AllKnown
  <2>2. T[i] = P[i] /\ P[i] # NoPath /\ j # i
    BY <1>2, <1>3
  <2> SUFFICES ASSUME IsPrefix(P[i], P[j]) PROVE FALSE
    BY <2>1, <2>2
  <2>3. PICK a \in Inodes : place[a] \in Places /\ place[a][1] = i /\ (a = j \/ a \in Folders)
    BY <1>2, <1>4, <2>1, <2>2, BelowIsInside DEF SoundTree
  <2>4. a \in below(place, i)
    BY <1>4, <2>3, ChildIsBelow
  <2>5. a \in Folders
    BY <2>1, <2>3, ConstantsAssumption DEF Watchable, Inodes
  <2>6. a = i
    BY <1>2, <2>4, <2>5
  <2>7. StepUp(place, i) /\ P[i] \in Seq(Names)
    BY <1>4, <2>2, StepsUp
  <2>8. i # Home
    BY <1>4, ConstantsAssumption
  <2>9. P[i] = Append(P[i], place[i][2]) /\ place[i][2] \in Names
    BY <2>3, <2>6, <2>7, <2>8 DEF StepUp
  <2> HIDE DEF P
  <2> QED BY <2>7, <2>9, PrefixOfAppended
<1> HIDE DEF K, T, P, R, U
<1>9. \A n \in DOMAIN queue' : Aside(queue'[n])
  BY <1>1 DEF RenamedQuietly
<1>10. K \ {i} \subseteq Watchable
  BY <1>2
<1>11. Sound(K \ {i}, U, place', queue', excluded, {}, {}) /\ ParentsToo(K \ {i}, place')
  BY <1>2, <1>7, <1>9, <1>10, KnownIsSound
<1>12. queue'[1] = from /\ Len(queue') = 1 /\ watches'.path = T /\ watches'.kernel = K
  BY <1>1 DEF K, T
<1>13. namedBy(1)' = T[i]
  <2>1. from.wd = place[i][1] /\ from.name = place[i][2]
    BY DEF RenamedQuietly
  <2>2. P[i] = IF P[place[i][1]] = NoPath THEN NoPath ELSE Append(P[place[i][1]], place[i][2])
    BY <1>2, <1>4, PathEquation DEF P
  <2>3. T[i] = Append(T[place[i][1]], place[i][2])
    BY <1>2, <1>3, <2>2
  <2> QED BY <1>12, <2>1, <2>3 DEF namedBy
<1>14. SoundNow(watches.kernel \ {i}, [watches.path EXCEPT ![i] = NoPath])'
  <2>1. [watches'.path EXCEPT ![i] = NoPath] = U /\ watches'.kernel \ {i} = K \ {i}
    BY <1>12 DEF U
  <2> QED BY <1>1, <1>11, <2>1 DEF SoundNow
<1>15. Leaving(i)'
  <2>1. T[i] # NoPath
    BY <1>2, <1>3
  <2> QED BY <1>2, <1>8, <1>12, <1>14, <2>1 DEF Leaving
<1>16. LeavingSoon(i)'
  <2>1. IsOfFolder(from, "MoveFrom") /\ from.wd = place[i][1] /\ from.cookie = changes' /\ changes' \in 1..changes'
    BY DEF RenamedQuietly
  <2>2. T[place[i][1]] # NoPath
    BY <1>2, <1>3
  <2> QED BY <1>1, <1>12, <1>13, <1>15, <2>1, <2>2 DEF LeavingSoon
<1>17. Phase'
  BY <1>16 DEF Phase
<1>18. Tables(watches') /\ m_dirWatch' /\ SoundTree(place') /\ Stands(excluded', place')
  BY DEF RenamedQuietly
<1> QED BY <1>1, <1>17, <1>18 DEF WatchInv, Followed

LEMMA FollowsRenameFolder ==
  ASSUME TypeOK, TypeOK', WatchInv, NEW i \in Folders, NEW at \in Places, rename(i, at), disturbed' = {}
  PROVE  WatchInv'
<1> DEFINE from == Event("MoveFrom", place[i][1], place[i][2], i \in Folders, changes')
           to   == Event("MoveTo", at[1], at[2], i \in Folders, changes')
<1>1. RenamedQuietly(i, at, from, to)
  BY RenameIsQuiet
<1> HIDE DEF from, to
<1> QED BY <1>1, FollowsMoveInside, FollowsMoveOutside

LEMMA FollowsConfigure ==
  ASSUME TypeOK, TypeOK', WatchInv, NEW n \in Names, configure(<<n>>)
  PROVE  WatchInv'
<1>1. disturbed = {} /\ place' = place
  BY DEF configure, fileSystem
<1>2. SoundTree(place) /\ Followed
  BY <1>1 DEF WatchInv
<1>3. disturbed' = {} => Followed'
  BY <1>2, FollowsInclude, FollowsExclude
<1>4. SoundTree(place')
  BY <1>1, <1>2
<1> QED BY <1>3, <1>4 DEF WatchInv

LEMMA FollowsUser == ASSUME TypeOK, TypeOK', WatchInv, User PROVE WatchInv'
<1>0. SoundTree(place)
  BY DEF WatchInv
<1>1. ASSUME NEW i \in Inodes, NEW at \in Places, create(i, at) PROVE WatchInv'
  <2>1. SoundTree(place')
    BY <1>0, <1>1, TreeCreated
  <2>2. disturbed = {}
    BY <1>1 DEF create, Change
  <2>3. disturbed' = {} => WatchInv'
    BY <1>1, <2>2, FollowsMake
  <2> QED BY <2>1, <2>3 DEF WatchInv
<1>2. ASSUME NEW i \in Inodes, NEW at \in Places, rename(i, at) PROVE WatchInv'
  <2>1. SoundTree(place')
    BY <1>0, <1>2, TreeRenamed
  <2>2. disturbed' = {} => WatchInv'
    BY <1>2, FollowsRenameFile, FollowsRenameFolder
  <2> QED BY <2>1, <2>2 DEF WatchInv
<1>3. ASSUME NEW f \in Files, write(f) PROVE WatchInv'
  <2>1. disturbed = {} /\ place' = place
    BY <1>3 DEF write, Change
  <2>2. disturbed' = {} => WatchInv'
    BY <1>3, <2>1, FollowsWrite
  <2>3. SoundTree(place')
    BY <1>0, <2>1
  <2> QED BY <2>2, <2>3 DEF WatchInv
<1>4. ASSUME NEW i \in Inodes, remove(i) PROVE WatchInv'
  <2>1. SoundTree(place')
    BY <1>0, <1>4, TreeRemoved
  <2>2. disturbed = {}
    BY <1>4 DEF remove, Change
  <2>3. disturbed' = {} => WatchInv'
    BY <1>4, <2>2, FollowsRemove
  <2> QED BY <2>1, <2>3 DEF WatchInv
<1> QED BY <1>1, <1>2, <1>3, <1>4, FollowsConfigure DEF User

LEMMA FollowsNext == ASSUME TypeOK, TypeOK', WatchInv, [Next]_vars PROVE WatchInv'
<1>1. ASSUME Done \/ UNCHANGED vars PROVE WatchInv'
  <2>1. UNCHANGED <<fileSystem, queue, kinotify, excluded>> /\ disturbed' = disturbed
    BY <1>1 DEF Done, vars, settings
  <2> QED BY <2>1, FollowsUnchanged
<1>2. ASSUME Next PROVE disturbed \subseteq disturbed' /\ (disturbed' = {} => disturbed = {})
  <2>1. disturbed \subseteq disturbed'
    BY <1>2, DisturbedStays
  <2> QED BY <2>1
<1>3. ASSUME Indexers PROVE WatchInv'
  <2>1. UNCHANGED <<fileSystem, queue, kinotify, excluded>>
    BY <1>3 DEF Indexers, announce, clean, check, newFile, modifiedFile, Takes, settings
  <2>2. disturbed' = {} => disturbed = {}
    BY <1>2, <1>3 DEF Next
  <2> QED BY <2>1, <2>2, FollowsUnchanged
<1>4. ASSUME Watcher PROVE WatchInv'
  <2>1. place' = place
    BY <1>4 DEF Watcher, nextWalk, addNextWatches, ignore, eventCreate, eventModify, eventDelete, eventMoveFrom,
                eventMoved, eventMovedIn, expireCookie, reachLimit, Handled, fileSystem
  <2>2. SoundTree(place')
    BY <2>1 DEF WatchInv
  <2>3. disturbed' = {} => disturbed = {}
    BY <1>2, <1>4 DEF Next
  <2>4. disturbed' = {} => WatchInv'
    BY <1>4, <2>3, FollowsWatcher
  <2> QED BY <2>2, <2>4 DEF WatchInv
<1> QED BY <1>1, <1>3, <1>4, FollowsUser DEF Next

-----------------------------------------------------------------------------

\* The queue of the kernel, the tables of KInotify, the cookies and the lists hold
\* events and paths of the kinds that the handlers expect, and a document is a name
\* below an id (kinotify.cpp, filewatch.cpp, metadatamover.cpp).
THEOREM TypeCorrect == Spec => []TypeOK
<1>1. TypeOK /\ [Next]_vars => TypeOK'
  BY TypesNext
<1> QED BY TypesInit, <1>1, PTL DEF Spec

\* Nothing with a hidden name, or in a folder of such a name, is in the index,
\* whatever the user does and in whichever order events, walks, lists and jobs
\* follow: no path that waits is below a hidden folder, no folder of a hidden name
\* is watched, and none is moved to one unnoticed (kinotify.cpp, filewatch.cpp,
\* metadatamover.cpp and the jobs together).
THEOREM HiddenStaysOut == Spec => []NothingHiddenIsIndexed
<1>1. TypeOK /\ HiddenInv /\ [Next]_vars => TypeOK' /\ HiddenInv'
  BY TypesNext, HiddenNext
<1>2. HiddenInv => NothingHiddenIsIndexed
  BY DEF HiddenInv, DocumentsAreShown, NothingHiddenIsIndexed
<1> QED BY TypesInit, HiddenInit, <1>1, <1>2, PTL DEF Spec

\* When nothing waits and nothing happened that the watcher does not keep up with,
\* the kernel watches exactly the folders that are to be indexed and both tables of
\* KInotify have their paths, whatever the tree, the limit of events and the number
\* of changes (kinotify.cpp).
THEOREM WatchesFollow == Spec => []WatchesFollowFolders
<1>1. TypeOK /\ WatchInv /\ [Next]_vars => TypeOK' /\ WatchInv'
  BY TypesNext, FollowsNext
<1>2. TypeOK /\ WatchInv => WatchesFollowFolders
  BY FollowedQuiet
<1> QED BY TypesInit, FollowedInit, <1>1, <1>2, PTL DEF Spec
=============================================================================
