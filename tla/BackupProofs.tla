----------------------------- MODULE BackupProofs -----------------------------
(***************************************************************************)
(* Proof that the retention keeps the last good backup, in MCOperations,   *)
(* for any number of backups, faults and crashes and any limit.  Two runs  *)
(* of the retention may work on lists taken at different times, and for as *)
(* many days as they like.  KInv(d) says that the lists in hand are all of *)
(* day d, and that none of them holds the one backup that every list of    *)
(* that day has to spare.  A run that begins on a later day while another  *)
(* still has its list sets straddled, and nothing is claimed from then on. *)
(***************************************************************************)
EXTENDS OperationsProofs

(* The rows of tenant_backups.                                              *)
BRows == [status : {"none", "queued", "running", "verifying", "cleanup_required",
                    "succeeded", "cleaned", "cleanup_failed"},
          type : {"manual", "scheduled"}, window : Nat, expires : Nat]

(* The types of what the retention depends on.                              *)
KTypes ==
    /\ BTypes
    /\ backup \in [Backup!Backups -> BRows]
    /\ files \in [Backup!Backups -> {"none", "staging", "partial", "complete"}]
    /\ now \in Nat /\ crashes \in Nat
    /\ ret \in [Backup!Sweepers -> [step : {"idle", "remove", "commit"}, todo : Seq(Backup!Backups), day : Nat]]

(* Rows are given out and taken up in the order of their ids, so a backup   *)
(* does not expire before an older one.                                     *)
KOrder ==
    /\ \A b \in Backup!Backups : backup[b].expires <= now + 1
    /\ \A b, c \in Backup!Backups : b < c =>
        /\ backup[b].status = "none" => backup[c].status = "none"
        /\ backup[b].status = "queued" => backup[c].status \in {"none", "queued"}
        /\ backup[c].status # "none" => backup[b].expires <= backup[c].expires

(* The backup the worker is on is the newest taken up, and has its files    *)
(* before it succeeds.                                                      *)
KWorker ==
    /\ worker.step \in {"dump", "publish", "succeed", "cleanup"} =>
         /\ worker.b \in Backup!Backups
         /\ backup[worker.b].status \notin {"none", "queued", "succeeded", "cleaned"}
    /\ worker.step \in {"publish", "succeed"} => backup[worker.b].status = "verifying"
    /\ worker.step \in {"dump", "publish", "succeed"} =>
         \A c \in Backup!Backups : c > worker.b => backup[c].status \in {"none", "queued"}
    /\ worker.step = "succeed" => files[worker.b] = "complete"

(* The succeeded backups that have not expired on day d.                    *)
Lasting(d) == {b \in Backup!Succeeded : ~(backup[b].expires < d)}

(* The backup every retention run of day d spares: the newest, or the       *)
(* oldest when all have expired.                                            *)
IsKept(d, k) ==
    /\ k \in Backup!Succeeded
    /\ Lasting(d) = {} => \A c \in Backup!Succeeded : k <= c
    /\ Lasting(d) # {} => \A c \in Backup!Succeeded : c <= k

(* A list holds backups that had succeeded, and never the one that is kept. *)
Spares(d, todo) ==
    \A i \in 1 .. Len(todo) : backup[todo[i]].status \in {"succeeded", "cleaned"} /\ ~IsKept(d, todo[i])

KLists(d) ==
    \A p \in Backup!Sweepers :
        /\ Spares(d, ret[p].todo)
        /\ ret[p].step # "idle" => ret[p].day = d
        /\ ret[p].step = "commit" => ret[p].todo # <<>>
        /\ ret[p].step = "idle" => ret[p].todo = <<>>

(* While nothing died, a succeeded backup without files is about to be      *)
(* recorded as cleaned.                                                     *)
KWhole ==
    crashes = 0 => \A b \in Backup!Succeeded :
        \/ files[b] = "complete"
        \/ \E p \in Backup!Sweepers : ret[p].step = "commit" /\ ret[p].todo[1] = b

(* The inductive invariant of the retention.                                *)
KInv(d) == KTypes /\ KOrder /\ KWorker /\ KLists(d) /\ KWhole

(* The instance counts as FiniteSets does.                                  *)
LEMMA SameCount == \A S : Backup!Cardinality(S) = Cardinality(S)
BY DEF Backup!Cardinality, Cardinality

(* Some backups are finitely many numbers.                                  *)
LEMMA SomeBackups ==
    ASSUME NEW S, S \subseteq Backup!Backups
    PROVE  S \subseteq Nat /\ IsFiniteSet(S) /\ Cardinality(S) \in Nat
<1>1. MaxBackups \in Nat
  BY OperationsBounds DEF Backup!BackupAssumption
<1>2. IsFiniteSet(Backup!Backups) /\ Backup!Backups \subseteq Nat
  BY <1>1, FS_Interval DEF Backup!Backups
<1> QED  BY <1>2, FS_Subset, FS_CardinalityType

(* Those of S that come after x: the rank of x, newest first.               *)
After(S, x) == {y \in S : y > x}
Rank(S, x)  == Cardinality(After(S, x))

(* Newer numbers have smaller ranks; the oldest has all others after it.    *)
LEMMA Ranks ==
    ASSUME NEW S, S \subseteq Nat, IsFiniteSet(S)
    PROVE  /\ \A x \in S : Rank(S, x) \in 0 .. Cardinality(S) - 1
           /\ \A x, y \in S : x < y => Rank(S, y) < Rank(S, x)
           /\ \A x \in S : Rank(S, x) = Cardinality(S) - 1 => \A y \in S : x <= y
<1>0. Cardinality(S) \in Nat
  BY FS_CardinalityType
<1>1. ASSUME NEW x \in S
      PROVE  /\ IsFiniteSet(S \ {x}) /\ Cardinality(S \ {x}) = Cardinality(S) - 1
             /\ IsFiniteSet(After(S, x)) /\ Rank(S, x) \in Nat
             /\ After(S, x) \in SUBSET (S \ {x})
             /\ Rank(S, x) <= Cardinality(S) - 1
  <2>1. IsFiniteSet(S \ {x}) /\ Cardinality(S \ {x}) = Cardinality(S) - 1
    BY FS_RemoveElement
  <2>2. After(S, x) \in SUBSET (S \ {x})
    BY DEF After
  <2> QED  BY <2>1, <2>2, FS_Subset, FS_CardinalityType DEF Rank
<1>2. ASSUME NEW x \in S, NEW y \in S, x < y
      PROVE  Rank(S, y) < Rank(S, x)
  <2>1. y \in After(S, x)
    BY <1>2 DEF After
  <2>2. IsFiniteSet(After(S, x) \ {y}) /\ Cardinality(After(S, x) \ {y}) = Rank(S, x) - 1
    BY <1>1, <2>1, FS_RemoveElement DEF Rank
  <2>3. After(S, y) \in SUBSET (After(S, x) \ {y})
    <3> SUFFICES ASSUME NEW z \in After(S, y)
                 PROVE  z \in After(S, x) \ {y}
      OBVIOUS
    <3>1. z \in S /\ z > y /\ z \in Nat /\ x \in Nat /\ y \in Nat
      BY DEF After
    <3>2. z > x /\ z # y
      BY <1>2, <3>1
    <3> QED  BY <3>1, <3>2 DEF After
  <2>4. Cardinality(After(S, y)) <= Cardinality(After(S, x) \ {y})
    BY <2>2, <2>3, FS_Subset
  <2>5. Rank(S, y) <= Rank(S, x) - 1
    BY <2>2, <2>4 DEF Rank
  <2>6. Rank(S, x) \in Nat /\ Rank(S, y) \in Nat
    BY <1>1
  <2> QED  BY <2>5, <2>6
<1>3. ASSUME NEW x \in S, Rank(S, x) = Cardinality(S) - 1, NEW y \in S
      PROVE  x <= y
  <2>1. After(S, x) = S \ {x}
    BY <1>1, <1>3, FS_Subset DEF Rank
  <2>2. x \in Nat /\ y \in Nat /\ (y # x => y > x)
    BY <2>1 DEF After
  <2> QED  BY <2>2
<1>4. ASSUME NEW x \in S
      PROVE  Rank(S, x) \in 0 .. Cardinality(S) - 1
  <2>1. Rank(S, x) \in Nat /\ Rank(S, x) <= Cardinality(S) - 1
    BY <1>1
  <2> QED  BY <2>1, <1>0
<1> QED  BY <1>2, <1>3, <1>4

(* Descending lists every element of a set once, the oldest at the end.     *)
LEMMA DescendingLists ==
    ASSUME NEW S, S \subseteq Nat, IsFiniteSet(S)
    PROVE  LET d == Backup!Descending(S)
           IN /\ d \in Seq(S) /\ Len(d) = Cardinality(S)
              /\ \A i \in 1 .. Len(d) : d[i] \in S
              /\ S # {} => \A y \in S : d[Len(d)] <= y
              /\ \A i \in 1 .. Len(d) - 1 : d[i] # d[Len(d)]
<1> DEFINE n == Cardinality(S)
           f == [x \in S |-> Rank(S, x)]
           d == Backup!Descending(S)
<1>1. n \in Nat
  BY FS_CardinalityType
<1>2. f \in Injection(S, 0 .. n - 1)
  <2>1. f \in [S -> 0 .. n - 1]
    BY Ranks
  <2>2. ASSUME NEW x \in S, NEW y \in S, f[x] = f[y]
        PROVE  x = y
    <3>0. /\ Rank(S, x) \in 0 .. n - 1 /\ Rank(S, y) \in 0 .. n - 1
          /\ x < y => Rank(S, y) < Rank(S, x)
          /\ y < x => Rank(S, x) < Rank(S, y)
      BY Ranks
    <3>1. Rank(S, x) = Rank(S, y)
      BY <2>2
    <3> HIDE DEF n
    <3>2. ~(x < y) /\ ~(y < x)
      BY <1>1, <3>0, <3>1
    <3>3. x \in Nat /\ y \in Nat
      OBVIOUS
    <3> QED  BY <3>2, <3>3
  <2> QED  BY <2>1, <2>2 DEF Injection, IsInjective
<1>3. IsFiniteSet(0 .. n - 1) /\ Cardinality(0 .. n - 1) = n
  <2>1. IsFiniteSet(0 .. n - 1) /\ Cardinality(0 .. n - 1) = IF 0 > n - 1 THEN 0 ELSE (n - 1) - 0 + 1
    <3> HIDE DEF n
    <3>1. 0 \in Int /\ n - 1 \in Int
      BY <1>1
    <3> QED  BY <3>1, FS_Interval
  <2> QED  BY <2>1, <1>1
<1>4. f \in Surjection(S, 0 .. n - 1)
  BY <1>2, <1>3, FS_Injection
<1>5. ASSUME NEW i \in 1 .. n
      PROVE  \E x \in S : Rank(S, x) = i - 1
  <2>1. i - 1 \in 0 .. n - 1
    BY <1>1
  <2> QED  BY <2>1, <1>4 DEF Surjection
<1>6. d = [i \in 1 .. n |-> CHOOSE x \in S : Backup!Cardinality({y \in S : y > x}) = i - 1]
  BY SameCount DEF Backup!Descending
<1>7. ASSUME NEW i \in 1 .. n
      PROVE  d[i] \in S /\ Rank(S, d[i]) = i - 1
  <2> DEFINE Is(x) == Backup!Cardinality({y \in S : y > x}) = i - 1
  <2>1. d[i] = CHOOSE x \in S : Is(x)
    <3> HIDE DEF d, n
    <3> QED  BY <1>6
  <2>2. \A x : Is(x) <=> Rank(S, x) = i - 1
    BY SameCount DEF Rank, After
  <2> HIDE DEF Is, d
  <2>3. \E x \in S : Is(x)
    BY <1>5, <2>2
  <2>4. d[i] \in S /\ Is(d[i])
    BY <2>1, <2>3
  <2> QED  BY <2>2, <2>4
<1>8. d \in Seq(S) /\ Len(d) = n
  <2> HIDE DEF d
  <2>1. d \in [1 .. n -> S]
    BY <1>6, <1>7
  <2> QED  BY <2>1, <1>1
<1> HIDE DEF d
<1>9. S # {} => \A y \in S : d[n] <= y
  <2> SUFFICES ASSUME S # {}
               PROVE  \A y \in S : d[n] <= y
    OBVIOUS
  <2>1. n \in 1 .. n
    BY <1>1, FS_EmptySet
  <2> QED  BY <2>1, <1>7, Ranks
<1>10. \A i \in 1 .. n - 1 : d[i] # d[n]
  <2> SUFFICES ASSUME NEW i \in 1 .. n - 1
               PROVE  d[i] # d[n]
    OBVIOUS
  <2>1. i \in 1 .. n /\ n \in 1 .. n /\ i - 1 # n - 1
    BY <1>1
  <2> QED  BY <2>1, <1>7
<1> QED  BY <1>7, <1>8, <1>9, <1>10 DEF d

-------------------------------------------------------------------------------

(* Some numbers have a least one ...                                        *)
LEMMA HasLeast ==
    ASSUME NEW S, S \subseteq Nat, S # {}
    PROVE  \E m \in S : \A y \in S : m <= y
<1>1. PICK x \in S : \A y \in S : ~ (<<y, x>> \in OpToRel(<, Nat))
  BY NatLessThanWellFounded, WFMin
<1>2. ASSUME NEW y \in S
      PROVE  x <= y
  <2>1. x \in Nat /\ y \in Nat /\ ~(y < x)
    BY <1>1 DEF OpToRel
  <2> QED  BY <2>1
<1> QED  BY <1>2

(* ... and some backups a greatest one.                                     *)
LEMMA HasGreatest ==
    ASSUME NEW S, S \subseteq Backup!Backups, S # {}
    PROVE  \E m \in S : \A y \in S : y <= m
<1>1. MaxBackups \in Nat
  BY OperationsBounds DEF Backup!BackupAssumption
<1>2. \A b \in S : b \in Nat /\ MaxBackups - b \in Nat
  BY <1>1 DEF Backup!Backups
<1> DEFINE D == {MaxBackups - b : b \in S}
<1>3. D \subseteq Nat /\ D # {}
  BY <1>2
<1>4. PICK d \in D : \A e \in D : d <= e
  BY <1>3, HasLeast
<1>5. PICK m \in S : d = MaxBackups - m
  OBVIOUS
<1>6. ASSUME NEW y \in S
      PROVE  y <= m
  <2>1. MaxBackups - m <= MaxBackups - y
    BY <1>4, <1>5
  <2> QED  BY <2>1, <1>1, <1>2
<1> QED  BY <1>6

(* The succeeded backups are numbers, and have expiries.                    *)
LEMMA SucceededRows ==
    ASSUME KTypes
    PROVE  /\ Backup!Succeeded \subseteq Backup!Backups /\ Backup!Backups \subseteq Nat
           /\ \A b \in Backup!Backups : backup[b] \in BRows /\ backup[b].expires \in Nat
           /\ now \in Nat
<1>1. Backup!Succeeded \subseteq Backup!Backups /\ Backup!Backups \subseteq Nat
  BY DEF Backup!Succeeded, Backup!Backups
<1>2. \A b \in Backup!Backups : backup[b] \in BRows
  BY DEF KTypes
<1>3. \A r \in BRows : r.expires \in Nat
  BY DEF BRows
<1> QED  BY <1>1, <1>2, <1>3 DEF KTypes

(* The kept backup lasts when any does.                                     *)
LEMMA KeptLasts ==
    ASSUME NEW d \in Nat, KTypes, KOrder, NEW k, IsKept(d, k), Lasting(d) # {}
    PROVE  k \in Lasting(d)
<1>1. PICK l \in Lasting(d) : TRUE
  OBVIOUS
<1>2. l \in Backup!Succeeded /\ ~(backup[l].expires < d) /\ k \in Backup!Succeeded /\ l <= k
  BY <1>1 DEF Lasting, IsKept
<1>3. l \in Nat /\ k \in Nat /\ l \in Backup!Backups /\ k \in Backup!Backups
  BY <1>2, SucceededRows
<1>4. backup[k].status # "none"
  BY <1>2 DEF Backup!Succeeded
<1>5. backup[l].expires <= backup[k].expires
  <2>1. CASE l = k
    BY <2>1, <1>3, SucceededRows
  <2>2. CASE l < k
    BY <2>2, <1>3, <1>4 DEF KOrder
  <2> QED  BY <2>1, <2>2, <1>2, <1>3
<1> QED  BY <1>2, <1>3, <1>5, SucceededRows DEF Lasting

(* Exactly one backup is kept when some have succeeded.                     *)
LEMMA KeptIsOne ==
    ASSUME NEW d \in Nat, KTypes
    PROVE  /\ Backup!Succeeded # {} => \E k : IsKept(d, k)
           /\ \A j, k : IsKept(d, j) /\ IsKept(d, k) => j = k
<1>1. Backup!Succeeded # {} => \E k : IsKept(d, k)
  BY SucceededRows, HasLeast, HasGreatest DEF IsKept
<1>2. ASSUME NEW j, NEW k, IsKept(d, j), IsKept(d, k)
      PROVE  j = k
  <2>1. j \in Backup!Succeeded /\ k \in Backup!Succeeded /\ j \in Nat /\ k \in Nat
    BY <1>2, SucceededRows DEF IsKept
  <2>2. j <= k /\ k <= j
    BY <1>2, <2>1 DEF IsKept
  <2> QED  BY <2>1, <2>2
<1> QED  BY <1>1, <1>2

(* How a step may change what has succeeded: not at all, without one that   *)
(* is not kept, or with one newer than all.                                 *)
SuccessMoves(d) ==
    \/ Backup!Succeeded' = Backup!Succeeded
    \/ \E x \in Backup!Backups : ~IsKept(d, x) /\ Backup!Succeeded' = Backup!Succeeded \ {x}
    \/ \E n \in Backup!Backups : /\ backup[n].status = "verifying"
                                 /\ \A c \in Backup!Succeeded : c < n
                                 /\ Backup!Succeeded' = Backup!Succeeded \cup {n}

Changes(d) ==
    /\ now' = now
    /\ \A b \in Backup!Backups :
          /\ backup[b].status # "none" => backup'[b].expires = backup[b].expires
          /\ backup[b].status \in {"succeeded", "cleaned"} =>
               backup'[b].status \in {"succeeded", "cleaned"}
    /\ SuccessMoves(d)

(* Then what is kept after the step was kept before, or is the newest.      *)
LEMMA KeptBefore ==
    ASSUME NEW d \in Nat, KTypes, KOrder, Changes(d), NEW k \in Backup!Succeeded, IsKept(d, k)'
    PROVE  IsKept(d, k)
<1>0. k \in Backup!Succeeded' /\ k \in Nat
  BY SucceededRows DEF IsKept
<1>1. \A b \in Backup!Succeeded : b \in Backup!Backups /\ backup'[b].expires = backup[b].expires
  BY DEF Changes, Backup!Succeeded
<1>2. \A b \in Backup!Succeeded : b \in Backup!Succeeded' => (b \in Lasting(d)' <=> b \in Lasting(d))
  BY <1>1 DEF Lasting, Changes
<1>3. Lasting(d) \subseteq Backup!Succeeded /\ Lasting(d)' \subseteq Backup!Succeeded'
  BY DEF Lasting
<1>4. /\ Lasting(d)' = {} => \A c \in Backup!Succeeded' : k <= c
      /\ Lasting(d)' # {} => \A c \in Backup!Succeeded' : c <= k
  BY DEF IsKept
<1>5. CASE Backup!Succeeded' = Backup!Succeeded
  BY <1>2, <1>3, <1>4, <1>5 DEF IsKept
<1>6. ASSUME NEW x \in Backup!Backups, ~IsKept(d, x), Backup!Succeeded' = Backup!Succeeded \ {x}
      PROVE  IsKept(d, k)
  <2>1. PICK j : IsKept(d, j)
    BY KeptIsOne
  <2>2. j \in Backup!Succeeded /\ j # x /\ j \in Backup!Succeeded' /\ j \in Nat
    BY <1>6, <2>1, SucceededRows DEF IsKept
  <2>3. CASE Lasting(d) = {}
    <3>1. k <= j /\ j <= k
      BY <1>0, <1>2, <1>3, <1>4, <1>6, <2>1, <2>2, <2>3 DEF IsKept
    <3>2. j = k
      BY <3>1, <1>0, <2>2
    <3> QED  BY <3>2, <2>1
  <2>4. CASE Lasting(d) # {}
    <3>1. j \in Lasting(d)'
      BY <2>1, <2>2, <2>4, <1>2, KeptLasts
    <3>2. k <= j /\ j <= k
      BY <1>4, <2>1, <2>2, <2>4, <3>1 DEF IsKept
    <3>3. j = k
      BY <3>2, <1>0, <2>2
    <3> QED  BY <3>3, <2>1
  <2> QED  BY <2>3, <2>4
<1>7. ASSUME NEW n \in Backup!Backups, \A c \in Backup!Succeeded : c < n,
             Backup!Succeeded' = Backup!Succeeded \cup {n}
      PROVE  IsKept(d, k)
  <2>1. k < n /\ n \in Nat /\ n \in Backup!Succeeded'
    BY <1>7, SucceededRows
  <2>2. ~(n <= k)
    BY <2>1, <1>0
  <2>3. Lasting(d)' = {}
    BY <2>1, <2>2, <1>4
  <2>4. Lasting(d) = {}
    BY <2>3, <1>2, <1>3, <1>7
  <2> QED  BY <2>3, <2>4, <1>4, <1>7 DEF IsKept
<1> QED  BY <1>5, <1>6, <1>7 DEF Changes, SuccessMoves

(* So a list that spared the kept backup still does.                        *)
LEMMA SparesStill ==
    ASSUME NEW d \in Nat, KTypes, KOrder, Changes(d), NEW todo \in Seq(Backup!Backups), Spares(d, todo)
    PROVE  Spares(d, todo)'
<1> SUFFICES ASSUME NEW i \in 1 .. Len(todo)
             PROVE  backup'[todo[i]].status \in {"succeeded", "cleaned"} /\ ~IsKept(d, todo[i])'
  BY DEF Spares
<1>1. /\ todo[i] \in Backup!Backups
      /\ backup[todo[i]].status \in {"succeeded", "cleaned"} /\ ~IsKept(d, todo[i])
  BY DEF Spares
<1>2. ASSUME IsKept(d, todo[i])'
      PROVE  FALSE
  <2>1. todo[i] \in Backup!Succeeded'
    BY <1>2 DEF IsKept
  <2>2. todo[i] \in Backup!Succeeded
    BY <1>1, <2>1 DEF Changes, SuccessMoves, Backup!Succeeded
  <2> QED  BY <1>1, <1>2, <2>2, KeptBefore
<1> QED  BY <1>1, <1>2 DEF Changes

(* A retention run lists succeeded backups and never the kept one           *)
(* (retention_candidates): the limit keeps the newest, and a list of all    *)
(* loses its last, the oldest.                                              *)
LEMMA CandidatesSpare ==
    ASSUME NEW d \in Nat, d = now, KTypes, KOrder
    PROVE  /\ Backup!retention_candidates \in Seq(Backup!Backups)
           /\ Spares(d, Backup!retention_candidates)
<1> DEFINE S == Backup!Succeeded
           E == {b \in S : backup[b].expires < now}
           X == {b \in S : Backup!Cardinality(Backup!Newer(b)) >= MaxRetained} \ E
           D == Backup!Descending(E)
           F == Backup!Descending(X)
           del == D \o F
           L == Backup!retention_candidates
<1>1. L = IF Len(del) < Cardinality(S) \/ del = <<>> THEN del ELSE SubSeq(del, 1, Len(del) - 1)
  BY SameCount DEF Backup!retention_candidates
<1>2. /\ S \subseteq Backup!Backups
      /\ E \subseteq Backup!Backups /\ X \subseteq Backup!Backups /\ E \cup X \subseteq Backup!Backups
      /\ E \subseteq S /\ X \subseteq S /\ E \cap X = {}
  BY SucceededRows
<1>3. /\ E \subseteq Nat /\ IsFiniteSet(E) /\ Cardinality(E) \in Nat
      /\ X \subseteq Nat /\ IsFiniteSet(X) /\ Cardinality(X) \in Nat
      /\ S \subseteq Nat /\ IsFiniteSet(S) /\ Cardinality(S) \in Nat
  BY <1>2, SomeBackups
<1>4. /\ D \in Seq(E) /\ Len(D) = Cardinality(E)
      /\ \A i \in 1 .. Len(D) : D[i] \in E
      /\ E # {} => \A y \in E : D[Len(D)] <= y
      /\ \A i \in 1 .. Len(D) - 1 : D[i] # D[Len(D)]
  <2> HIDE DEF E
  <2> QED  BY <1>3, DescendingLists
<1>5. /\ F \in Seq(X) /\ Len(F) = Cardinality(X)
      /\ \A i \in 1 .. Len(F) : F[i] \in X
  <2> HIDE DEF X
  <2> QED  BY <1>3, DescendingLists
<1>7. ASSUME NEW k, IsKept(d, k), Lasting(d) # {}
      PROVE  k \notin E \cup X
  <2>1. k \in Lasting(d) /\ k \in S /\ k \in Nat
    BY <1>2, <1>7, KeptLasts, SucceededRows DEF IsKept
  <2>2. k \notin E
    BY <2>1 DEF Lasting
  <2>3. Backup!Newer(k) = {}
    <3> SUFFICES ASSUME NEW c \in Backup!Newer(k)
                 PROVE  FALSE
      OBVIOUS
    <3>1. c \in S /\ c > k /\ c \in Nat
      BY <1>3 DEF Backup!Newer
    <3>2. c <= k
      BY <1>7, <3>1 DEF IsKept
    <3> QED  BY <2>1, <3>1, <3>2
  <2>4. Backup!Cardinality(Backup!Newer(k)) = 0
    BY <2>3, SameCount, FS_EmptySet
  <2>5. MaxRetained \in Nat \ {0}
    BY OperationsBounds DEF Backup!BackupAssumption
  <2>6. ~(Backup!Cardinality(Backup!Newer(k)) >= MaxRetained)
    BY <2>4, <2>5
  <2> QED  BY <2>2, <2>6
<1>8. Lasting(d) = {} => E = S /\ X = {}
  BY <1>2 DEF Lasting
<1>9. D \in Seq(E \cup X) /\ F \in Seq(E \cup X)
  <2> HIDE DEF D, F, E, X
  <2> QED  BY <1>4, <1>5
<1> HIDE DEF D, F, E, X
<1>10. /\ del \in Seq(E \cup X) /\ Len(del) = Len(D) + Len(F)
       /\ \A i \in 1 .. Len(D) : del[i] = D[i]
  BY <1>9
<1> HIDE DEF del
<1>11. \A i \in 1 .. Len(del) : del[i] \in E \cup X
  BY <1>10
<1>12. ASSUME NEW k, IsKept(d, k), NEW i \in 1 .. Len(L), L[i] = k
       PROVE  FALSE
  <2>1. k \in S /\ S # {} /\ k \in Nat
    BY <1>12, <1>3 DEF IsKept
  <2>2. /\ i \in 1 .. Len(del) /\ L[i] = del[i]
        /\ Len(del) < Cardinality(S) \/ i < Len(del)
    <3>1. CASE L = del
      <4>1. i \in 1 .. Len(del) /\ L[i] = del[i]
        BY <3>1, <1>12
      <4>2. CASE Len(del) < Cardinality(S)
        BY <4>1, <4>2
      <4>3. CASE del = <<>>
        BY <4>1, <4>3
      <4>4. CASE L = SubSeq(del, 1, Len(del) - 1) /\ del # <<>>
        <5>1. Len(SubSeq(del, 1, Len(del) - 1)) = Len(del) - 1 /\ Len(del) \in Nat \ {0}
          BY <1>10, <4>4
        <5> QED  BY <3>1, <4>4, <5>1
      <4> QED  BY <1>1, <4>2, <4>3, <4>4
    <3>2. CASE L = SubSeq(del, 1, Len(del) - 1) /\ del # <<>>
      <4>1. Len(del) \in Nat \ {0}
        BY <1>10, <3>2
      <4>2. Len(L) = Len(del) - 1 /\ \A j \in 1 .. Len(del) - 1 : SubSeq(del, 1, Len(del) - 1)[j] = del[j]
        BY <1>10, <3>2, <4>1
      <4>3. i \in 1 .. Len(del) - 1
        BY <1>12, <4>2
      <4> QED  BY <3>2, <4>1, <4>2, <4>3
    <3> QED  BY <1>1, <3>1, <3>2
  <2>3. k \in E \cup X
    BY <1>11, <1>12, <2>2
  <2>4. Lasting(d) = {}
    BY <1>7, <1>12, <2>3
  <2>5. E = S /\ X = {} /\ Cardinality(X) = 0
    BY <1>8, <2>4, FS_EmptySet
  <2>6. Len(del) = Cardinality(S) /\ Len(D) = Len(del)
    BY <1>3, <1>4, <1>5, <1>10, <2>5
  <2>7. i \in 1 .. Len(D) - 1 /\ D[i] = k /\ Len(D) \in Nat
    BY <1>10, <1>12, <1>3, <2>2, <2>6
  <2>8. D[Len(D)] \in S /\ D[Len(D)] \in Nat /\ D[Len(D)] <= k
    <3>1. Len(D) \in 1 .. Len(D)
      BY <2>7
    <3> QED  BY <1>3, <1>4, <2>1, <2>5, <3>1
  <2>9. k <= D[Len(D)]
    BY <1>12, <2>4, <2>8 DEF IsKept
  <2>10. D[Len(D)] = k
    BY <2>1, <2>8, <2>9
  <2> QED  BY <1>4, <2>7, <2>10
<1>13. L \in Seq(E \cup X) /\ \A i \in 1 .. Len(L) : L[i] \in E \cup X
  <2>1. CASE L = del
    BY <2>1, <1>10, <1>11
  <2>2. CASE L = SubSeq(del, 1, Len(del) - 1) /\ del # <<>>
    <3>1. L \in Seq(E \cup X)
      BY <2>2, <1>10
    <3> QED  BY <3>1
  <2> QED  BY <1>1, <2>1, <2>2
<1>14. L \in Seq(Backup!Backups)
  BY <1>2, <1>13
<1>15. Spares(d, L)
  <2> HIDE DEF L
  <2> SUFFICES ASSUME NEW i \in 1 .. Len(L)
               PROVE  backup[L[i]].status \in {"succeeded", "cleaned"} /\ ~IsKept(d, L[i])
    BY DEF Spares
  <2>1. L[i] \in S
    BY <1>2, <1>13
  <2>2. ~IsKept(d, L[i])
    BY <1>12
  <2> QED  BY <2>1, <2>2 DEF Backup!Succeeded
<1> QED  BY <1>14, <1>15

-------------------------------------------------------------------------------

(* The smallest of some rows is one of them, and below the others.          *)
LEMMA SmallestIsLeast ==
    ASSUME NEW S, S \subseteq Nat, S # {}
    PROVE  Backup!Smallest(S) \in S /\ \A y \in S : Backup!Smallest(S) <= y
BY HasLeast DEF Backup!Smallest

(* The positions at which the worker's backup is known.                     *)
AtBackup == {"dump", "publish", "succeed", "cleanup"}

(* The status of one backup changes: it is taken up or goes on, succeeds as *)
(* the newest, or is cleaned by a run that does not spare it.               *)
StatusMoves(d, b, s) ==
    /\ backup' = [backup EXCEPT ![b].status = s] /\ now' = now
    /\ \/ /\ backup[b].status \in {"queued", "running", "verifying", "cleanup_required", "cleanup_failed"}
          /\ s \in {"running", "verifying", "cleanup_required", "cleaned", "cleanup_failed"}
          /\ backup[b].status = "queued" =>
               \A c \in Backup!Backups : c < b => backup[c].status # "queued"
       \/ /\ backup[b].status = "verifying" /\ s = "succeeded"
          /\ \A c \in Backup!Backups : c > b => backup[c].status \in {"none", "queued"}
       \/ /\ backup[b].status \in {"succeeded", "cleaned"} /\ s = "cleaned"
          /\ ~IsKept(d, b)

(* That keeps the order, and what has succeeded changes as it may.          *)
LEMMA StatusStep ==
    ASSUME NEW d \in Nat, KTypes, KOrder, NEW b \in Backup!Backups, NEW s, StatusMoves(d, b, s)
    PROVE  /\ backup' \in [Backup!Backups -> BRows]
           /\ backup'[b].status = s
           /\ \A c \in Backup!Backups : c # b => backup'[c] = backup[c]
           /\ KOrder' /\ Changes(d)
<1>1. /\ backup' \in [Backup!Backups -> BRows]
      /\ backup'[b].status = s /\ backup'[b].expires = backup[b].expires
      /\ \A c \in Backup!Backups : c # b => backup'[c] = backup[c]
      /\ now' = now
  BY DEF StatusMoves, KTypes, BRows
<1>2. /\ \A c \in Backup!Backups : backup'[c].expires = backup[c].expires
      /\ s \notin {"none", "queued"} /\ backup[b].status # "none"
      /\ Backup!Backups \subseteq Nat
  BY <1>1, SucceededRows DEF StatusMoves
<1>3. KOrder'
  <2>1. \A c \in Backup!Backups : backup'[c].expires <= now' + 1
    BY <1>1, <1>2 DEF KOrder
  <2>2. ASSUME NEW x \in Backup!Backups, NEW y \in Backup!Backups, x < y
        PROVE  /\ backup'[x].status = "none" => backup'[y].status = "none"
               /\ backup'[x].status = "queued" => backup'[y].status \in {"none", "queued"}
               /\ backup'[y].status # "none" => backup'[x].expires <= backup'[y].expires
    <3>1. /\ backup[x].status = "none" => backup[y].status = "none"
          /\ backup[x].status = "queued" => backup[y].status \in {"none", "queued"}
          /\ backup[y].status # "none" => backup[x].expires <= backup[y].expires
      BY <2>2 DEF KOrder
    <3>2. CASE y = b
      <4>1. backup[x].status # "queued" /\ x # b
        BY <2>2, <3>1, <3>2, <1>2 DEF StatusMoves
      <4> QED  BY <1>1, <1>2, <3>1, <3>2, <4>1
    <3>3. CASE y # b /\ x = b
      BY <1>1, <1>2, <3>1, <3>3
    <3>4. CASE y # b /\ x # b
      BY <1>1, <3>1, <3>4
    <3> QED  BY <3>2, <3>3, <3>4
  <2> QED  BY <2>1, <2>2 DEF KOrder
<1>4. Backup!Succeeded' = {c \in Backup!Backups : backup'[c].status = "succeeded"}
  BY DEF Backup!Succeeded
<1>5. SuccessMoves(d)
  <2>1. CASE backup[b].status \notin {"succeeded", "cleaned"} /\ s # "succeeded"
    <3>1. Backup!Succeeded' = Backup!Succeeded
      BY <1>1, <1>4, <2>1 DEF Backup!Succeeded
    <3> QED  BY <3>1 DEF SuccessMoves
  <2>2. CASE backup[b].status \in {"succeeded", "cleaned"} /\ s = "cleaned" /\ ~IsKept(d, b)
    <3>1. Backup!Succeeded' = Backup!Succeeded \ {b}
      BY <1>1, <1>4, <2>2 DEF Backup!Succeeded
    <3> QED  BY <3>1, <2>2 DEF SuccessMoves
  <2>3. CASE /\ backup[b].status = "verifying" /\ s = "succeeded"
             /\ \A c \in Backup!Backups : c > b => backup[c].status \in {"none", "queued"}
    <3>1. Backup!Succeeded' = Backup!Succeeded \cup {b}
      BY <1>1, <1>4, <2>3 DEF Backup!Succeeded
    <3>2. ASSUME NEW c \in Backup!Succeeded
          PROVE  c < b
      <4>1. c \in Backup!Backups /\ c # b /\ ~(c > b)
        BY <2>3 DEF Backup!Succeeded
      <4> QED  BY <4>1, <1>2
    <3> QED  BY <2>3, <3>1, <3>2 DEF SuccessMoves
  <2> QED  BY <2>1, <2>2, <2>3 DEF StatusMoves, SuccessMoves
<1>6. \A c \in Backup!Backups :
          backup[c].status \in {"succeeded", "cleaned"} => backup'[c].status \in {"succeeded", "cleaned"}
  BY <1>1 DEF StatusMoves
<1>7. Changes(d)
  <2>1. now' = now /\ \A c \in Backup!Backups :
            backup[c].status # "none" => backup'[c].expires = backup[c].expires
    BY <1>1, <1>2
  <2> QED  BY <2>1, <1>5, <1>6 DEF Changes
<1> QED  BY <1>1, <1>3, <1>7

(* A backup is queued in the first free row.                                *)
LEMMA InsertStep ==
    ASSUME NEW d \in Nat, KTypes, KOrder, NEW type \in {"manual", "scheduled"}, now' = now, Backup!FreeRows # {},
           backup' = [backup EXCEPT ![Backup!Smallest(Backup!FreeRows)] = Backup!NewBackup(type)]
    PROVE  LET b == Backup!Smallest(Backup!FreeRows)
           IN /\ b \in Backup!Backups /\ backup[b].status = "none"
              /\ backup' \in [Backup!Backups -> BRows]
              /\ backup'[b].status = "queued"
              /\ \A c \in Backup!Backups : c # b => backup'[c] = backup[c]
              /\ KOrder' /\ Changes(d)
<1> DEFINE b == Backup!Smallest(Backup!FreeRows)
<1>1. /\ b \in Backup!Backups /\ backup[b].status = "none"
      /\ \A c \in Backup!Backups : backup[c].status = "none" => b <= c
      /\ Backup!Backups \subseteq Nat
  <2>1. Backup!FreeRows \subseteq Nat
    BY SucceededRows DEF Backup!FreeRows
  <2> QED  BY <2>1, SmallestIsLeast, SucceededRows DEF Backup!FreeRows
<1> HIDE DEF b
<1>2. backup' = [backup EXCEPT ![b] = Backup!NewBackup(type)]
  BY DEF b
<1>3. /\ Backup!NewBackup(type) \in BRows
      /\ Backup!NewBackup(type).status = "queued" /\ Backup!NewBackup(type).expires = now + 1
      /\ now \in Nat
  BY DEF Backup!NewBackup, Backup!RetentionDays, BRows, KTypes
<1>4. /\ backup' \in [Backup!Backups -> BRows]
      /\ backup'[b].status = "queued" /\ backup'[b].expires = now + 1
      /\ \A c \in Backup!Backups : c # b => backup'[c] = backup[c]
  BY <1>1, <1>2, <1>3 DEF KTypes
<1>5. KOrder'
  <2>1. \A c \in Backup!Backups : backup'[c].expires <= now' + 1
    BY <1>3, <1>4 DEF KOrder
  <2>2. ASSUME NEW x \in Backup!Backups, NEW y \in Backup!Backups, x < y
        PROVE  /\ backup'[x].status = "none" => backup'[y].status = "none"
               /\ backup'[x].status = "queued" => backup'[y].status \in {"none", "queued"}
               /\ backup'[y].status # "none" => backup'[x].expires <= backup'[y].expires
    <3>1. /\ backup[x].status = "none" => backup[y].status = "none"
          /\ backup[x].status = "queued" => backup[y].status \in {"none", "queued"}
          /\ backup[y].status # "none" => backup[x].expires <= backup[y].expires
          /\ backup[x].expires <= now + 1
      BY <2>2 DEF KOrder
    <3>2. CASE y = b
      <4>1. x # b /\ backup[x].status # "none"
        BY <1>1, <2>2, <3>2
      <4> QED  BY <1>4, <3>1, <3>2, <4>1
    <3>3. CASE x = b /\ y # b
      BY <1>1, <1>4, <3>1, <3>3
    <3>4. CASE x # b /\ y # b
      BY <1>4, <3>1, <3>4
    <3> QED  BY <3>2, <3>3, <3>4
  <2> QED  BY <2>1, <2>2 DEF KOrder
<1>6. Changes(d)
  <2>1. Backup!Succeeded' = Backup!Succeeded
    BY <1>1, <1>4 DEF Backup!Succeeded
  <2>2. \A c \in Backup!Backups : backup[c].status # "none" => backup'[c] = backup[c]
    BY <1>1, <1>4
  <2> QED  BY <2>1, <2>2 DEF Changes, SuccessMoves
<1> QED  BY <1>1, <1>4, <1>5, <1>6 DEF b

(* A step outside the retention runs keeps the invariant when it changes    *)
(* the rows that way, and leaves the files of what has succeeded.           *)
LEMMA RowsStep ==
    ASSUME NEW d \in Nat, KInv(d), KTypes', KOrder', KWorker', Changes(d), ret' = ret, crashes' = crashes,
           \A b \in Backup!Succeeded' : \/ files'[b] = "complete"
                                        \/ b \in Backup!Succeeded /\ files'[b] = files[b]
    PROVE  KInv(d)'
<1>1. KLists(d)'
  <2> SUFFICES ASSUME NEW p \in Backup!Sweepers
               PROVE  /\ Spares(d, ret[p].todo)'
                      /\ ret'[p].step # "idle" => ret'[p].day = d
                      /\ ret'[p].step = "commit" => ret'[p].todo # <<>>
                      /\ ret'[p].step = "idle" => ret'[p].todo = <<>>
    BY DEF KLists
  <2>1. PICK todo \in Seq(Backup!Backups) : todo = ret[p].todo
    BY DEF KInv, KTypes
  <2>2. Spares(d, todo)
    BY <2>1 DEF KInv, KLists
  <2>3. Spares(d, todo)'
    BY <2>2, SparesStill DEF KInv
  <2>4. ret'[p].todo = todo
    BY <2>1
  <2>5. Spares(d, ret[p].todo)'
    BY <2>3, <2>4 DEF Spares
  <2> QED  BY <2>5 DEF KInv, KLists
<1>2. KWhole'
  BY DEF KInv, KWhole
<1> QED  BY <1>1, <1>2 DEF KInv

(* A step that leaves the backups, their files and the runs alone, and does *)
(* not go on with a backup.                                                 *)
LEMMA QuietStep ==
    ASSUME NEW d \in Nat, KInv(d), BTypes', UNCHANGED <<backup, files, ret, now, crashes>>,
           worker' = worker \/ worker'.step \notin AtBackup
    PROVE  KInv(d)' /\ Backup!Succeeded' = Backup!Succeeded
<1>1. Backup!Succeeded' = Backup!Succeeded /\ Lasting(d)' = Lasting(d)
  BY DEF Backup!Succeeded, Lasting
<1>2. \A k : IsKept(d, k)' <=> IsKept(d, k)
  BY <1>1 DEF IsKept
<1>3. KTypes' /\ KOrder'
  BY DEF KInv, KTypes, KOrder
<1>4. KWorker'
  BY DEF KInv, KWorker, AtBackup
<1>5. KLists(d)'
  BY <1>2 DEF KInv, KLists, Spares
<1>6. KWhole'
  BY <1>1 DEF KInv, KWhole
<1> QED  BY <1>1, <1>3, <1>4, <1>5, <1>6 DEF KInv

-------------------------------------------------------------------------------

(* While nothing died the kept backup is good.                              *)
KeptGood == \A d \in Nat : KInv(d) /\ crashes = 0 /\ Backup!Succeeded # {} => Backup!HasGood

(* It holds ...                                                             *)
LEMMA KeptIsGood == KeptGood
<1> SUFFICES ASSUME NEW d \in Nat, KInv(d), crashes = 0, Backup!Succeeded # {}
             PROVE  Backup!HasGood
  BY DEF KeptGood
<1>1. PICK k : IsKept(d, k)
  BY KeptIsOne DEF KInv
<1>2. k \in Backup!Succeeded
  BY <1>1 DEF IsKept
<1>3. ASSUME NEW p \in Backup!Sweepers, ret[p].step = "commit", ret[p].todo[1] = k
      PROVE  FALSE
  <2>1. ret[p].todo \in Seq(Backup!Backups) /\ ret[p].todo # <<>> /\ Spares(d, ret[p].todo)
    BY <1>3 DEF KInv, KTypes, KLists
  <2>2. 1 \in 1 .. Len(ret[p].todo)
    BY <2>1
  <2> QED  BY <1>1, <1>3, <2>1, <2>2 DEF Spares
<1> QED  BY <1>2, <1>3 DEF KInv, KWhole, Backup!HasGood

(* ... and what a step may change leaves a succeeded one.                   *)
LEMMA GoodStays ==
    ASSUME NEW d \in Nat, KInv(d), KInv(d)', crashes' = crashes, Changes(d) \/ Backup!Succeeded' = Backup!Succeeded
    PROVE  crashes = 0 /\ Backup!HasGood => Backup!HasGood'
<1> SUFFICES ASSUME crashes = 0, Backup!HasGood
             PROVE  Backup!HasGood'
  OBVIOUS
<1>1. Backup!Succeeded # {}
  BY DEF Backup!HasGood
<1>2. PICK k : IsKept(d, k)
  BY <1>1, KeptIsOne DEF KInv
<1>3. k \in Backup!Succeeded
  BY <1>2 DEF IsKept
<1>4. Backup!Succeeded' # {}
  <2>1. CASE Backup!Succeeded' = Backup!Succeeded
    BY <1>3, <2>1
  <2>2. CASE SuccessMoves(d)
    <3>1. ASSUME NEW x \in Backup!Backups, ~IsKept(d, x), Backup!Succeeded' = Backup!Succeeded \ {x}
          PROVE  k \in Backup!Succeeded'
      BY <1>2, <1>3, <3>1
    <3> QED  BY <1>3, <2>2, <3>1 DEF SuccessMoves
  <2> QED  BY <2>1, <2>2 DEF Changes
<1>5. KeptGood'
  BY KeptIsGood, PTL
<1> QED  BY <1>4, <1>5 DEF KeptGood

(* What every step is to keep.                                              *)
Keeps(d) == KInv(d)' /\ (crashes = 0 /\ Backup!HasGood => Backup!HasGood')

(* Requests and the restores leave the backups alone.                       *)
LEMMA OtherStep ==
    ASSUME NEW d \in Nat, KInv(d), BTypes',
           \/ Backup!CheckBackup \/ (\E b \in Backup!Backups : Backup!CheckRestore(b))
           \/ Backup!queue_restore \/ Backup!measure_tenant_usage
           \/ Backup!ResolveFails \/ Backup!update_schedule_after_backup \/ Backup!record_audit
           \/ Backup!RestoreStep
    PROVE  Keeps(d)
<1>1. UNCHANGED <<backup, files, ret, now, crashes>>
  BY DEF Backup!CheckBackup, Backup!CheckRestore, Backup!queue_restore, Backup!measure_tenant_usage,
     Backup!ResolveFails, Backup!update_schedule_after_backup, Backup!record_audit,
     Backup!RestoreStep, Backup!claim_next_restore_job, Backup!verify_backup_manifest,
     Backup!_fail_restore, Backup!_prepare_tenant_filestore, Backup!create_tenant_role,
     Backup!_pg_restore, Backup!run_tenant_odoo_container, Backup!Make,
     Backup!execute_clone_restore, Backup!execute_restore_job, Backup!RestoreRaises,
     Backup!rollback_clone_restore
<1>2. worker \in WRows
  BY DEF KInv, KTypes, BTypes
<1>3. worker' = worker \/ worker'.step \notin AtBackup
  <2>1. CASE \/ Backup!CheckBackup \/ (\E b \in Backup!Backups : Backup!CheckRestore(b))
             \/ Backup!queue_restore \/ Backup!measure_tenant_usage
    BY <2>1 DEF Backup!CheckBackup, Backup!CheckRestore, Backup!queue_restore,
                Backup!measure_tenant_usage
  <2>2. CASE worker' = Backup!Idle
    BY <2>2 DEF Backup!Idle, AtBackup
  <2>3. ASSUME NEW s \in (RSteps \cup BSteps) \ AtBackup, worker' = [worker EXCEPT !.step = s]
        PROVE  worker'.step \notin AtBackup
    BY <1>2, <2>3 DEF WRows
  <2>4. CASE Backup!claim_next_restore_job
    BY <2>4 DEF Backup!claim_next_restore_job, Backup!Idle, AtBackup
  <2>5. {"filestore", "role", "dump_in", "container", "health", "restored", "rollback", "retention"}
           \subseteq (RSteps \cup BSteps) \ AtBackup
    BY DEF RSteps, BSteps, AtBackup
  <2>6. CASE Backup!update_schedule_after_backup
    BY <2>3, <2>5, <2>6 DEF Backup!update_schedule_after_backup
  <2>7. CASE Backup!verify_backup_manifest \/ Backup!_pg_restore \/ Backup!execute_clone_restore
                \/ Backup!RestoreRaises
    BY <2>3, <2>5, <2>7 DEF Backup!verify_backup_manifest, Backup!_pg_restore,
                            Backup!execute_clone_restore, Backup!RestoreRaises
  <2>8. CASE Backup!_prepare_tenant_filestore \/ Backup!create_tenant_role
                \/ Backup!run_tenant_odoo_container
    BY <2>3, <2>5, <2>8 DEF Backup!_prepare_tenant_filestore, Backup!create_tenant_role,
                            Backup!run_tenant_odoo_container, Backup!Make
  <2>9. CASE Backup!ResolveFails \/ Backup!record_audit \/ Backup!_fail_restore
                \/ Backup!execute_restore_job \/ Backup!rollback_clone_restore
    BY <2>2, <2>9 DEF Backup!ResolveFails, Backup!record_audit, Backup!_fail_restore,
                      Backup!execute_restore_job, Backup!rollback_clone_restore
  <2> QED
    BY <2>1, <2>4, <2>6, <2>7, <2>8, <2>9 DEF Backup!RestoreStep
<1> QED  BY <1>1, <1>3, QuietStep, GoodStays DEF Keeps

(* A backup is queued, by a request or by the schedule.                     *)
LEMMA QueuedStep ==
    ASSUME NEW d \in Nat, KInv(d), BTypes', Backup!queue_backup \/ Backup!process_due_scheduled_backups
    PROVE  Keeps(d)
<1>1. UNCHANGED <<files, ret, now, crashes, worker>>
  BY DEF Backup!queue_backup, Backup!process_due_scheduled_backups
<1>2. CASE backup' = backup
  BY <1>1, <1>2, QuietStep, GoodStays DEF Keeps
<1>3. ASSUME NEW type \in {"manual", "scheduled"}, Backup!FreeRows # {},
             backup' = [backup EXCEPT ![Backup!Smallest(Backup!FreeRows)] = Backup!NewBackup(type)]
      PROVE  Keeps(d)
  <2>1. PICK b \in Backup!Backups :
            /\ backup[b].status = "none"
            /\ backup' \in [Backup!Backups -> BRows]
            /\ backup'[b].status = "queued"
            /\ \A c \in Backup!Backups : c # b => backup'[c] = backup[c]
            /\ KOrder' /\ Changes(d)
    BY <1>1, <1>3, InsertStep DEF KInv
  <2>2. KTypes'
    BY <1>1, <2>1 DEF KInv, KTypes
  <2>3. KWorker'
    BY <1>1, <2>1 DEF KInv, KWorker
  <2>4. Backup!Succeeded' = Backup!Succeeded
    BY <2>1 DEF Backup!Succeeded
  <2>5. KInv(d)'
    BY <1>1, <2>1, <2>2, <2>3, <2>4, RowsStep
  <2> QED  BY <1>1, <2>4, <2>5, GoodStays DEF Keeps
<1> QED  BY <1>2, <1>3 DEF Backup!queue_backup, Backup!process_due_scheduled_backups

(* The worker takes a backup up or goes on with it, up to its success, its  *)
(* failure and its removal.                                                 *)
LEMMA WorkerRow ==
    ASSUME NEW d \in Nat, KInv(d), BTypes', NEW b \in Backup!Backups, NEW s, StatusMoves(d, b, s),
           UNCHANGED <<ret, crashes>>,
           files' \in [Backup!Backups -> {"none", "staging", "partial", "complete"}],
           \A c \in Backup!Backups : c # b => files'[c] = files[c],
           s = "succeeded" => files'[b] = "complete",
           \A c \in Backup!Backups : c > b /\ worker'.step \in {"dump", "publish", "succeed"} =>
               backup[c].status \in {"none", "queued"},
           backup[b].status \notin {"succeeded", "cleaned"},
           worker'.step \in AtBackup => worker'.b = b /\ s \notin {"succeeded", "cleaned"},
           worker'.step \in {"publish", "succeed"} => s = "verifying",
           worker'.step = "succeed" => files'[b] = "complete"
    PROVE  Keeps(d)
<1>1. /\ backup' \in [Backup!Backups -> BRows]
      /\ backup'[b].status = s
      /\ \A c \in Backup!Backups : c # b => backup'[c] = backup[c]
      /\ KOrder' /\ Changes(d)
  BY StatusStep DEF KInv
<1>2. KTypes'
  BY <1>1 DEF KInv, KTypes, Changes
<1>3. s \notin {"none", "queued"}
  BY DEF StatusMoves
<1>4. KWorker'
  <2>1. \A c \in Backup!Backups : c > b => c # b
    BY SucceededRows DEF KInv
  <2> QED  BY <1>1, <1>3, <2>1 DEF KWorker, AtBackup
<1>5. \A c \in Backup!Succeeded' : \/ files'[c] = "complete"
                                   \/ c \in Backup!Succeeded /\ files'[c] = files[c]
  BY <1>1 DEF Backup!Succeeded
<1>6. KInv(d)'
  BY <1>1, <1>2, <1>4, <1>5, RowsStep
<1> QED  BY <1>1, <1>6, GoodStays DEF Keeps

(* Each of the worker's steps on a backup is of that kind.                  *)
LEMMA BackupWork ==
    ASSUME NEW d \in Nat, KInv(d), BTypes', ~LateFaults,
           \/ Backup!claim_next_backup_job \/ Backup!Publish \/ Backup!Dump \/ Backup!Succeed
           \/ Backup!_fail_backup \/ Backup!Cleanup
           \/ \E b \in Backup!Backups : Backup!reconcile_stale_backup_jobs(b)
    PROVE  Keeps(d)
<1>0. /\ worker \in WRows /\ BTypes /\ Backup!Backups \subseteq Nat
      /\ backup \in [Backup!Backups -> BRows]
      /\ files \in [Backup!Backups -> {"none", "staging", "partial", "complete"}]
  BY SucceededRows DEF KInv, KTypes, BTypes
<1>1. CASE Backup!claim_next_backup_job
  <2>1. PICK b : b = Backup!Smallest(Backup!Queued)
    OBVIOUS
  <2>2. /\ b \in Backup!Backups /\ backup[b].status = "queued"
        /\ \A c \in Backup!Backups : backup[c].status = "queued" => b <= c
    <3>1. Backup!Queued \subseteq Nat /\ Backup!Queued # {}
      BY <1>0, <1>1 DEF Backup!Queued, Backup!claim_next_backup_job
    <3> QED  BY <2>1, <3>1, SmallestIsLeast DEF Backup!Queued
  <2>3. \A c \in Backup!Backups : c < b => backup[c].status # "queued"
    BY <1>0, <2>2
  <2>4. \A c \in Backup!Backups : c > b => backup[c].status \in {"none", "queued"}
    BY <1>0, <2>2 DEF KInv, KOrder
  <2>5. StatusMoves(d, b, "running")
    BY <1>1, <2>1, <2>2, <2>3 DEF StatusMoves, Backup!claim_next_backup_job
  <2>6. worker'.step = "dump" /\ worker'.b = b
    BY <1>1, <2>1 DEF Backup!claim_next_backup_job, Backup!Idle
  <2>7. UNCHANGED <<ret, crashes, files>>
    BY <1>1 DEF Backup!claim_next_backup_job
  <2> QED  BY <1>0, <2>2, <2>4, <2>5, <2>6, <2>7, WorkerRow
<1>2. ASSUME worker.step \in {"dump", "publish", "succeed", "cleanup"}
      PROVE  /\ worker.b \in Backup!Backups
             /\ backup[worker.b].status \notin {"none", "queued", "succeeded", "cleaned"}
             /\ worker.step # "cleanup" => \A c \in Backup!Backups : c > worker.b =>
                    backup[c].status \in {"none", "queued"}
  BY <1>2 DEF KInv, KWorker
<1>3. \A s \in BSteps : [worker EXCEPT !.step = s].step = s /\ [worker EXCEPT !.step = s].b = worker.b
  BY <1>0 DEF WRows
<1> DEFINE w == worker.b
<1>4. CASE Backup!Dump
  <2>1. worker.step = "dump" /\ worker' = [worker EXCEPT !.step = "publish"]
    BY <1>4 DEF Backup!Dump
  <2>2. worker'.step = "publish" /\ worker'.b = w
    BY <2>1, <1>3 DEF BSteps
  <2>3. /\ StatusMoves(d, w, "verifying") /\ UNCHANGED <<ret, crashes>>
        /\ files' = [files EXCEPT ![w] = "staging"]
    BY <1>2, <1>4, <1>0, <2>1 DEF StatusMoves, Backup!Dump, BRows
  <2> HIDE DEF w
  <2> QED  BY <1>0, <1>2, <2>1, <2>2, <2>3, WorkerRow DEF w

<1>5. CASE Backup!Publish
  <2>1. worker.step = "publish" /\ worker' = [worker EXCEPT !.step = "succeed"]
    BY <1>5 DEF Backup!Publish
  <2>2. worker'.step = "succeed" /\ worker'.b = w
    BY <2>1, <1>3 DEF BSteps
  <2>3. /\ backup' = backup /\ now' = now /\ UNCHANGED <<ret, crashes>>
        /\ files' = [files EXCEPT ![w] = "complete"]
    BY <1>5 DEF Backup!Publish
  <2>4. KTypes' /\ KOrder'
    BY <1>0, <1>2, <2>1, <2>3 DEF KInv, KTypes, KOrder
  <2>5. KWorker'
    <3>1. backup[w].status = "verifying" /\ files'[w] = "complete" /\ worker'.b = worker.b
      BY <1>0, <1>2, <2>1, <2>2, <2>3 DEF KInv, KWorker
    <3> QED  BY <1>2, <2>1, <2>2, <2>3, <3>1 DEF KWorker
  <2>6. Backup!Succeeded' = Backup!Succeeded /\ Changes(d)
    BY <2>3 DEF Backup!Succeeded, Changes, SuccessMoves
  <2>7. \A c \in Backup!Succeeded' : files'[c] = files[c]
    BY <1>0, <1>2, <2>1, <2>3, <2>6 DEF Backup!Succeeded
  <2>8. KInv(d)'
    BY <2>3, <2>4, <2>5, <2>6, <2>7, RowsStep
  <2> QED  BY <2>3, <2>6, <2>8, GoodStays DEF Keeps
<1>6. CASE Backup!Succeed
  <2>1. worker.step = "succeed" /\ files[w] = "complete" /\ UNCHANGED <<files, ret, crashes>>
    BY <1>6 DEF Backup!Succeed, KInv, KWorker
  <2>2. worker'.step \notin AtBackup
    <3>1. \E s \in {"schedule", "audit"} : worker' = [worker EXCEPT !.step = s]
      BY <1>6 DEF Backup!Succeed
    <3> QED  BY <3>1, <1>3 DEF BSteps, AtBackup
  <2>3. /\ StatusMoves(d, w, "succeeded") /\ backup[w].status = "verifying"
        /\ files'[w] = "complete"
        /\ files' \in [Backup!Backups -> {"none", "staging", "partial", "complete"}]
        /\ \A c \in Backup!Backups : files'[c] = files[c]
    BY <1>0, <1>2, <1>6, <2>1 DEF StatusMoves, Backup!Succeed, KInv, KWorker
  <2>4. worker'.step \notin {"dump", "publish", "succeed"}
    BY <2>2 DEF AtBackup
  <2> HIDE DEF w
  <2> QED  BY <1>2, <2>1, <2>2, <2>3, <2>4, WorkerRow DEF w
<1>7. CASE Backup!_fail_backup
  <2>1. worker.step \in {"dump", "publish", "succeed"} /\ worker' = [worker EXCEPT !.step = "cleanup"]
    BY <1>7 DEF Backup!_fail_backup
  <2>2. worker'.step = "cleanup" /\ worker'.b = w
    BY <2>1, <1>3 DEF BSteps
  <2>3. /\ StatusMoves(d, w, "cleanup_required") /\ UNCHANGED <<ret, crashes>>
        /\ files' \in [Backup!Backups -> {"none", "staging", "partial", "complete"}]
        /\ \A c \in Backup!Backups : c # w => files'[c] = files[c]
    BY <1>2, <1>7, <1>0, <2>1 DEF StatusMoves, Backup!_fail_backup, BRows
  <2> HIDE DEF w
  <2> QED  BY <1>0, <1>2, <2>1, <2>2, <2>3, WorkerRow DEF w
<1>8. CASE Backup!Cleanup
  <2>1. worker.step = "cleanup" /\ worker' = Backup!Idle /\ UNCHANGED <<ret, crashes, now>>
    BY <1>8 DEF Backup!Cleanup
  <2>2. worker'.step \notin AtBackup
    BY <2>1 DEF Backup!Idle, AtBackup
  <2>3. CASE UNCHANGED <<backup, files>>
    BY <2>1, <2>2, <2>3, QuietStep, GoodStays DEF Keeps
  <2>4. ASSUME NEW s \in {"cleaned", "cleanup_failed"},
               backup' = [backup EXCEPT ![w].status = s],
               files' = files \/ files' = [files EXCEPT ![w] = "none"]
        PROVE  Keeps(d)
    <3>1. /\ StatusMoves(d, w, s)
          /\ files' \in [Backup!Backups -> {"none", "staging", "partial", "complete"}]
          /\ \A c \in Backup!Backups : c # w => files'[c] = files[c]
      BY <1>2, <1>0, <2>1, <2>4 DEF StatusMoves, BRows
    <3> HIDE DEF w
    <3> QED  BY <1>0, <1>2, <2>1, <2>2, <3>1, WorkerRow DEF w, AtBackup
  <2> QED  BY <1>8, <2>3, <2>4 DEF Backup!Cleanup
<1>9. ASSUME NEW b \in Backup!Backups, Backup!reconcile_stale_backup_jobs(b)
      PROVE  Keeps(d)
  <2>1. worker'.step = "cleanup" /\ worker'.b = b
    BY <1>9 DEF Backup!reconcile_stale_backup_jobs, Backup!Idle
  <2>2. /\ StatusMoves(d, b, "cleanup_required") /\ UNCHANGED <<ret, crashes, files>>
        /\ backup[b].status \notin {"succeeded", "cleaned"}
    BY <1>9 DEF StatusMoves, Backup!reconcile_stale_backup_jobs
  <2> QED  BY <1>0, <2>1, <2>2, WorkerRow
<1> QED  BY <1>1, <1>4, <1>5, <1>6, <1>7, <1>8, <1>9

-------------------------------------------------------------------------------

(* A step of a retention run changes its own list only, and the rows of     *)
(* backups that are not kept.                                               *)
LEMMA ListStep ==
    ASSUME NEW d \in Nat, KInv(d), NEW p \in Backup!Sweepers, NEW new, ret' = [ret EXCEPT ![p] = new],
           new \in [step : {"idle", "remove", "commit"}, todo : Seq(Backup!Backups), day : Nat],
           Spares(d, new.todo),
           new.step # "idle" => new.day = d,
           new.step = "commit" => new.todo # <<>>,
           new.step = "idle" => new.todo = <<>>,
           Changes(d), crashes' = crashes, KTypes', KOrder', KWorker', KWhole'
    PROVE  Keeps(d)
<1>1. ASSUME NEW q \in Backup!Sweepers
      PROVE  /\ Spares(d, ret[q].todo)'
             /\ ret'[q].step # "idle" => ret'[q].day = d
             /\ ret'[q].step = "commit" => ret'[q].todo # <<>>
             /\ ret'[q].step = "idle" => ret'[q].todo = <<>>
  <2>1. PICK todo \in Seq(Backup!Backups) : todo = ret'[q].todo
    BY DEF KTypes
  <2>2. /\ Spares(d, todo)
        /\ ret'[q].step # "idle" => ret'[q].day = d
        /\ ret'[q].step = "commit" => todo # <<>>
        /\ ret'[q].step = "idle" => todo = <<>>
    <3>1. CASE q = p
      <4>1. ret'[q] = new
        BY <3>1 DEF KInv, KTypes
      <4> QED  BY <2>1, <4>1
    <3>2. CASE q # p
      <4>1. ret'[q] = ret[q]
        BY <3>2 DEF KInv, KTypes
      <4> QED  BY <2>1, <4>1 DEF KInv, KLists
    <3> QED  BY <3>1, <3>2
  <2>3. Spares(d, todo)'
    BY <2>2, SparesStill DEF KInv
  <2>4. Spares(d, ret[q].todo)'
    BY <2>1, <2>3 DEF Spares
  <2> QED  BY <2>1, <2>2, <2>4
<1>2. KLists(d)'
  BY <1>1 DEF KLists
<1>3. KInv(d)'
  BY <1>2 DEF KInv
<1> QED  BY <1>3, GoodStays DEF Keeps

(* A run takes its list, of the day the others have theirs of.              *)
LEMMA StartToday ==
    ASSUME NEW d \in Nat, d = now, KInv(d), BTypes', NEW p \in Backup!Sweepers, Backup!StartRetention(p)
    PROVE  Keeps(d)
<1> DEFINE new == [step |-> "remove", todo |-> Backup!retention_candidates, day |-> now]
<1>1. /\ ret[p].step = "idle" /\ ret' = [ret EXCEPT ![p] = new]
      /\ UNCHANGED <<backup, files, now, crashes>>
      /\ worker' = worker \/ worker' = [worker EXCEPT !.step = "sweep"]
  BY DEF Backup!StartRetention
<1>2. Backup!retention_candidates \in Seq(Backup!Backups) /\ Spares(d, Backup!retention_candidates)
  BY CandidatesSpare DEF KInv
<1>3. /\ new \in [step : {"idle", "remove", "commit"}, todo : Seq(Backup!Backups), day : Nat]
      /\ Spares(d, new.todo) /\ new.step = "remove" /\ new.day = d
  BY <1>2
<1> HIDE DEF new
<1>4. Changes(d) /\ Backup!Succeeded' = Backup!Succeeded
  BY <1>1 DEF Changes, SuccessMoves, Backup!Succeeded
<1>5. KTypes' /\ KOrder'
  BY <1>1, <1>3 DEF KInv, KTypes, KOrder
<1>6. worker' = worker \/ worker'.step \notin AtBackup
  BY <1>1 DEF KInv, KTypes, BTypes, WRows, AtBackup
<1>7. KWorker'
  BY <1>1, <1>6 DEF KInv, KWorker, AtBackup
<1>8. \A q \in Backup!Sweepers : ret[q].step = "commit" => ret'[q] = ret[q]
  BY <1>1 DEF KInv, KTypes
<1>9. KWhole'
  BY <1>1, <1>4, <1>8 DEF KInv, KWhole
<1> QED  BY <1>1, <1>3, <1>4, <1>5, <1>7, <1>9, ListStep

(* When it does not begin on a later day than another, either there is no   *)
(* other or they are all of today.                                          *)
LEMMA StartStep ==
    ASSUME NEW d \in Nat, KInv(d), BTypes', NEW p \in Backup!Sweepers, Backup!StartRetention(p),
           ~straddled'
    PROVE  \E e \in Nat : Keeps(e)
<1>1. now \in Nat /\ \A q \in Backup!Sweepers : ret[q].step = "idle" \/ ret[q].day = now
  BY DEF Backup!StartRetention, KInv, KTypes
<1>2. KLists(now)
  <2>1. CASE d = now
    BY <2>1 DEF KInv
  <2>2. CASE d # now
    <3>1. \A q \in Backup!Sweepers : ret[q].step = "idle" /\ ret[q].todo = <<>>
      BY <1>1, <2>2 DEF KInv, KLists
    <3> QED  BY <3>1 DEF KLists, Spares
  <2> QED  BY <2>1, <2>2
<1>3. KInv(now)
  BY <1>2 DEF KInv
<1>4. PICK e \in Nat : e = now
  BY <1>1
<1>5. KInv(e)
  BY <1>3, <1>4
<1> QED  BY <1>4, <1>5, StartToday

(* A list without its head spares what it spared.                           *)
LEMMA TailSpares ==
    ASSUME NEW d \in Nat, KTypes, NEW todo \in Seq(Backup!Backups), todo # <<>>, Spares(d, todo)
    PROVE  /\ Tail(todo) \in Seq(Backup!Backups) /\ Spares(d, Tail(todo))
           /\ Head(todo) = todo[1] /\ todo[1] \in Backup!Backups
           /\ backup[todo[1]].status \in {"succeeded", "cleaned"} /\ ~IsKept(d, todo[1])
<1>1. /\ Tail(todo) \in Seq(Backup!Backups) /\ Len(todo) \in Nat \ {0}
      /\ Len(Tail(todo)) = Len(todo) - 1
      /\ \A i \in 1 .. Len(Tail(todo)) : Tail(todo)[i] = todo[i + 1]
      /\ Head(todo) = todo[1] /\ todo[1] \in Backup!Backups
  OBVIOUS
<1>2. \A i \in 1 .. Len(Tail(todo)) : i + 1 \in 1 .. Len(todo)
  BY <1>1
<1>3. 1 \in 1 .. Len(todo)
  BY <1>1
<1> QED  BY <1>1, <1>2, <1>3 DEF Spares

(* The files of the next one go, or their removal fails and it is passed by.*)
LEMMA RemoveFilesStep ==
    ASSUME NEW d \in Nat, KInv(d), BTypes', NEW p \in Backup!Sweepers, Backup!RemoveFiles(p)
    PROVE  Keeps(d)
<1>1. PICK todo \in Seq(Backup!Backups) : todo = ret[p].todo
  BY DEF KInv, KTypes
<1>2. /\ ret[p].step = "remove" /\ ret[p].day = d /\ todo # <<>> /\ Spares(d, todo)
      /\ UNCHANGED <<backup, now, crashes, worker>>
  BY <1>1 DEF Backup!RemoveFiles, KInv, KLists
<1>3. /\ Tail(todo) \in Seq(Backup!Backups) /\ Spares(d, Tail(todo))
      /\ Head(todo) = todo[1] /\ todo[1] \in Backup!Backups
      /\ backup[todo[1]].status \in {"succeeded", "cleaned"}
  BY <1>2, TailSpares DEF KInv
<1>4. Changes(d) /\ Backup!Succeeded' = Backup!Succeeded /\ KOrder'
  BY <1>2 DEF Changes, SuccessMoves, Backup!Succeeded, KInv, KOrder
<1>5. ret[p] \in [step : {"idle", "remove", "commit"}, todo : Seq(Backup!Backups), day : Nat]
  BY DEF KInv, KTypes
<1>6. CASE files' = files /\ ret' = [ret EXCEPT ![p].todo = Tail(@)]
  <2>1. PICK new : new = [ret[p] EXCEPT !.todo = Tail(todo)]
    OBVIOUS
  <2>2. /\ ret' = [ret EXCEPT ![p] = new]
        /\ new \in [step : {"idle", "remove", "commit"}, todo : Seq(Backup!Backups), day : Nat]
        /\ new.todo = Tail(todo) /\ new.step = "remove" /\ new.day = d
    BY <1>1, <1>2, <1>3, <1>5, <1>6, <2>1
  <2>3. KTypes'
    BY <1>2, <1>6, <2>2 DEF KInv, KTypes
  <2>7. KWorker'
    BY <1>2, <1>6 DEF KInv, KWorker
  <2>4. \A q \in Backup!Sweepers : ret[q].step = "commit" => ret'[q] = ret[q]
    BY <1>2, <2>2 DEF KInv, KTypes
  <2>5. KWhole'
    BY <1>2, <1>4, <1>6, <2>4 DEF KInv, KWhole
  <2>6. Spares(d, new.todo)
    BY <1>3, <2>2
  <2> QED  BY <1>2, <1>4, <2>2, <2>3, <2>5, <2>6, <2>7, ListStep
<1>7. CASE files' = [files EXCEPT ![todo[1]] = "none"] /\ ret' = [ret EXCEPT ![p].step = "commit"]
  <2>1. PICK new : new = [ret[p] EXCEPT !.step = "commit"]
    OBVIOUS
  <2>2. /\ ret' = [ret EXCEPT ![p] = new]
        /\ new \in [step : {"idle", "remove", "commit"}, todo : Seq(Backup!Backups), day : Nat]
        /\ new.todo = todo /\ new.step = "commit" /\ new.day = d
    BY <1>1, <1>2, <1>5, <1>7, <2>1
  <2>3. KTypes'
    BY <1>2, <1>7, <2>2 DEF KInv, KTypes
  <2>4. worker.step \in {"dump", "publish", "succeed", "cleanup"} => worker.b # todo[1]
    BY <1>3 DEF KInv, KWorker
  <2>5. KWorker'
    BY <1>2, <1>3, <1>7, <2>4 DEF KInv, KTypes, KWorker
  <2>6. \A q \in Backup!Sweepers : ret[q].step = "commit" => ret'[q] = ret[q]
    BY <1>2, <2>2 DEF KInv, KTypes
  <2>7. ret'[p].step = "commit" /\ ret'[p].todo[1] = todo[1]
    BY <2>2 DEF KInv, KTypes
  <2>8. \A b \in Backup!Backups : b # todo[1] => files'[b] = files[b]
    BY <1>7 DEF KInv, KTypes
  <2>9. KWhole'
    <3> SUFFICES ASSUME crashes = 0, NEW b \in Backup!Succeeded
                 PROVE  \/ files'[b] = "complete"
                        \/ \E q \in Backup!Sweepers : ret'[q].step = "commit" /\ ret'[q].todo[1] = b
      BY <1>2, <1>4 DEF KWhole
    <3>1. CASE b = todo[1]
      BY <2>7, <3>1
    <3>2. CASE b # todo[1]
      <4>1. b \in Backup!Backups /\ files'[b] = files[b]
        BY <2>8, <3>2 DEF Backup!Succeeded
      <4> QED  BY <2>6, <4>1 DEF KInv, KWhole
    <3> QED  BY <3>1, <3>2
  <2>10. Spares(d, new.todo) /\ new.todo # <<>>
    BY <1>2, <2>2
  <2> QED  BY <1>2, <1>4, <2>2, <2>3, <2>5, <2>9, <2>10, ListStep
<1> QED  BY <1>1, <1>3, <1>6, <1>7 DEF Backup!RemoveFiles

(* It is recorded as cleaned.                                               *)
LEMMA ApplyStep ==
    ASSUME NEW d \in Nat, KInv(d), BTypes', NEW p \in Backup!Sweepers, Backup!apply_retention(p)
    PROVE  Keeps(d)
<1>1. PICK todo \in Seq(Backup!Backups) : todo = ret[p].todo
  BY DEF KInv, KTypes
<1>2. /\ ret[p].step = "commit" /\ ret[p].day = d /\ todo # <<>> /\ Spares(d, todo)
      /\ UNCHANGED <<files, now, crashes, worker>>
  BY <1>1 DEF Backup!apply_retention, KInv, KLists
<1>3. /\ Tail(todo) \in Seq(Backup!Backups) /\ Spares(d, Tail(todo))
      /\ Head(todo) = todo[1] /\ todo[1] \in Backup!Backups
      /\ backup[todo[1]].status \in {"succeeded", "cleaned"} /\ ~IsKept(d, todo[1])
  BY <1>2, TailSpares DEF KInv
<1>4. PICK x \in Backup!Backups : x = todo[1]
  BY <1>3
<1>5. StatusMoves(d, x, "cleaned")
  BY <1>1, <1>2, <1>3, <1>4 DEF Backup!apply_retention, StatusMoves
<1>6. /\ backup' \in [Backup!Backups -> BRows]
      /\ backup'[x].status = "cleaned"
      /\ \A c \in Backup!Backups : c # x => backup'[c] = backup[c]
      /\ KOrder' /\ Changes(d)
  BY <1>5, StatusStep DEF KInv
<1>7. PICK new : new = [ret[p] EXCEPT !.step = "remove", !.todo = Tail(todo)]
  OBVIOUS
<1>8. /\ ret' = [ret EXCEPT ![p] = new]
      /\ new \in [step : {"idle", "remove", "commit"}, todo : Seq(Backup!Backups), day : Nat]
      /\ new.todo = Tail(todo) /\ new.step = "remove" /\ new.day = d
  <2>1. ret[p] \in [step : {"idle", "remove", "commit"}, todo : Seq(Backup!Backups), day : Nat]
    BY DEF KInv, KTypes
  <2> QED  BY <1>1, <1>2, <1>3, <1>7, <2>1 DEF Backup!apply_retention
<1>9. KTypes'
  BY <1>2, <1>6, <1>8 DEF KInv, KTypes
<1>10. worker.step \in {"dump", "publish", "succeed", "cleanup"} =>
           worker.b # x /\ (worker.step # "cleanup" => ~(x > worker.b))
  BY <1>3, <1>4 DEF KInv, KWorker
<1>11. KWorker'
  BY <1>2, <1>6, <1>10 DEF KInv, KWorker
<1>12. \A q \in Backup!Sweepers : q # p => ret'[q] = ret[q]
  BY <1>8 DEF KInv, KTypes
<1>13. KWhole'
  <2> SUFFICES ASSUME crashes = 0, NEW b \in Backup!Succeeded'
               PROVE  \/ files'[b] = "complete"
                      \/ \E q \in Backup!Sweepers : ret'[q].step = "commit" /\ ret'[q].todo[1] = b
    BY <1>2 DEF KWhole
  <2>1. b # x /\ b \in Backup!Succeeded
    BY <1>6 DEF Backup!Succeeded
  <2>2. CASE files[b] = "complete"
    BY <1>2, <2>2
  <2>3. ASSUME NEW q \in Backup!Sweepers, ret[q].step = "commit", ret[q].todo[1] = b
        PROVE  ret'[q].step = "commit" /\ ret'[q].todo[1] = b
    <3>1. q # p
      BY <1>1, <1>4, <2>1, <2>3
    <3> QED  BY <1>12, <2>3, <3>1
  <2> QED  BY <2>1, <2>2, <2>3 DEF KInv, KWhole
<1>14. Spares(d, new.todo)
  BY <1>3, <1>8
<1> QED  BY <1>2, <1>6, <1>8, <1>9, <1>11, <1>13, <1>14, ListStep

(* A run ends, or its process dies with it.                                 *)
LEMMA EndStep ==
    ASSUME NEW d \in Nat, KInv(d), BTypes', NEW p \in Backup!Sweepers, Backup!EndRetention(p)
    PROVE  Keeps(d)
<1>1. /\ ret[p].step = "remove" /\ ret' = [ret EXCEPT ![p] = Backup!NoSweep]
      /\ UNCHANGED <<backup, files, now, crashes>>
  BY DEF Backup!EndRetention
<1>2. worker' = worker \/ worker'.step \notin AtBackup
  BY DEF Backup!EndRetention, Backup!Idle, KInv, KTypes, BTypes, WRows, AtBackup
<1>3. /\ Backup!NoSweep \in [step : {"idle", "remove", "commit"}, todo : Seq(Backup!Backups), day : Nat]
      /\ Spares(d, Backup!NoSweep.todo) /\ Backup!NoSweep.step = "idle" /\ Backup!NoSweep.todo = <<>>
  BY DEF Backup!NoSweep, Spares
<1>4. Changes(d) /\ Backup!Succeeded' = Backup!Succeeded
  BY <1>1 DEF Changes, SuccessMoves, Backup!Succeeded
<1>5. KTypes' /\ KOrder'
  BY <1>1, <1>3 DEF KInv, KTypes, KOrder
<1>6. KWorker'
  BY <1>1, <1>2 DEF KInv, KWorker, AtBackup
<1>7. \A q \in Backup!Sweepers : ret[q].step = "commit" => ret'[q] = ret[q]
  BY <1>1 DEF KInv, KTypes
<1>8. KWhole'
  BY <1>1, <1>4, <1>7 DEF KInv, KWhole
<1> QED  BY <1>1, <1>3, <1>4, <1>5, <1>6, <1>8, ListStep

(* What is killed leaves the succeeded backups with their files.            *)
LEMMA KilledStep ==
    ASSUME NEW d \in Nat, KInv(d), BTypes', Backup!WorkerCrash \/ Backup!WebCrash
    PROVE  Keeps(d)
<1>1. /\ UNCHANGED <<backup, now>> /\ crashes' = crashes + 1
      /\ \E p \in Backup!Sweepers : ret' = [ret EXCEPT ![p] = Backup!NoSweep]
      /\ \/ worker' = worker /\ files' = files
         \/ /\ worker' = Backup!Idle
            /\ \/ files' = files
               \/ worker.step = "publish" /\ files' = [files EXCEPT ![worker.b] = "partial"]
  BY DEF Backup!WorkerCrash, Backup!WebCrash, Backup!Sweepers
<1>2. /\ Backup!NoSweep \in [step : {"idle", "remove", "commit"}, todo : Seq(Backup!Backups), day : Nat]
      /\ Spares(d, Backup!NoSweep.todo) /\ Backup!NoSweep.step = "idle" /\ Backup!NoSweep.todo = <<>>
  BY DEF Backup!NoSweep, Spares
<1>3. KTypes' /\ KOrder' /\ crashes' # 0
  <2>1. crashes \in Nat /\ crashes' \in Nat /\ crashes' # 0
    BY <1>1 DEF KInv, KTypes
  <2>2. ret' \in [Backup!Sweepers -> [step : {"idle", "remove", "commit"}, todo : Seq(Backup!Backups), day : Nat]]
    BY <1>1, <1>2 DEF KInv, KTypes
  <2>3. files' \in [Backup!Backups -> {"none", "staging", "partial", "complete"}]
    BY <1>1 DEF KInv, KTypes
  <2>4. KOrder'
    BY <1>1 DEF KInv, KOrder
  <2> QED  BY <1>1, <2>1, <2>2, <2>3, <2>4 DEF KInv, KTypes
<1>4. KWorker'
  <2>1. CASE worker' = worker /\ files' = files
    BY <1>1, <2>1 DEF KInv, KWorker
  <2>2. CASE worker' = Backup!Idle
    BY <2>2 DEF KWorker, Backup!Idle
  <2> QED  BY <1>1, <2>1, <2>2
<1>5. KWhole'
  BY <1>3 DEF KWhole
<1>6. Backup!Succeeded' = Backup!Succeeded /\ Lasting(d)' = Lasting(d)
  BY <1>1 DEF Backup!Succeeded, Lasting
<1>7. \A k : IsKept(d, k)' <=> IsKept(d, k)
  BY <1>6 DEF IsKept
<1>8. KLists(d)'
  <2> SUFFICES ASSUME NEW q \in Backup!Sweepers
               PROVE  /\ Spares(d, ret[q].todo)'
                      /\ ret'[q].step # "idle" => ret'[q].day = d
                      /\ ret'[q].step = "commit" => ret'[q].todo # <<>>
                      /\ ret'[q].step = "idle" => ret'[q].todo = <<>>
    BY DEF KLists
  <2>1. ret'[q] = ret[q] \/ ret'[q] = Backup!NoSweep
    BY <1>1 DEF KInv, KTypes
  <2>2. CASE ret'[q] = ret[q]
    BY <1>1, <1>7, <2>2 DEF KInv, KLists, Spares
  <2>3. CASE ret'[q] = Backup!NoSweep
    BY <1>2, <2>3 DEF Spares
  <2> QED  BY <2>1, <2>2, <2>3
<1>9. Backup!HasGood => Backup!HasGood'
  <2> SUFFICES ASSUME NEW b \in Backup!Succeeded, files[b] = "complete"
               PROVE  Backup!HasGood'
    BY DEF Backup!HasGood
  <2>1. files'[b] = files[b]
    <3>1. CASE worker.step = "publish" /\ files' = [files EXCEPT ![worker.b] = "partial"]
      BY <3>1 DEF KInv, KTypes, KWorker, Backup!Succeeded
    <3> QED  BY <1>1, <3>1
  <2> QED  BY <1>6, <2>1 DEF Backup!HasGood
<1> QED  BY <1>3, <1>4, <1>5, <1>8, <1>9 DEF Keeps, KInv

(* A day passes, and the lists stay what they are.                          *)
LEMMA DayStep ==
    ASSUME NEW d \in Nat, KInv(d), BTypes', Backup!DayPasses
    PROVE  Keeps(d)
<1>1. UNCHANGED <<backup, files, ret, crashes, worker>> /\ now' = now + 1
  BY DEF Backup!DayPasses
<1>2. KTypes'
  BY <1>1 DEF KInv, KTypes
<1>3. KOrder'
  <2>1. now \in Nat /\ \A b \in Backup!Backups : backup[b].expires \in Nat
    BY SucceededRows DEF KInv
  <2> QED  BY <1>1, <2>1 DEF KInv, KOrder
<1>4. KWorker'
  BY <1>1 DEF KInv, KWorker
<1>5. Backup!Succeeded' = Backup!Succeeded /\ Lasting(d)' = Lasting(d)
  BY <1>1 DEF Backup!Succeeded, Lasting
<1>6. \A k : IsKept(d, k)' <=> IsKept(d, k)
  BY <1>5 DEF IsKept
<1>7. KLists(d)'
  BY <1>1, <1>6 DEF KInv, KLists, Spares
<1>8. KWhole'
  BY <1>1, <1>5 DEF KInv, KWhole
<1>9. KInv(d)'
  BY <1>2, <1>3, <1>4, <1>7, <1>8 DEF KInv
<1> QED  BY <1>1, <1>5, <1>9, GoodStays DEF Keeps

(* Every step of the backup part.                                           *)
LEMMA RetentionNext ==
    ASSUME BInv, NEW d \in Nat, KInv(d), ~LateFaults, Backup!Next
    PROVE  straddled' \/ \E e \in Nat : Keeps(e)
<1>1. BTypes'
  BY BackupNext DEF BInv
<1>2. ASSUME NEW p \in Backup!Sweepers, Backup!Sweep(p)
      PROVE  straddled' \/ \E e \in Nat : Keeps(e)
  <2>1. CASE Backup!StartRetention(p)
    BY <1>1, <2>1, StartStep
  <2>2. CASE Backup!RemoveFiles(p)
    BY <1>1, <2>2, RemoveFilesStep
  <2>3. CASE Backup!apply_retention(p)
    BY <1>1, <2>3, ApplyStep
  <2>4. CASE Backup!EndRetention(p)
    BY <1>1, <2>4, EndStep
  <2> QED  BY <1>2, <2>1, <2>2, <2>3, <2>4 DEF Backup!Sweep
<1>3. CASE Backup!BackupStep
  <2>1. Keeps(d)
    BY <1>1, <1>3, OtherStep, BackupWork DEF Backup!BackupStep
  <2> QED  BY <2>1
<1>4. CASE Backup!RestoreStep
  BY <1>1, <1>4, OtherStep
<1>5. {"worker", "operator"} \subseteq Backup!Sweepers
  BY DEF Backup!Sweepers
<1>6. CASE Backup!WorkerStep
  <2>1. CASE Backup!process_due_scheduled_backups
    BY <1>1, <2>1, QueuedStep
  <2> QED  BY <1>2, <1>3, <1>4, <1>5, <1>6, <2>1 DEF Backup!WorkerStep
<1>7. CASE Backup!DayPasses
  BY <1>1, <1>7, DayStep
<1>8. CASE Backup!WorkerCrash \/ Backup!WebCrash
  BY <1>1, <1>8, KilledStep
<1>9. CASE Backup!queue_backup
  BY <1>1, <1>9, QueuedStep
<1>10. CASE \/ Backup!CheckBackup \/ (\E b \in Backup!Backups : Backup!CheckRestore(b))
            \/ Backup!queue_restore \/ Backup!measure_tenant_usage
  BY <1>1, <1>10, OtherStep
<1> QED
  BY <1>2, <1>5, <1>6, <1>7, <1>8, <1>9, <1>10 DEF Backup!Next

(* The invariant depends on the backup part's variables only.               *)
LEMMA RetentionStutter == \A d \in Nat : KInv(d) /\ UNCHANGED backupVars => Keeps(d)
<1> SUFFICES ASSUME NEW d \in Nat, KInv(d), UNCHANGED backupVars
             PROVE  Keeps(d)
  OBVIOUS
<1>1. UNCHANGED <<backup, files, ret, now, crashes, restore, res, req, worker>>
  BY DEF backupVars
<1>2. BTypes'
  BY <1>1 DEF KInv, KTypes, BTypes
<1> QED  BY <1>1, <1>2, QuietStep, GoodStays DEF Keeps

(* At first nothing is backed up.                                           *)
LEMMA RetentionInit == Backup!Init => \A d \in Nat : KInv(d)
<1> SUFFICES ASSUME Backup!Init, NEW d \in Nat PROVE KInv(d)
  OBVIOUS
<1>1. BTypes
  BY BackupInit DEF BInv
<1>2. Backup!NoBackup \in BRows /\ Backup!NoBackup.status = "none" /\ Backup!NoBackup.expires = 0
  BY DEF Backup!NoBackup, BRows
<1>3. /\ Backup!NoSweep \in [step : {"idle", "remove", "commit"}, todo : Seq(Backup!Backups), day : Nat]
      /\ Spares(d, Backup!NoSweep.todo) /\ Backup!NoSweep.step = "idle" /\ Backup!NoSweep.todo = <<>>
  BY DEF Backup!NoSweep, Spares
<1>4. KTypes
  BY <1>1, <1>2, <1>3 DEF Backup!Init, KTypes
<1>5. KOrder /\ KWhole
  BY <1>2 DEF Backup!Init, KOrder, KWhole, Backup!Succeeded
<1>6. KWorker /\ KLists(d)
  BY <1>3 DEF Backup!Init, KWorker, KLists, Backup!Idle
<1> QED  BY <1>4, <1>5, <1>6 DEF KInv

(* Only the beginning of a run can find another of an earlier day.          *)
LEMMA OnlyAStartStraddles ==
    ASSUME Backup!Next
    PROVE  straddled' = straddled \/ \E p \in Backup!Sweepers : Backup!StartRetention(p)
<1>1. CASE \E p \in Backup!Sweepers : Backup!Sweep(p)
  BY <1>1 DEF Backup!Sweep, Backup!RemoveFiles, Backup!apply_retention, Backup!EndRetention
<1>2. CASE Backup!BackupStep
  BY <1>2 DEF Backup!BackupStep, Backup!claim_next_backup_job, Backup!ResolveFails, Backup!Dump,
     Backup!Publish, Backup!Succeed, Backup!update_schedule_after_backup, Backup!record_audit,
     Backup!_fail_backup, Backup!reconcile_stale_backup_jobs, Backup!Cleanup
<1>3. CASE Backup!RestoreStep
  BY <1>3 DEF Backup!RestoreStep, Backup!claim_next_restore_job, Backup!verify_backup_manifest,
     Backup!_fail_restore, Backup!_prepare_tenant_filestore, Backup!create_tenant_role,
     Backup!_pg_restore, Backup!run_tenant_odoo_container, Backup!Make,
     Backup!execute_clone_restore, Backup!execute_restore_job, Backup!RestoreRaises,
     Backup!rollback_clone_restore
<1>4. CASE \/ Backup!CheckBackup \/ (\E b \in Backup!Backups : Backup!CheckRestore(b))
           \/ Backup!queue_backup \/ Backup!queue_restore \/ Backup!measure_tenant_usage
           \/ Backup!process_due_scheduled_backups \/ Backup!DayPasses
           \/ Backup!WorkerCrash \/ Backup!WebCrash
  BY <1>4 DEF Backup!CheckBackup, Backup!CheckRestore, Backup!queue_backup, Backup!queue_restore,
     Backup!measure_tenant_usage, Backup!process_due_scheduled_backups, Backup!DayPasses,
     Backup!WorkerCrash, Backup!WebCrash
<1>5. {"worker", "operator"} \subseteq Backup!Sweepers
  BY DEF Backup!Sweepers
<1> QED
  BY <1>1, <1>2, <1>3, <1>4, <1>5 DEF Backup!Next, Backup!WorkerStep

(* It is not forgotten.                                                     *)
LEMMA StraddledStays ==
    ASSUME straddled, Backup!Next
    PROVE  straddled'
BY OnlyAStartStraddles DEF Backup!StartRetention

(* What holds until a run begins on a later day than another.               *)
KAny == straddled \/ \E d \in Nat : KInv(d)

(* Once there is a backup that can be restored there always is one while    *)
(* no process dies and no retention run begins on a later day than one      *)
(* still under way: neither expiry, nor the limit, nor two runs at once,    *)
(* nor a run that lasts for days remove the last, for any number of backups *)
(* and any limit, when the audit of a success does not fail                 *)
(* (retention_candidates, apply_retention).                                 *)
THEOREM LastGoodBackupIsKept == ~LateFaults => (Spec => GoodBackupKept)
<1> SUFFICES ASSUME ~LateFaults
             PROVE  Spec => GoodBackupKept
  OBVIOUS
<1>1. Init => BInv /\ KAny
  <2>1. 0 \in Nat
    OBVIOUS
  <2> QED  BY <2>1, BackupInit, RetentionInit DEF Init, KAny
<1>2. ASSUME BInv, [Next]_all
      PROVE  BInv' /\ (Backup!Next \/ UNCHANGED backupVars)
  BY <1>2, BackupNext, BackupStutter DEF Next, all, backupVars
<1>3. ASSUME BInv, NEW d \in Nat, KInv(d), [Next]_all
      PROVE  straddled' \/ \E e \in Nat : Keeps(e)
  BY <1>2, <1>3, RetentionNext, RetentionStutter
<1>4. BInv /\ KAny /\ [Next]_all => BInv' /\ KAny'
  <2> SUFFICES ASSUME BInv, KAny, [Next]_all
               PROVE  BInv' /\ KAny'
    OBVIOUS
  <2>1. CASE straddled
    BY <1>2, <2>1, StraddledStays DEF KAny, backupVars
  <2>2. ASSUME NEW d \in Nat, KInv(d)
        PROVE  KAny'
    <3>1. CASE straddled'
      BY <3>1 DEF KAny
    <3>2. ASSUME NEW e \in Nat, Keeps(e)
          PROVE  KAny'
      BY <3>2 DEF Keeps, KAny
    <3> QED  BY <1>3, <2>2, <3>1, <3>2
  <2> QED  BY <1>2, <2>1, <2>2 DEF KAny
<1>5. BInv /\ KAny /\ [Next]_all => [Backup!HasGood => Backup!HasGood' \/ crashes > 0 \/ straddled]_all
  <2> SUFFICES ASSUME BInv, [Next]_all, Backup!HasGood, ~straddled, NEW d \in Nat, KInv(d)
               PROVE  Backup!HasGood' \/ crashes > 0
    BY DEF KAny
  <2>1. crashes \in Nat
    BY DEF KInv, KTypes
  <2>2. ASSUME NEW p \in Backup!Sweepers, Backup!StartRetention(p)
        PROVE  Backup!HasGood'
    BY <2>2 DEF Backup!StartRetention, Backup!HasGood, Backup!Succeeded
  <2>3. ASSUME NEW e \in Nat, Keeps(e)
        PROVE  Backup!HasGood' \/ crashes > 0
    BY <2>1, <2>3 DEF Keeps
  <2>4. CASE straddled'
    BY <1>2, <2>2, <2>4, OnlyAStartStraddles DEF backupVars
  <2> QED  BY <1>3, <2>3, <2>4
<1> QED  BY <1>1, <1>4, <1>5, PTL DEF Spec, GoodBackupKept

===============================================================================
