--------------------------- MODULE StartupProofs ---------------------------
(***************************************************************************)
(* How the server is configured, for any keys, any hash function with any  *)
(* collisions, any initial size and any lines: the dictionary's arrays     *)
(* implement a map through loading and changes, and the search for a free  *)
(* slot ends; the map is what the file says, and its dump says the same; a *)
(* bind line is cut into its words; a plugin is registered whole or not at *)
(* all.                                                                    *)
(***************************************************************************)
EXTENDS Startup, FiniteSetTheorems, SequenceTheorems, WellFoundedInduction, TLAPS
-----------------------------------------------------------------------------
(***************************************************************************)
(* The inductive invariants.                                               *)
(***************************************************************************)

(* A line that waits for the next, once nn lines are read: a value of the  *)
(* file with what the lines since have added, or any other line.           *)
HeldAt(h, nn) ==
  \/ h \in Lines /\ h.type # "value"
  \/ /\ h \in ValueLines
     /\ \E l \in Lines, t \in Tails(nn - 1) :
          l.type = "value" /\ h.name = l.name /\ h.val = l.val \o t

IniInv ==
  /\ lineno \in Nat /\ section \in SectionNames
  /\ held # <<>> => HeldAt(held[1], lineno)

(* While the file is read, section and errs are what the lines handled so  *)
(* far make of them.                                                       *)
WriteInv ==
  /\ lines \in Seq(Lines \cup ValueLines) /\ errs \in Nat
  /\ at = "load" => /\ section = SectionAt(lines, Len(lines))
                    /\ errs = 0 => ErrorsOvertaken(lines)
  /\ LoadedAsWritten

PluginInv ==
  /\ opened = IF handle = "open" THEN 1 ELSE 0
  /\ handle = "open" =>
       at \in {"init", "running", "crashed"} /\ Range(Required) \subseteq fns

StartInv == DictTyped /\ SlotsAreCounted /\ IniInv /\ PluginInv
-----------------------------------------------------------------------------

LEMMA MinIsLeast ==
  ASSUME NEW S \in SUBSET Nat, S # {}
  PROVE  Min(S) \in S /\ \A y \in S : Min(S) <= y
<1>1. \E x \in S : \A y \in S : ~(<<y, x>> \in OpToRel(<, Nat))
  BY NatLessThanWellFounded, WFMin
<1>2. PICK x \in S : \A y \in S : ~(<<y, x>> \in OpToRel(<, Nat))
  BY <1>1
<1>3. \A y \in S : ~(y < x)
  BY <1>2, Zenon DEF OpToRel
<1>4. \A y \in S : x <= y
  BY <1>3
<1> QED
  BY <1>4 DEF Min

LEMMA OnceRound ==
  ASSUME NEW sz \in Nat \ {0}, NEW a \in Nat, a < 2 * sz
  PROVE  a % sz = IF a < sz THEN a ELSE a - sz
<1>1. CASE a < sz
  <2>1. a % sz = a
    BY <1>1
  <2> QED
    BY <1>1, <2>1
<1>2. CASE ~(a < sz)
  <2>1. a % sz = a - sz
    BY <1>2
  <2> QED
    BY <1>2, <2>1
<1> QED
  BY <1>1, <1>2
-----------------------------------------------------------------------------
(***************************************************************************)
(* The slots.                                                              *)
(***************************************************************************)
DictInv == DictTyped /\ SlotsAreCounted

LEMMA UsedFacts ==
  ASSUME DictInv
  PROVE  /\ Used \subseteq Slots /\ IsFiniteSet(Used) /\ IsFiniteSet(Slots)
         /\ Cardinality(Slots) = size /\ Slots \subseteq Nat /\ size \in Nat \ {0}
         /\ n \in Nat /\ n = Cardinality(Used) /\ n <= size
         /\ n = 0 => Used = {}
         /\ n < size => \E i \in Slots : key[i] = NULL
<1>1. size \in Nat \ {0} /\ n \in Nat /\ n = Cardinality(Used)
  BY DEF DictInv, DictTyped, SlotsAreCounted
<1>2. Used \in SUBSET Slots /\ Slots \subseteq Nat
  BY <1>1 DEF Used, Slots
<1>3. IsFiniteSet(Slots) /\ Cardinality(Slots) = size
  <2>1. 0 \in Int /\ size - 1 \in Int /\ ~(0 > size - 1) /\ size - 1 - 0 + 1 = size
    BY <1>1
  <2>2. IsFiniteSet(0 .. size - 1)
        /\ Cardinality(0 .. size - 1) = IF 0 > size - 1 THEN 0 ELSE size - 1 - 0 + 1
    BY <2>1, FS_Interval
  <2> QED
    BY <2>1, <2>2 DEF Slots
<1>4. /\ IsFiniteSet(Used) /\ Cardinality(Used) <= Cardinality(Slots)
  BY <1>2, <1>3, FS_Subset
<1>5. n = 0 => Used = {}
  BY <1>1, <1>4, FS_EmptySet
<1>6. ASSUME n < size PROVE \E i \in Slots : key[i] = NULL
  <2>1. Used # Slots
    BY <1>1, <1>3, <1>6
  <2> QED
    BY <1>2, <2>1 DEF Used
<1> QED
  BY <1>1, <1>2, <1>3, <1>4, <1>5, <1>6

(* Where the search for a key stops: at its slot, if it has one. *)
LEMMA HitsFacts ==
  ASSUME DictInv, NEW k \in Keys
  PROVE  /\ \A i : i \in Hits(k) <=> i \in Used /\ key[i] = k
         /\ Found(k) => /\ Min(Hits(k)) \in Used /\ Min(Hits(k)) \in Slots
                        /\ key[Min(Hits(k))] = k
                        /\ \A j \in Used : key[j] = k => j = Min(Hits(k))
         /\ ~Found(k) => \A i \in Used : key[i] # k
<1>1. \A i : i \in Hits(k) <=> i \in Used /\ key[i] = k
  BY DEF DictInv, SlotsAreCounted, Hits, Used
<1>2. Used \subseteq Slots /\ Slots \subseteq Nat
  BY UsedFacts
<1>3. ASSUME Found(k)
      PROVE  Min(Hits(k)) \in Used /\ key[Min(Hits(k))] = k
  <2>1. Hits(k) \in SUBSET Nat /\ Hits(k) # {}
    BY <1>1, <1>2, <1>3 DEF Found
  <2>2. Min(Hits(k)) \in Hits(k)
    BY <2>1, MinIsLeast
  <2> QED
    BY <1>1, <2>2
<1>4. ASSUME Found(k), NEW j \in Used, key[j] = k PROVE j = Min(Hits(k))
  BY <1>3, <1>4 DEF DictInv, SlotsAreCounted
<1>5. ~Found(k) => \A i \in Used : key[i] # k
  BY <1>1 DEF Found
<1> QED
  BY <1>1, <1>2, <1>3, <1>4, <1>5

(* The comment in dictionary_set is right: with a free slot among sz, the  *)
(* search from slot n on finds it.                                         *)
LEMMA FreeSlotIsFree ==
  ASSUME NEW sz \in Nat \ {0}, n \in Nat, n < sz, NEW keys,
         NEW i \in 0 .. sz - 1, keys[i] = NULL
  PROVE  FreeSlot(keys, sz) \in 0 .. sz - 1 /\ keys[FreeSlot(keys, sz)] = NULL
<1> DEFINE Steps == {s \in 0 .. sz - 1 : keys[(n + s) % sz] = NULL}
<1>1. ASSUME NEW s \in 0 .. sz - 1
      PROVE  (n + s) % sz = IF n + s < sz THEN n + s ELSE n + s - sz
  <2>1. PICK a \in Nat : a = n + s /\ a < 2 * sz
    OBVIOUS
  <2>2. a % sz = IF a < sz THEN a ELSE a - sz
    BY <2>1, OnceRound
  <2> QED
    BY <2>1, <2>2
<1>2. Steps # {}
  <2> DEFINE s == IF i >= n THEN i - n ELSE i - n + sz
  <2>1. s \in 0 .. sz - 1 /\ (IF n + s < sz THEN n + s ELSE n + s - sz) = i
    OBVIOUS
  <2> HIDE DEF s
  <2>2. (n + s) % sz = i
    BY <1>1, <2>1
  <2>3. s \in Steps
    BY <2>1, <2>2
  <2> QED
    BY <2>3
<1>3. Steps \in SUBSET Nat
  OBVIOUS
<1>4. Min(Steps) \in Steps
  <2> HIDE DEF Steps
  <2> QED
    BY <1>2, <1>3, MinIsLeast
<1>5. PICK s \in 0 .. sz - 1 : s = Min(Steps) /\ keys[(n + s) % sz] = NULL
  BY <1>4
<1>6. (n + s) % sz \in 0 .. sz - 1
  <2>1. (IF n + s < sz THEN n + s ELSE n + s - sz) \in 0 .. sz - 1
    OBVIOUS
  <2> QED
    BY <1>1, <2>1
<1>7. FreeSlot(keys, sz) = (n + s) % sz
  BY <1>5 DEF FreeSlot
<1> QED
  BY <1>5, <1>6, <1>7

(* What the arrays stand for. *)
LEMMA ContentsAre ==
  ASSUME DictInv
  PROVE  /\ DOMAIN Contents = {key[i] : i \in Used}
         /\ \A i \in Used : Contents[key[i]] = val[i]
         /\ Contents = [k \in DOMAIN Contents |-> Contents[k]]
<1>1. \A i \in Used : (CHOOSE j \in Used : key[j] = key[i]) = i
  BY DEF DictInv, SlotsAreCounted
<1>2. DOMAIN Contents = {key[i] : i \in Used}
  BY DEF Contents
<1>3. \A i \in Used : Contents[key[i]] = val[CHOOSE j \in Used : key[j] = key[i]]
  BY DEF Contents
<1> QED
  BY <1>1, <1>2, <1>3 DEF Contents

LEMMA ContentsAreStep == DictInv => /\ DOMAIN Contents = {key[i] : i \in Used}
                                    /\ \A i \in Used : Contents[key[i]] = val[i]
                                    /\ Contents = [k \in DOMAIN Contents |-> Contents[k]]
  BY ContentsAre

LEMMA ContentsAreNext == (DictInv => /\ DOMAIN Contents = {key[i] : i \in Used}
                                     /\ \A i \in Used : Contents[key[i]] = val[i]
                                     /\ Contents = [k \in DOMAIN Contents |-> Contents[k]])'
  BY ContentsAreStep, PTL

(* dictionary_set of a key that is there. *)
LEMMA ReplaceStep ==
  ASSUME DictInv, NEW k \in Keys, NEW v \in Values \cup {NULL}, Replace(k, v)
  PROVE  DictInv' /\ Map!Put(k, v)
<1> DEFINE m == Min(Hits(k))
<1>1. /\ val' = [val EXCEPT ![m] = v] /\ UNCHANGED <<size, n, key, hash>> /\ Found(k)
  BY DEF Replace
<1>2. m \in Used /\ m \in Slots /\ key[m] = k /\ \A j \in Used : key[j] = k => j = m
  BY <1>1, HitsFacts
<1> HIDE DEF m
<1>3. Used' = Used /\ Slots' = Slots
  BY <1>1 DEF Used, Slots
<1>4. DictInv'
  <2>1. DictTyped'
    BY <1>1, <1>2, <1>3 DEF DictInv, DictTyped
  <2>2. SlotsAreCounted'
    BY <1>1, <1>3 DEF DictInv, SlotsAreCounted
  <2> QED
    BY <2>1, <2>2 DEF DictInv
<1>5. \A j \in Used : val'[j] = IF j = m THEN v ELSE val[j]
  <2>1. Used \subseteq Slots /\ val \in [Slots -> Values \cup {NULL}]
    BY UsedFacts DEF DictInv, DictTyped
  <2> QED
    BY <1>1, <1>2, <2>1
<1>6. /\ DOMAIN Contents = {key[i] : i \in Used}
      /\ \A i \in Used : Contents[key[i]] = val[i]
  BY ContentsAre
<1>7. /\ DOMAIN Contents' = {key[i] : i \in Used}
      /\ \A i \in Used : Contents'[key[i]] = val'[i]
      /\ Contents' = [j \in DOMAIN Contents' |-> Contents'[j]]
  BY <1>1, <1>3, <1>4, ContentsAreNext
<1>8. DOMAIN Contents' = DOMAIN Contents \cup {k}
  BY <1>2, <1>6, <1>7
<1>9. ASSUME NEW j \in DOMAIN Contents'
      PROVE  Contents'[j] = IF j = k THEN v ELSE Contents[j]
  <2>1. PICK i \in Used : j = key[i]
    BY <1>7, <1>9
  <2>2. j = k <=> i = m
    BY <1>2, <2>1
  <2> QED
    BY <1>5, <1>6, <1>7, <2>1, <2>2
<1>10. Contents' = [j \in DOMAIN Contents \cup {k} |-> IF j = k THEN v ELSE Contents[j]]
  BY <1>7, <1>8, <1>9
<1> QED
  BY <1>4, <1>10 DEF Map!Put

(* The arrays after mem_double, where it is needed. *)
NewSize == IF n = size THEN 2 * size ELSE size
NewArray(a, zero) == IF n = size THEN Double(a, zero) ELSE a

LEMMA NewArrayFacts ==
  ASSUME DictInv, NEW T, NEW zero \in T, NEW a \in [Slots -> T]
  PROVE  /\ NewSize \in Nat \ {0} /\ n < NewSize /\ Slots \subseteq 0 .. NewSize - 1
         /\ NewArray(a, zero) \in [0 .. NewSize - 1 -> T]
         /\ \A j \in 0 .. NewSize - 1 :
              NewArray(a, zero)[j] = IF j \in Slots THEN a[j] ELSE zero
<1>1. size \in Nat \ {0} /\ n \in Nat /\ n <= size /\ Slots = 0 .. size - 1
  BY UsedFacts DEF Slots
<1>2. CASE n = size
  <2>1. NewSize = 2 * size /\ NewArray(a, zero) = Double(a, zero)
    BY <1>2 DEF NewSize, NewArray
  <2>2. \A j \in 0 .. 2 * size - 1 : (j < size) <=> (j \in Slots)
    BY <1>1
  <2>3. \A j \in 0 .. 2 * size - 1 :
          (IF j < size THEN a[j] ELSE zero) = (IF j \in Slots THEN a[j] ELSE zero)
    BY <2>2, Zenon
  <2>4. Double(a, zero)
          = [j \in 0 .. 2 * size - 1 |-> IF j \in Slots THEN a[j] ELSE zero]
    BY <2>3 DEF Double
  <2>5. /\ Double(a, zero) \in [0 .. 2 * size - 1 -> T]
        /\ \A j \in 0 .. 2 * size - 1 :
             Double(a, zero)[j] = IF j \in Slots THEN a[j] ELSE zero
    BY <2>4
  <2>6. /\ 2 * size \in Nat \ {0} /\ n < 2 * size /\ Slots \subseteq 0 .. 2 * size - 1
    BY <1>1
  <2> QED
    BY <2>1, <2>5, <2>6
<1>3. CASE n # size
  <2>1. NewSize = size /\ NewArray(a, zero) = a
    BY <1>3 DEF NewSize, NewArray
  <2> QED
    BY <1>1, <1>3, <2>1
<1> QED
  BY <1>2, <1>3

(* dictionary_set of a new key. *)
LEMMA AddStep ==
  ASSUME DictInv, NEW k \in Keys, NEW v \in Values \cup {NULL}, Add(k, v)
  PROVE  DictInv' /\ Map!Put(k, v)
<1> DEFINE sz == NewSize
           keys == NewArray(key, NULL)
           vals == NewArray(val, NULL)
           hashes == NewArray(hash, 0)
           m == FreeSlot(keys, sz)
<1>1. /\ size' = sz /\ key' = [keys EXCEPT ![m] = k] /\ val' = [vals EXCEPT ![m] = v]
      /\ hash' = [hashes EXCEPT ![m] = Hash[k]] /\ n' = n + 1
      /\ ~(n > 0 /\ Found(k))
  BY DEF Add, NewSize, NewArray
<1>2. /\ key \in [Slots -> Keys \cup {NULL}] /\ val \in [Slots -> Values \cup {NULL}]
      /\ hash \in [Slots -> Nat] /\ n \in Nat /\ size \in Nat \ {0} /\ Slots \subseteq Nat
      /\ Used \subseteq Slots /\ IsFiniteSet(Used) /\ n = Cardinality(Used)
      /\ Slots = 0 .. size - 1
  BY UsedFacts DEF DictInv, DictTyped, Slots
<1>3. /\ sz \in Nat \ {0} /\ n < sz /\ Slots \subseteq 0 .. sz - 1
      /\ keys \in [0 .. sz - 1 -> Keys \cup {NULL}]
      /\ \A j \in 0 .. sz - 1 : keys[j] = IF j \in Slots THEN key[j] ELSE NULL
  <2>0. PICK T : T = Keys \cup {NULL}
    OBVIOUS
  <2>1. NULL \in T /\ key \in [Slots -> T]
    BY <1>2, <2>0
  <2>2. /\ sz \in Nat \ {0} /\ n < sz /\ Slots \subseteq 0 .. sz - 1
        /\ keys \in [0 .. sz - 1 -> T]
        /\ \A j \in 0 .. sz - 1 : keys[j] = IF j \in Slots THEN key[j] ELSE NULL
    BY <2>1, NewArrayFacts, SMTT(30)
  <2> QED
    BY <2>0, <2>2, Zenon
<1>4. /\ vals \in [0 .. sz - 1 -> Values \cup {NULL}]
      /\ \A j \in 0 .. sz - 1 : vals[j] = IF j \in Slots THEN val[j] ELSE NULL
  <2>0. PICK T : T = Values \cup {NULL}
    OBVIOUS
  <2>1. NULL \in T /\ val \in [Slots -> T]
    BY <1>2, <2>0
  <2>2. /\ vals \in [0 .. sz - 1 -> T]
        /\ \A j \in 0 .. sz - 1 : vals[j] = IF j \in Slots THEN val[j] ELSE NULL
    BY <2>1, NewArrayFacts, SMTT(30)
  <2> QED
    BY <2>0, <2>2, Zenon
<1>5. /\ hashes \in [0 .. sz - 1 -> Nat]
      /\ \A j \in 0 .. sz - 1 : hashes[j] = IF j \in Slots THEN hash[j] ELSE 0
  <2>1. 0 \in Nat /\ hash \in [Slots -> Nat]
    BY <1>2
  <2> QED
    BY <2>1, NewArrayFacts, Zenon
<1>6. \E i \in 0 .. sz - 1 : keys[i] = NULL
  <2>1. CASE n = size
    <3>1. size \in 0 .. sz - 1 /\ size \notin Slots
      BY <1>2, <2>1 DEF NewSize
    <3> QED
      BY <1>3, <3>1
  <2>2. CASE n # size
    <3>1. n < size
      BY <1>3, <2>2 DEF NewSize
    <3>2. PICK i \in Slots : key[i] = NULL
      BY <3>1, UsedFacts
    <3> QED
      BY <1>3, <3>2
  <2> QED
    BY <2>1, <2>2
<1>7. m \in 0 .. sz - 1 /\ keys[m] = NULL
  <2> HIDE DEF sz, keys
  <2> QED
    BY <1>2, <1>3, <1>6, FreeSlotIsFree
<1> HIDE DEF sz, keys, vals, hashes, m
<1>8. \A i \in Used : key[i] # k
  <2>1. CASE n = 0
    BY <2>1, UsedFacts
  <2>2. CASE n # 0
    BY <1>1, <1>2, <2>2, HitsFacts
  <2> QED
    BY <2>1, <2>2
<1>9. Slots' = 0 .. sz - 1 /\ k # NULL /\ Hash[k] \in Nat
  BY <1>1, DictAssumption DEF Slots
<1>10. /\ key' \in [Slots' -> Keys \cup {NULL}]
       /\ \A j \in Slots' : key'[j] = IF j = m THEN k ELSE keys[j]
  BY <1>1, <1>3, <1>7, <1>9
<1>11. /\ val' \in [Slots' -> Values \cup {NULL}]
       /\ \A j \in Slots' : val'[j] = IF j = m THEN v ELSE vals[j]
  BY <1>1, <1>4, <1>7, <1>9
<1>12. /\ hash' \in [Slots' -> Nat]
       /\ \A j \in Slots' : hash'[j] = IF j = m THEN Hash[k] ELSE hashes[j]
  BY <1>1, <1>5, <1>7, <1>9
<1>13. m \notin Used
  BY <1>3, <1>7 DEF Used
<1>14. Used' = Used \cup {m}
  <2>1. Used' = {j \in Slots' : key'[j] # NULL}
    BY DEF Used
  <2>2. ASSUME NEW j \in Slots' PROVE key'[j] # NULL <=> j \in Used \cup {m}
    <3>1. CASE j = m
      BY <1>9, <1>10, <3>1
    <3>2. CASE j # m
      BY <1>3, <1>9, <1>10, <3>2 DEF Used
    <3> QED
      BY <3>1, <3>2
  <2>3. Used \cup {m} \subseteq Slots'
    BY <1>2, <1>3, <1>7, <1>9
  <2> QED
    BY <2>1, <2>2, <2>3
<1>15. /\ key'[m] = k /\ val'[m] = v /\ hash'[m] = Hash[k]
       /\ \A j \in Used : j # m /\ key'[j] = key[j] /\ val'[j] = val[j] /\ hash'[j] = hash[j]
  <2>1. key'[m] = k /\ val'[m] = v /\ hash'[m] = Hash[k]
    BY <1>7, <1>9, <1>10, <1>11, <1>12
  <2>2. ASSUME NEW j \in Used
        PROVE  j # m /\ key'[j] = key[j] /\ val'[j] = val[j] /\ hash'[j] = hash[j]
    <3>1. j # m /\ j \in Slots /\ j \in Slots' /\ j \in 0 .. sz - 1
      BY <1>2, <1>3, <1>9, <1>13
    <3>2. keys[j] = key[j] /\ vals[j] = val[j] /\ hashes[j] = hash[j]
      BY <1>3, <1>4, <1>5, <3>1
    <3> QED
      BY <1>10, <1>11, <1>12, <3>1, <3>2
  <2> QED
    BY <2>1, <2>2
<1>16. SlotsAreCounted'
  <2>1. Cardinality(Used') = n + 1
    BY <1>2, <1>13, <1>14, FS_AddElement
  <2>2. \A i, j \in Used' : key'[i] = key'[j] => i = j
    BY <1>8, <1>14, <1>15 DEF DictInv, SlotsAreCounted
  <2>3. \A i \in Used' : hash'[i] = Hash[key'[i]]
    BY <1>14, <1>15 DEF DictInv, SlotsAreCounted
  <2> QED
    BY <1>1, <2>1, <2>2, <2>3 DEF SlotsAreCounted
<1>17. DictTyped'
  <2>1. size' \in Nat \ {0} /\ n' \in Nat
    BY <1>1, <1>2, <1>3
  <2> QED
    BY <1>10, <1>11, <1>12, <2>1 DEF DictTyped
<1>18. DictInv'
  BY <1>16, <1>17 DEF DictInv
<1>19. /\ DOMAIN Contents = {key[i] : i \in Used}
       /\ \A i \in Used : Contents[key[i]] = val[i]
  BY ContentsAre
<1>20. /\ DOMAIN Contents' = {key'[i] : i \in Used'}
       /\ \A i \in Used' : Contents'[key'[i]] = val'[i]
       /\ Contents' = [j \in DOMAIN Contents' |-> Contents'[j]]
  BY <1>18, ContentsAreNext
<1>21. DOMAIN Contents' = DOMAIN Contents \cup {k}
  BY <1>14, <1>15, <1>19, <1>20
<1>22. ASSUME NEW j \in DOMAIN Contents'
       PROVE  Contents'[j] = IF j = k THEN v ELSE Contents[j]
  <2>1. PICK i \in Used' : j = key'[i]
    BY <1>20, <1>22
  <2>2. CASE i = m
    BY <1>15, <1>20, <2>1, <2>2
  <2>3. CASE i # m
    <3>1. i \in Used /\ key'[i] = key[i] /\ val'[i] = val[i] /\ key[i] # k
      BY <1>8, <1>14, <1>15, <2>3
    <3> QED
      BY <1>19, <1>20, <2>1, <3>1
  <2> QED
    BY <2>2, <2>3
<1>23. Contents' = [j \in DOMAIN Contents \cup {k} |-> IF j = k THEN v ELSE Contents[j]]
  BY <1>20, <1>21, <1>22
<1> QED
  BY <1>18, <1>23 DEF Map!Put

(* dictionary_unset. *)
LEMMA UnsetStep ==
  ASSUME DictInv, NEW k \in Keys, DictionaryUnset(k)
  PROVE  DictInv' /\ Map!Remove(k)
<1>1. CASE ~Found(k)
  <2>1. UNCHANGED <<size, n, key, val, hash>>
    BY <1>1 DEF DictionaryUnset
  <2>2. Used' = Used /\ Slots' = Slots /\ Contents' = Contents
    BY <2>1 DEF Used, Slots, Contents
  <2>3. DictInv'
    BY <2>1, <2>2 DEF DictInv, DictTyped, SlotsAreCounted
  <2>4. k \notin DOMAIN Contents
    BY <1>1, HitsFacts, ContentsAre
  <2>5. Contents' = [j \in DOMAIN Contents \ {k} |-> Contents[j]]
    <3>1. DOMAIN Contents \ {k} = DOMAIN Contents
      BY <2>4
    <3> QED
      BY <2>2, <3>1, ContentsAre
  <2> QED
    BY <2>3, <2>5 DEF Map!Remove
<1>2. CASE Found(k)
  <2> DEFINE m == Min(Hits(k))
  <2>1. /\ key' = [key EXCEPT ![m] = NULL] /\ val' = [val EXCEPT ![m] = NULL]
        /\ hash' = [hash EXCEPT ![m] = 0] /\ n' = n - 1 /\ size' = size
    BY <1>2 DEF DictionaryUnset
  <2>2. m \in Used /\ m \in Slots /\ key[m] = k /\ \A j \in Used : key[j] = k => j = m
    BY <1>2, HitsFacts
  <2> HIDE DEF m
  <2>3. /\ key \in [Slots -> Keys \cup {NULL}] /\ val \in [Slots -> Values \cup {NULL}]
        /\ hash \in [Slots -> Nat] /\ n \in Nat /\ size \in Nat \ {0}
        /\ Used \subseteq Slots /\ IsFiniteSet(Used) /\ n = Cardinality(Used)
        /\ (n = 0 => Used = {})
    BY UsedFacts DEF DictInv, DictTyped
  <2>4. Slots' = Slots
    BY <2>1 DEF Slots
  <2>5. /\ key' \in [Slots -> Keys \cup {NULL}] /\ val' \in [Slots -> Values \cup {NULL}]
        /\ hash' \in [Slots -> Nat] /\ key'[m] = NULL
        /\ \A j \in Slots : j # m =>
             key'[j] = key[j] /\ val'[j] = val[j] /\ hash'[j] = hash[j]
    BY <2>1, <2>2, <2>3
  <2>6. Used' = Used \ {m}
    BY <2>4, <2>5 DEF Used
  <2>7. DictTyped'
    <3>1. n' \in Nat
      BY <2>1, <2>2, <2>3
    <3> QED
      BY <2>1, <2>3, <2>4, <2>5, <3>1 DEF DictTyped
  <2>8. SlotsAreCounted'
    <3>1. Cardinality(Used') = n - 1
      BY <2>2, <2>3, <2>6, FS_RemoveElement
    <3>2. /\ \A i, j \in Used' : key'[i] = key'[j] => i = j
          /\ \A i \in Used' : hash'[i] = Hash[key'[i]]
      BY <2>3, <2>5, <2>6 DEF DictInv, SlotsAreCounted
    <3> QED
      BY <2>1, <3>1, <3>2 DEF SlotsAreCounted
  <2>9. DictInv'
    BY <2>7, <2>8 DEF DictInv
  <2>10. /\ DOMAIN Contents = {key[i] : i \in Used}
         /\ \A i \in Used : Contents[key[i]] = val[i]
    BY ContentsAre
  <2>11. /\ DOMAIN Contents' = {key'[i] : i \in Used'}
         /\ \A i \in Used' : Contents'[key'[i]] = val'[i]
         /\ Contents' = [j \in DOMAIN Contents' |-> Contents'[j]]
    BY <2>9, ContentsAreNext
  <2>12. \A i \in Used' : i \in Used /\ i # m /\ key'[i] = key[i] /\ val'[i] = val[i]
    BY <2>3, <2>5, <2>6
  <2>13. DOMAIN Contents' = DOMAIN Contents \ {k}
    BY <2>2, <2>6, <2>10, <2>11, <2>12
  <2>14. \A j \in DOMAIN Contents' : Contents'[j] = Contents[j]
    BY <2>10, <2>11, <2>12
  <2>15. Contents' = [j \in DOMAIN Contents \ {k} |-> Contents[j]]
    BY <2>11, <2>13, <2>14
  <2> QED
    BY <2>9, <2>15 DEF Map!Remove
<1> QED
  BY <1>1, <1>2

LEMMA SetStep ==
  ASSUME DictInv, NEW k \in Keys, NEW v \in Values \cup {NULL}, DictionarySet(k, v)
  PROVE  DictInv' /\ Map!Put(k, v)
BY ReplaceStep, AddStep DEF DictionarySet

LEMMA SameDict ==
  ASSUME DictInv, UNCHANGED dict
  PROVE  DictInv' /\ Contents' = Contents
<1>1. UNCHANGED <<size, n, key, val, hash>>
  BY DEF dict
<1>2. Used' = Used /\ Slots' = Slots /\ Contents' = Contents
  BY <1>1 DEF Used, Slots, Contents
<1> QED
  BY <1>1, <1>2 DEF DictInv, DictTyped, SlotsAreCounted
-----------------------------------------------------------------------------
(***************************************************************************)
(* The lines of the file.                                                  *)
(***************************************************************************)
LEMMA TailsAre ==
  ASSUME NEW j \in Nat
  PROVE  Tails(j) = {t \in Seq(Added) : Len(t) <= j}
<1>1. ASSUME NEW t \in Tails(j) PROVE t \in Seq(Added) /\ Len(t) <= j
  <2>1. PICK m \in 0 .. j : t \in [1 .. m -> Added]
    BY DEF Tails
  <2> QED
    BY <2>1
<1>2. ASSUME NEW t \in Seq(Added), Len(t) <= j PROVE t \in Tails(j)
  <2>1. Len(t) \in 0 .. j /\ t \in [1 .. Len(t) -> Added]
    BY <1>2
  <2> QED
    BY <2>1 DEF Tails
<1> QED
  BY <1>1, <1>2

(* What a line adds to a tail gives a longer tail. *)
LEMMA TailGrows ==
  ASSUME NEW v \in Seq(ValueWords), NEW j \in Nat, NEW t \in Tails(j), NEW l
  PROVE  \E u \in Tails(j + 1) : (v \o t) \o Text(l) = v \o u
<1>1. PICK x : x = Text(l)
  OBVIOUS
<1>2. x \in Seq(Added) /\ Len(x) <= 1
  <2>1. \/ x = <<>>
        \/ \E w \in Added : x = <<w>>
    <3>1. x = <<>> \/ x = <<";">> \/ x = <<"more">>
      BY <1>1, Zenon DEF Text
    <3> QED
      BY <3>1, Zenon DEF Added
  <2>2. CASE x = <<>>
    BY <2>2
  <2>3. ASSUME NEW w \in Added, x = <<w>> PROVE x \in Seq(Added) /\ Len(x) <= 1
    BY <2>3
  <2> QED
    BY <2>1, <2>2, <2>3
<1>3. t \in Seq(Added) /\ Len(t) <= j /\ Len(t) \in Nat
  BY TailsAre
<1>4. t \o x \in Seq(Added) /\ Len(t \o x) <= j + 1
  BY <1>2, <1>3
<1>5. t \o x \in Tails(j + 1)
  <2>1. Tails(j + 1) = {y \in Seq(Added) : Len(y) <= j + 1}
    <3>1. j + 1 \in Nat
      OBVIOUS
    <3> QED
      BY <3>1, TailsAre, Zenon
  <2> QED
    BY <1>4, <2>1
<1>6. t \in Seq(ValueWords) /\ x \in Seq(ValueWords)
  <2>1. Added \subseteq ValueWords
    BY DEF ValueWords
  <2> QED
    BY <1>2, <1>3, <2>1
<1>7. (v \o t) \o x = v \o (t \o x)
  BY <1>6, ConcatAssociative
<1> QED
  BY <1>1, <1>5, <1>7

(* A value with its continuations is a value of the file's, and is stored  *)
(* under a key that the file can have.                                     *)
LEMMA JoinsFacts ==
  ASSUME IniInv, Reading, NEW l \in Lines, NEW j \in Joins(l)
  PROVE  /\ j.type \in {"empty", "comment", "section", "value", "error"}
         /\ j \in Lines \cup ValueLines
         /\ j.type = "section" => EntryOf(j) \in Keys /\ Lower[j.name] \in SectionNames
         /\ j.type = "value" => EntryOf(j) \in Keys /\ ParseValue(j.val) \in Values
         /\ HeldAt(j, lineno + 1)
<1>1. lineno \in Nat /\ MaxLines \in Nat /\ lineno < MaxLines /\ section \in SectionNames
  BY IniAssumption DEF IniInv, Reading
<1>2. ASSUME NEW m \in Lines, m.type = "value"
      PROVE  /\ m \in ValueLines /\ <<section, Lower[m.name]>> \in Keys
             /\ \A t \in Tails(MaxLines - 1) : ParseValue(m.val \o t) \in Values
             /\ m.val \in Seq(ValueWords)
  <2>1. /\ m \in ValueLines /\ \A s \in SectionNames : <<s, Lower[m.name]>> \in Keys
        /\ \A t \in Tails(MaxLines - 1) : ParseValue(m.val \o t) \in Values
    BY <1>2, IniAssumption
  <2> QED
    BY <1>1, <2>1 DEF ValueLines
<1>3. Tails(lineno) \subseteq Tails(MaxLines - 1) /\ <<>> \in Tails(lineno)
  <2>1. lineno <= MaxLines - 1 /\ MaxLines - 1 \in Nat
    BY <1>1
  <2>2. Len(<<>>) = 0 /\ <<>> \in Seq(Added)
    OBVIOUS
  <2>3. /\ Tails(lineno) = {t \in Seq(Added) : Len(t) <= lineno}
        /\ Tails(MaxLines - 1) = {t \in Seq(Added) : Len(t) <= MaxLines - 1}
    BY <1>1, <2>1, TailsAre, Zenon
  <2>4. \A t \in Seq(Added) : Len(t) <= lineno => Len(t) <= MaxLines - 1
    BY <1>1, <2>1
  <2>5. Len(<<>>) <= lineno
    BY <1>1, <2>2
  <2> QED
    BY <2>2, <2>3, <2>4, <2>5, Zenon
<1>4. ASSUME NEW m \in Lines, m.type = "value", NEW t \in Tails(lineno),
             j \in ValueLines, j.name = m.name, j.val = m.val \o t
      PROVE  /\ j.type = "value" /\ EntryOf(j) \in Keys
             /\ ParseValue(j.val) \in Values /\ HeldAt(j, lineno + 1)
  <2>1. j.type = "value"
    BY <1>4 DEF ValueLines
  <2>2. EntryOf(j) \in Keys
    BY <1>2, <1>4, <2>1 DEF EntryOf
  <2>3. ParseValue(m.val \o t) \in Values
    BY <1>2, <1>3, <1>4
  <2>4. (lineno + 1) - 1 = lineno
    BY <1>1
  <2>5. HeldAt(j, lineno + 1)
    BY <1>4, <2>4 DEF HeldAt
  <2> QED
    BY <1>4, <2>1, <2>2, <2>3, <2>5
<1>5. CASE j \in Lines
  <2>1. /\ j.type \in {"empty", "comment", "section", "value", "error"}
        /\ j.type = "section" => <<Lower[j.name]>> \in Keys /\ Lower[j.name] \in SectionNames
    BY <1>5, IniAssumption DEF SectionNames
  <2>2. CASE j.type = "value"
    <3>1. j \in ValueLines /\ j.val \in Seq(ValueWords)
      BY <1>2, <1>5, <2>2
    <3>2. j.val = j.val \o <<>>
      BY <3>1, ConcatEmptySeq
    <3> QED
      BY <1>3, <1>4, <1>5, <2>2, <3>1, <3>2
  <2>3. CASE j.type # "value"
    BY <1>5, <2>1, <2>3 DEF EntryOf, HeldAt
  <2> QED
    BY <2>2, <2>3
<1>6. CASE held # <<>> /\ held[1].type = "value"
  <2>1. PICK h : h = held[1]
    OBVIOUS
  <2>2. PICK m \in Lines, t \in Tails(lineno - 1) :
          /\ h \in ValueLines /\ m.type = "value"
          /\ h.name = m.name /\ h.val = m.val \o t
    BY <1>6, <2>1 DEF IniInv, HeldAt
  <2>3. lineno - 1 \in Nat
    <3>1. lineno # 0
      <4> SUFFICES ASSUME lineno = 0 PROVE FALSE
        OBVIOUS
      <4>1. Tails(lineno - 1) = {}
        BY DEF Tails
      <4> QED
        BY <4>1
    <3> QED
      BY <1>1, <3>1
  <2>4. m.val \in Seq(ValueWords)
    BY <1>2, <2>2
  <2>5. PICK u \in Tails(lineno) : (m.val \o t) \o Text(l) = m.val \o u
    <3>1. (lineno - 1) + 1 = lineno
      BY <1>1
    <3>2. \E u \in Tails((lineno - 1) + 1) : (m.val \o t) \o Text(l) = m.val \o u
      BY <2>2, <2>3, <2>4, TailGrows, Zenon
    <3> QED
      BY <3>1, <3>2
  <2>6. PICK v : v = m.val \o u
    OBVIOUS
  <2>7. v \in Seq(ValueWords)
    <3>1. u \in Seq(Added) /\ Added \subseteq ValueWords
      BY <1>1, TailsAre DEF ValueWords
    <3>2. u \in Seq(ValueWords)
      BY <3>1
    <3> QED
      BY <2>4, <2>6, <3>2, ConcatProperties
  <2>8. j = [h EXCEPT !.val = v]
    <3>1. j = [h EXCEPT !.val = h.val \o Text(l)]
      BY <1>6, <2>1, <2>2 DEF Joins, ValueLines
    <3> QED
      BY <2>2, <2>5, <2>6, <3>1
  <2>9. j \in ValueLines /\ j.name = m.name /\ j.val = v
    BY <2>2, <2>7, <2>8 DEF ValueLines
  <2> QED
    BY <1>4, <2>2, <2>6, <2>9
<1>7. CASE held # <<>> /\ held[1].type = "comment"
  <2>1. j = held[1]
    BY <1>7 DEF Joins
  <2>2. held[1] \in Lines
    BY <1>7 DEF IniInv, HeldAt, ValueLines
  <2> QED
    BY <1>5, <2>1, <2>2
<1>8. CASE held = <<>> \/ held[1].type \notin {"value", "comment"}
  <2>1. j \in Lines
    BY <1>8 DEF Joins
  <2> QED
    BY <1>5, <2>1
<1> QED
  BY <1>6, <1>7, <1>8
-----------------------------------------------------------------------------
(***************************************************************************)
(* The steps.  Each keeps the invariant, and puts or removes a key of the  *)
(* map or leaves the map alone.                                            *)
(***************************************************************************)
LEMMA InitHolds ==
  ASSUME Init
  PROVE  StartInv /\ Map!Init
<1>1. /\ size = DICTMINSZ /\ n = 0
      /\ key = [i \in 0 .. DICTMINSZ - 1 |-> NULL]
      /\ val = [i \in 0 .. DICTMINSZ - 1 |-> NULL]
      /\ hash = [i \in 0 .. DICTMINSZ - 1 |-> 0]
      /\ lineno = 0 /\ section = "" /\ held = <<>>
      /\ handle = "null" /\ opened = 0
  BY DEF Init, InitIni, DictionaryNew
<1>2. DICTMINSZ \in Nat \ {0} /\ Slots = 0 .. DICTMINSZ - 1
  BY <1>1, DictAssumption DEF Slots
<1>3. DictTyped
  BY <1>1, <1>2 DEF DictTyped
<1>4. Used = {}
  BY <1>1, <1>2 DEF Used
<1>5. SlotsAreCounted
  BY <1>1, <1>4, FS_EmptySet DEF SlotsAreCounted
<1>6. IniInv
  BY <1>1 DEF IniInv, SectionNames
<1>7. PluginInv
  BY <1>1 DEF PluginInv
<1>8. Contents = [k \in {} |-> 0]
  BY <1>4 DEF Contents
<1> QED
  BY <1>3, <1>5, <1>6, <1>7, <1>8 DEF StartInv, Map!Init

(* A step that neither reads a line nor changes the dictionary. *)
LEMMA OtherStep ==
  ASSUME StartInv, UNCHANGED <<dict, lineno, section, held>>, PluginInv'
  PROVE  StartInv' /\ Contents' = Contents
<1>1. DictInv' /\ Contents' = Contents
  BY SameDict DEF StartInv, DictInv
<1>2. lineno' = lineno /\ section' = section /\ held' = held
  OBVIOUS
<1>3. HeldAt(held[1], lineno)' <=> HeldAt(held[1], lineno)
  BY <1>2 DEF HeldAt
<1>4. IniInv'
  BY <1>2, <1>3 DEF StartInv, IniInv
<1> QED
  BY <1>1, <1>4 DEF StartInv, DictInv

(* No plugin is open before register_plugin. *)
LEMMA NoPluginYet ==
  ASSUME PluginInv, at \in {"load", "daemon", "bind", "plugin"}, UNCHANGED plugin
  PROVE  handle # "open" /\ opened = 0 /\ PluginInv'
<1>1. handle # "open" /\ opened = 0
  BY DEF PluginInv
<1>2. handle' = handle /\ opened' = opened /\ fns' = fns
  BY DEF plugin
<1> QED
  BY <1>1, <1>2 DEF PluginInv

LEMMA HoldLineStep ==
  ASSUME StartInv, NEW l \in Lines, HoldLine(l), UNCHANGED plugin
  PROVE  StartInv' /\ Contents' = Contents
<1>1. /\ Reading /\ UNCHANGED dict /\ lineno' = lineno + 1 /\ section' = section
  BY DEF HoldLine
<1>2. PICK j \in Joins(l) : held' = IF j.type = "empty" THEN <<>> ELSE <<j>>
  BY DEF HoldLine
<1>3. held' # <<>> => HeldAt(held[1], lineno)'
  <2>1. HeldAt(j, lineno + 1)
    BY <1>1, JoinsFacts DEF StartInv
  <2>2. held' # <<>> => held'[1] = j
    BY <1>2
  <2>3. held' # <<>> => HeldAt(held'[1], lineno')
    BY <1>1, <2>1, <2>2, Zenon
  <2> QED
    BY <2>3, Zenon DEF HeldAt
<1>4. IniInv'
  BY <1>1, <1>3 DEF StartInv, IniInv
<1>5. DictInv' /\ Contents' = Contents
  BY <1>1, SameDict DEF StartInv, DictInv
<1>6. PluginInv'
  BY <1>1, NoPluginYet DEF StartInv, Reading
<1> QED
  BY <1>4, <1>5, <1>6 DEF StartInv, DictInv

(* What HandleLine does with the line it has joined. *)
Handles(j) ==
  /\ \/ j.type \in {"empty", "comment"} /\ UNCHANGED <<dict, section, errs>>
     \/ j.type = "error" /\ errs' = errs + 1 /\ UNCHANGED <<dict, section>>
     \/ /\ j.type \in {"section", "value"}
        /\ DictionarySet(EntryOf(j), Stored(j))
        /\ errs' = 0
        /\ section' = IF j.type = "section" THEN Lower[j.name] ELSE section
  /\ lines' = Append(lines, j)

LEMMA HandleLineStep ==
  ASSUME StartInv, NEW l \in Lines, HandleLine(l), UNCHANGED plugin
  PROVE  StartInv' /\ [Map!Next]_Contents
<1>1. Reading /\ held' = <<>> /\ lineno' = lineno + 1
  BY DEF HandleLine
<1>2. PluginInv'
  BY <1>1, NoPluginYet DEF StartInv, Reading
<1>j. PICK j \in Joins(l) : Handles(j)
  BY DEF HandleLine, Handles
<1>3. /\ j.type \in {"empty", "comment", "section", "value", "error"}
      /\ j.type = "section" => EntryOf(j) \in Keys /\ Lower[j.name] \in SectionNames
      /\ j.type = "value" => EntryOf(j) \in Keys /\ ParseValue(j.val) \in Values
  BY <1>1, JoinsFacts DEF StartInv
<1>4. DictInv
  BY DEF StartInv, DictInv
<1>5. CASE j.type \in {"empty", "comment", "error"}
  <2>1. UNCHANGED <<dict, section>>
    BY <1>j, <1>5 DEF Handles
  <2>2. DictInv' /\ Contents' = Contents
    BY <1>4, <2>1, SameDict
  <2>3. IniInv'
    BY <1>1, <2>1 DEF StartInv, IniInv
  <2> QED
    BY <1>2, <2>2, <2>3 DEF StartInv, DictInv
<1>6. CASE j.type \in {"section", "value"}
  <2>1. /\ DictionarySet(EntryOf(j), Stored(j))
        /\ section' = IF j.type = "section" THEN Lower[j.name] ELSE section
    BY <1>j, <1>6 DEF Handles
  <2>2. EntryOf(j) \in Keys /\ Stored(j) \in Values \cup {NULL}
    BY <1>3, <1>6 DEF Stored
  <2>3. DictInv' /\ Map!Put(EntryOf(j), Stored(j))
    BY <1>4, <2>1, <2>2, SetStep
  <2>4. IniInv'
    BY <1>1, <1>3, <2>1 DEF StartInv, IniInv
  <2>5. Map!Next
    BY <2>2, <2>3 DEF Map!Next
  <2> QED
    BY <1>2, <2>3, <2>4, <2>5 DEF StartInv, DictInv
<1> QED
  BY <1>3, <1>5, <1>6

LEMMA LoadStep ==
  ASSUME StartInv, LoadFile
  PROVE  StartInv' /\ [Map!Next]_Contents
<1>1. Load /\ UNCHANGED plugin
  BY DEF LoadFile
<1>2. ASSUME NEW l \in Lines, HoldLine(l) PROVE StartInv' /\ [Map!Next]_Contents
  BY <1>1, <1>2, HoldLineStep
<1>3. ASSUME NEW l \in Lines, HandleLine(l) PROVE StartInv' /\ [Map!Next]_Contents
  BY <1>1, <1>3, HandleLineStep
<1>4. ASSUME NEW l \in Lines, NoMemory(l) PROVE StartInv' /\ [Map!Next]_Contents
  <2>1. at = "load" /\ UNCHANGED <<dict, lineno, section, held>>
    BY <1>4 DEF NoMemory, Reading
  <2> QED
    BY <1>1, <2>1, NoPluginYet, OtherStep DEF StartInv
<1>5. CASE BlankLine
  <2>1. at = "load" /\ lineno' = lineno + 1 /\ held = <<>> /\ UNCHANGED <<dict, section, held>>
    BY <1>5 DEF BlankLine, Reading
  <2>2. IniInv'
    BY <2>1 DEF StartInv, IniInv
  <2>3. DictInv' /\ Contents' = Contents
    BY <2>1, SameDict DEF StartInv, DictInv
  <2>4. PluginInv'
    BY <1>1, <2>1, NoPluginYet DEF StartInv
  <2> QED
    BY <2>2, <2>3, <2>4 DEF StartInv, DictInv
<1>6. CASE LoadFails \/ LoadEnds
  <2>1. at = "load" /\ UNCHANGED <<dict, lineno, section, held>>
    BY <1>6 DEF LoadFails, LoadEnds
  <2> QED
    BY <1>1, <2>1, NoPluginYet, OtherStep DEF StartInv
<1> QED
  BY <1>1, <1>2, <1>3, <1>4, <1>5, <1>6 DEF Load

LEMMA RegisterPluginStep ==
  ASSUME StartInv, RegisterPlugin
  PROVE  StartInv' /\ Contents' = Contents
<1>1. at = "plugin" /\ at' = "init" /\ UNCHANGED <<dict, inivars>>
  BY DEF RegisterPlugin
<1>2. opened = 0
  BY <1>1 DEF StartInv, PluginInv
<1>3. \/ handle' = "null" /\ opened' = opened
      \/ handle' = "open" /\ opened' = 1 /\ Range(Required) \subseteq fns'
      \/ opened' = 0 /\ handle' = "null"
  BY DEF RegisterPlugin, DlsymFails
<1>4. PluginInv'
  BY <1>1, <1>2, <1>3 DEF PluginInv
<1> QED
  BY <1>1, <1>4, OtherStep DEF inivars

LEMMA ChangeStep ==
  ASSUME StartInv, Change
  PROVE  StartInv' /\ [Map!Next]_Contents
<1>1. UNCHANGED <<at, inivars, plugin>>
  BY DEF Change
<1>2. DictInv
  BY DEF StartInv, DictInv
<1>3. DictInv' /\ [Map!Next]_Contents
  <2>1. PICK k \in UserKeys : IniUnset(k) \/ \E v \in UserValues : IniSet(k, v)
    BY DEF Change
  <2>2. LowerKey(k) \in Keys /\ UserValues \subseteq Values \cup {NULL}
    BY StartupAssumption
  <2>3. CASE IniUnset(k)
    <3>1. DictInv' /\ Map!Remove(LowerKey(k))
      BY <1>2, <2>2, <2>3, UnsetStep DEF IniUnset
    <3> QED
      BY <2>2, <3>1 DEF Map!Next
  <2>4. ASSUME NEW v \in UserValues, IniSet(k, v) PROVE DictInv' /\ [Map!Next]_Contents
    <3>1. v \in Values \cup {NULL}
      BY <2>2
    <3>2. DictInv' /\ Map!Put(LowerKey(k), v)
      BY <1>2, <2>2, <2>4, <3>1, SetStep DEF IniSet
    <3> QED
      BY <2>2, <3>1, <3>2 DEF Map!Next
  <2> QED
    BY <2>1, <2>3, <2>4
<1>4. HeldAt(held[1], lineno)' <=> HeldAt(held[1], lineno)
  BY <1>1 DEF inivars, HeldAt
<1>5. IniInv'
  BY <1>1, <1>4 DEF StartInv, IniInv, inivars
<1>6. PluginInv'
  BY <1>1 DEF StartInv, PluginInv, plugin
<1> QED
  BY <1>3, <1>5, <1>6 DEF StartInv, DictInv

LEMMA NextHolds ==
  ASSUME StartInv, [Next]_vars
  PROVE  StartInv' /\ [Map!Next]_Contents
<1>1. CASE LoadFile
  BY <1>1, LoadStep
<1>2. CASE DaemonStart
  <2>1. at = "daemon" /\ UNCHANGED <<dict, inivars, plugin>>
    BY <1>2 DEF DaemonStart
  <2> QED
    BY <2>1, NoPluginYet, OtherStep DEF StartInv, inivars
<1>3. ASSUME NEW l \in BindLines, NEW newline \in BOOLEAN, BindLine(l, newline)
      PROVE  StartInv' /\ [Map!Next]_Contents
  <2>1. at = "bind" /\ UNCHANGED <<dict, inivars, plugin>>
    BY <1>3 DEF BindLine
  <2> QED
    BY <2>1, NoPluginYet, OtherStep DEF StartInv, inivars
<1>4. CASE BindEnds
  <2>1. at = "bind" /\ UNCHANGED <<dict, inivars, plugin>>
    BY <1>4 DEF BindEnds
  <2> QED
    BY <2>1, NoPluginYet, OtherStep DEF StartInv, inivars
<1>5. CASE RegisterPlugin
  BY <1>5, RegisterPluginStep
<1>6. CASE InitService
  <2>1. UNCHANGED <<dict, inivars, plugin>> /\ at' \in {"crashed", "running"}
    BY <1>6 DEF InitService
  <2>2. PluginInv'
    BY <2>1 DEF StartInv, PluginInv, plugin
  <2> QED
    BY <2>1, <2>2, OtherStep DEF inivars
<1>7. CASE Change
  BY <1>7, ChangeStep
<1>a. CASE ChangeFails
  <2>1. UNCHANGED <<dict, inivars, plugin>> /\ at' = "crashed"
    BY <1>a DEF ChangeFails
  <2>2. PluginInv'
    BY <2>1 DEF StartInv, PluginInv, plugin
  <2> QED
    BY <2>1, <2>2, OtherStep DEF inivars
<1>8. CASE Shutdown
  <2>1. UNCHANGED <<dict, inivars>>
    BY <1>8 DEF Shutdown
  <2>2. PluginInv'
    BY <1>8 DEF Shutdown, StartInv, PluginInv
  <2> QED
    BY <2>1, <2>2, OtherStep DEF inivars
<1>9. CASE UNCHANGED vars
  <2>1. UNCHANGED <<dict, inivars, plugin, at>>
    BY <1>9 DEF vars
  <2>2. PluginInv'
    BY <2>1 DEF StartInv, PluginInv, plugin
  <2> QED
    BY <2>1, <2>2, OtherStep DEF inivars
<1> QED
  BY <1>1, <1>2, <1>3, <1>4, <1>5, <1>6, <1>7, <1>a, <1>8, <1>9 DEF Next

LEMMA StartInvHolds == Spec => []StartInv
<1>1. Init => StartInv
  BY InitHolds
<1>2. StartInv /\ [Next]_vars => StartInv'
  BY NextHolds
<1> QED
  BY <1>1, <1>2, PTL DEF Spec
-----------------------------------------------------------------------------
(***************************************************************************)
(* What one more line means.                                               *)
(***************************************************************************)
LEMMA MaxIsGreatest ==
  ASSUME NEW m \in Nat, NEW S \in SUBSET (1 .. m), S # {}
  PROVE  Max(S) \in S /\ \A y \in S : y <= Max(S)
<1> DEFINE D == {m - x : x \in S}
<1>1. D \in SUBSET Nat /\ D # {}
  <2>1. \A x \in S : m - x \in Nat
    OBVIOUS
  <2> QED
    BY <2>1, Zenon
<1>2. PICK d \in D : \A y \in D : d <= y
  <2> HIDE DEF D
  <2> QED
    BY <1>1, MinIsLeast
<1>3. PICK x \in S : d = m - x
  BY <1>2
<1>4. \A y \in S : x >= y
  <2> SUFFICES ASSUME NEW y \in S PROVE x >= y
    OBVIOUS
  <2>1. m - x <= m - y
    BY <1>2, <1>3
  <2>2. x \in Int /\ y \in Int /\ m \in Int
    OBVIOUS
  <2> QED
    BY <2>1, <2>2
<1>5. Max(S) \in S /\ \A y \in S : Max(S) >= y
  BY <1>3, <1>4, Zenon DEF Max
<1> QED
  BY <1>5

LEMMA MaxIs ==
  ASSUME NEW m \in Nat, NEW S \in SUBSET (1 .. m), m \in S
  PROVE  Max(S) = m
<1>1. Max(S) \in S /\ \A y \in S : y <= Max(S)
  BY MaxIsGreatest
<1>2. Max(S) \in 1 .. m /\ m <= Max(S)
  BY <1>1, Zenon
<1> QED
  BY <1>2

(* The lines before the last keep their sections and keys. *)
LEMMA EarlierLines ==
  ASSUME NEW T, NEW ls \in Seq(T), NEW j \in T
  PROVE  LET more == Append(ls, j) IN
         /\ more \in Seq(T) /\ Len(more) = Len(ls) + 1 /\ more[Len(ls) + 1] = j
         /\ \A i \in 1 .. Len(ls) : more[i] = ls[i]
         /\ \A i \in 0 .. Len(ls) : SectionAt(more, i) = SectionAt(ls, i)
         /\ \A i \in 1 .. Len(ls) : KeyAt(more, i) = KeyAt(ls, i)
<1> DEFINE more == Append(ls, j)
<1>1. /\ more \in Seq(T) /\ Len(more) = Len(ls) + 1 /\ more[Len(ls) + 1] = j
      /\ \A i \in 1 .. Len(ls) : more[i] = ls[i]
  OBVIOUS
<1> HIDE DEF more
<1>2. ASSUME NEW i \in 0 .. Len(ls) PROVE SectionAt(more, i) = SectionAt(ls, i)
  <2> DEFINE S == {k \in 1 .. i : ls[k].type = "section"}
  <2>1. \A k \in 1 .. i : more[k] = ls[k]
    BY <1>1
  <2>2. {k \in 1 .. i : more[k].type = "section"} = S
    BY <2>1
  <2>3. S \in SUBSET (1 .. i) /\ i \in Nat
    OBVIOUS
  <2> HIDE DEF S
  <2>4. S # {} => Max(S) \in S
    BY <2>3, MaxIsGreatest
  <2>5. S # {} => more[Max(S)] = ls[Max(S)]
    BY <2>1, <2>3, <2>4
  <2>6. SectionAt(more, i) = IF S = {} THEN "" ELSE Lower[more[Max(S)].name]
    BY <2>2, Zenon DEF SectionAt
  <2>7. SectionAt(ls, i) = IF S = {} THEN "" ELSE Lower[ls[Max(S)].name]
    BY Zenon DEF SectionAt, S
  <2>8. CASE S = {}
    BY <2>6, <2>7, <2>8
  <2>9. CASE S # {}
    BY <2>5, <2>6, <2>7, <2>9
  <2> QED
    BY <2>8, <2>9
<1>3. ASSUME NEW i \in 1 .. Len(ls) PROVE KeyAt(more, i) = KeyAt(ls, i)
  <2>1. more[i] = ls[i] /\ i \in 0 .. Len(ls)
    BY <1>1
  <2>2. SectionAt(more, i) = SectionAt(ls, i)
    BY <1>2, <2>1
  <2> QED
    BY <2>1, <2>2, Zenon DEF KeyAt
<1> QED
  BY <1>1, <1>2, <1>3 DEF more

LEMMA LastSection ==
  ASSUME NEW T, NEW ls \in Seq(T), NEW j \in T
  PROVE  SectionAt(Append(ls, j), Len(ls) + 1)
           = IF j.type = "section" THEN Lower[j.name] ELSE SectionAt(ls, Len(ls))
<1> DEFINE more == Append(ls, j)
           S == {k \in 1 .. Len(ls) + 1 : more[k].type = "section"}
<1>1. PICK m \in Nat : m = Len(ls)
  OBVIOUS
<1>2. /\ more \in Seq(T) /\ Len(more) = m + 1 /\ more[m + 1] = j
      /\ \A i \in 1 .. m : more[i] = ls[i]
      /\ SectionAt(more, m) = SectionAt(ls, m)
  <2>1. m \in 0 .. Len(ls)
    BY <1>1
  <2> QED
    BY <1>1, <2>1, EarlierLines
<1> HIDE DEF more
<1>3. SectionAt(more, m + 1) = IF S = {} THEN "" ELSE Lower[more[Max(S)].name]
  BY <1>1, Zenon DEF SectionAt
<1>4. S \in SUBSET (1 .. m + 1) /\ m + 1 \in Nat
  BY <1>1
<1>5. CASE j.type = "section"
  <2>1. m + 1 \in S
    BY <1>1, <1>2, <1>5
  <2> HIDE DEF S
  <2>2. Max(S) = m + 1
    BY <1>4, <2>1, MaxIs
  <2> QED
    BY <1>1, <1>2, <1>3, <1>5, <2>1, <2>2 DEF more
<1>6. CASE j.type # "section"
  <2>1. S = {k \in 1 .. m : more[k].type = "section"}
    BY <1>1, <1>2, <1>6
  <2>2. SectionAt(more, m) = IF S = {} THEN "" ELSE Lower[more[Max(S)].name]
    BY <2>1, Zenon DEF SectionAt
  <2> QED
    BY <1>1, <1>2, <1>3, <1>6, <2>2, Zenon DEF more
<1> QED
  BY <1>5, <1>6

(* A line that assigns puts its key, any other changes nothing. *)
LEMMA WrittenMore ==
  ASSUME NEW T, NEW ls \in Seq(T), NEW j \in T
  PROVE  LET more == Append(ls, j)
             k    == KeyAt(more, Len(ls) + 1)
             w    == Written(ls)
         IN  /\ j.type \in {"section", "value"} =>
                  Written(more) = [i \in DOMAIN w \cup {k} |->
                                     IF i = k THEN Stored(j) ELSE w[i]]
             /\ j.type \notin {"section", "value"} => Written(more) = w
<1>1. PICK m \in Nat : m = Len(ls)
  OBVIOUS
<1>2. PICK more \in Seq(T) :
        /\ more = Append(ls, j) /\ Len(more) = m + 1 /\ more[m + 1] = j
        /\ \A i \in 1 .. m : more[i] = ls[i] /\ KeyAt(more, i) = KeyAt(ls, i)
  BY <1>1, EarlierLines
<1> DEFINE k == KeyAt(more, m + 1)
           w == Written(ls)
           A == Assigning(ls)
           B == Assigning(more)
           At(x) == {i \in A : KeyAt(ls, i) = x}
           Bt(x) == {i \in B : KeyAt(more, i) = x}
<1>3. /\ A \subseteq 1 .. m /\ B \subseteq 1 .. m + 1
      /\ \A i \in 1 .. m : i \in B <=> i \in A
      /\ m + 1 \in B <=> j.type \in {"section", "value"}
  BY <1>1, <1>2 DEF Assigning
<1>4. /\ w = [x \in {KeyAt(ls, i) : i \in A} |-> Stored(ls[Max(At(x))])]
      /\ Written(more) = [x \in {KeyAt(more, i) : i \in B} |-> Stored(more[Max(Bt(x))])]
  BY Zenon DEF Written
<1> HIDE DEF k, w, A, B
<1>5. ASSUME NEW x, \E i \in A : KeyAt(ls, i) = x PROVE Stored(more[Max(At(x))]) = Stored(ls[Max(At(x))])
  <2>1. At(x) \in SUBSET (1 .. m) /\ At(x) # {}
    BY <1>3, <1>5
  <2>2. Max(At(x)) \in At(x)
    <3> HIDE DEF At
    <3> QED
      BY <2>1, MaxIsGreatest
  <2>3. Max(At(x)) \in 1 .. m
    BY <2>1, <2>2, Zenon
  <2>4. more[Max(At(x))] = ls[Max(At(x))]
    BY <1>2, <2>3
  <2> QED
    BY <2>4, Zenon
<1>6. CASE j.type \in {"section", "value"}
  <2>1. B = A \cup {m + 1}
    <3>1. \A i \in B : i \in 1 .. m \/ i = m + 1
      BY <1>3
    <3>2. m + 1 \in B
      BY <1>3, <1>6, Zenon
    <3> QED
      BY <1>3, <3>1, <3>2, Zenon
  <2>2. {KeyAt(more, i) : i \in B} = {KeyAt(ls, i) : i \in A} \cup {k}
    BY <1>2, <1>3, <2>1 DEF k
  <2>3. Max(Bt(k)) = m + 1
    <3>1. Bt(k) \in SUBSET (1 .. m + 1) /\ m + 1 \in Bt(k) /\ m + 1 \in Nat
      <4>1. m + 1 \in B /\ KeyAt(more, m + 1) = k /\ m + 1 \in Nat
        BY <2>1 DEF k
      <4> QED
        BY <1>3, <4>1, Zenon
    <3> HIDE DEF Bt
    <3> QED
      BY <3>1, MaxIs
  <2>4. ASSUME NEW x, x # k PROVE Bt(x) = At(x)
    BY <1>2, <1>3, <2>1, <2>4 DEF k
  <2>5. DOMAIN w = {KeyAt(ls, i) : i \in A}
    BY <1>4
  <2>6. ASSUME NEW x \in DOMAIN w \cup {k}
        PROVE  Stored(more[Max(Bt(x))]) = IF x = k THEN Stored(j) ELSE w[x]
    <3>1. CASE x = k
      BY <1>2, <2>3, <3>1
    <3>2. CASE x # k
      <4>1. x \in {KeyAt(ls, i) : i \in A} /\ \E i \in A : KeyAt(ls, i) = x
        BY <2>5, <2>6, <3>2
      <4>2. w[x] = Stored(ls[Max(At(x))])
        BY <1>4, <4>1
      <4>3. Bt(x) = At(x)
        BY <2>4, <3>2
      <4>4. Stored(more[Max(At(x))]) = Stored(ls[Max(At(x))])
        BY <1>5, <4>1
      <4> HIDE DEF At, Bt
      <4> QED
        BY <3>2, <4>2, <4>3, <4>4
    <3> QED
      BY <3>1, <3>2
  <2> HIDE DEF At, Bt
  <2>7. Written(more) = [x \in DOMAIN w \cup {k} |-> IF x = k THEN Stored(j) ELSE w[x]]
    BY <1>4, <2>2, <2>5, <2>6
  <2> QED
    BY <1>1, <1>2, <1>6, <2>7 DEF k, w
<1>7. CASE j.type \notin {"section", "value"}
  <2>1. B = A
    <3>1. \A i \in B : i \in 1 .. m \/ i = m + 1
      BY <1>3
    <3>2. m + 1 \notin B
      BY <1>3, <1>7, Zenon
    <3> QED
      BY <1>3, <3>1, <3>2, Zenon
  <2>2. \A i \in A : KeyAt(more, i) = KeyAt(ls, i)
    BY <1>2, <1>3
  <2>3. {KeyAt(more, i) : i \in B} = {KeyAt(ls, i) : i \in A}
    BY <2>1, <2>2
  <2>4. ASSUME NEW x PROVE Bt(x) = At(x)
    BY <2>1, <2>2
  <2>5. ASSUME NEW x \in {KeyAt(ls, i) : i \in A}
        PROVE  Stored(more[Max(Bt(x))]) = Stored(ls[Max(At(x))])
    <3>1. \E i \in A : KeyAt(ls, i) = x
      BY <2>5
    <3>2. Bt(x) = At(x)
      BY <2>4
    <3> HIDE DEF At, Bt
    <3> QED
      BY <1>5, <3>1, <3>2
  <2> HIDE DEF At, Bt
  <2>6. Written(more) = w
    BY <1>4, <2>3, <2>5
  <2> QED
    BY <1>1, <1>2, <1>7, <2>6 DEF w
<1> QED
  BY <1>6, <1>7

LEMMA InitWritten ==
  ASSUME Init
  PROVE  WriteInv
<1>1. lines = <<>> /\ errs = 0 /\ section = "" /\ at = "load"
  BY DEF Init, InitIni
<1>2. Contents = [k \in {} |-> 0]
  BY InitHolds DEF Map!Init
<1>3. Assigning(<<>>) = {} /\ ErrorsOvertaken(<<>>)
  BY DEF Assigning, ErrorsOvertaken
<1>4. Written(<<>>) = [k \in {} |-> 0]
  BY <1>3 DEF Written
<1>5. SectionAt(<<>>, 0) = ""
  BY DEF SectionAt
<1>6. Len(<<>>) = 0 /\ <<>> \in Seq(Lines \cup ValueLines)
  OBVIOUS
<1> QED
  BY <1>1, <1>2, <1>3, <1>4, <1>5, <1>6 DEF WriteInv, LoadedAsWritten

(* Steps that handle no line. *)
LEMMA NoLineStep ==
  ASSUME WriteInv, UNCHANGED <<lines, errs>>,
         \/ at' \notin {"load", "daemon"}
         \/ at' = at /\ section' = section /\ ini' = ini /\ Contents' = Contents
         \/ /\ at = "load" /\ at' = "daemon" /\ Contents' = Contents
            /\ ini' => errs = 0
  PROVE  WriteInv'
<1>1. lines' \in Seq(Lines \cup ValueLines) /\ errs' \in Nat /\ lines' = lines /\ errs' = errs
  BY DEF WriteInv
<1>2. CASE at' \notin {"load", "daemon"}
  BY <1>1, <1>2 DEF WriteInv, LoadedAsWritten
<1>3. CASE at' = at /\ section' = section /\ ini' = ini /\ Contents' = Contents
  BY <1>1, <1>3 DEF WriteInv, LoadedAsWritten
<1>4. CASE /\ at = "load" /\ at' = "daemon" /\ Contents' = Contents
           /\ ini' => errs = 0
  BY <1>1, <1>4 DEF WriteInv, LoadedAsWritten
<1> QED
  BY <1>2, <1>3, <1>4

LEMMA LineWritten ==
  ASSUME StartInv, WriteInv, NEW l \in Lines, HandleLine(l)
  PROVE  WriteInv'
<1>1. Reading /\ at' = at /\ at = "load" /\ ini' = ini
  BY DEF HandleLine, Reading
<1>2. PICK T : T = Lines \cup ValueLines
  OBVIOUS
<1>j. PICK j \in Joins(l) : Handles(j)
  BY DEF HandleLine, Handles
<1>3. /\ j \in T
      /\ j.type \in {"empty", "comment", "section", "value", "error"}
      /\ j.type = "section" => EntryOf(j) \in Keys
      /\ j.type = "value" => EntryOf(j) \in Keys /\ ParseValue(j.val) \in Values
  BY <1>1, <1>2, JoinsFacts DEF StartInv
<1>4. PICK m \in Nat : m = Len(lines)
  BY DEF WriteInv
<1>5. /\ lines \in Seq(T) /\ errs \in Nat /\ section = SectionAt(lines, m)
      /\ errs = 0 => ErrorsOvertaken(lines)
      /\ Contents = Written(lines) /\ DictInv
  BY <1>1, <1>2, <1>4 DEF WriteInv, LoadedAsWritten, StartInv, DictInv
<1>6. lines' = Append(lines, j)
  BY <1>j DEF Handles
<1>7. /\ lines' \in Seq(T) /\ Len(lines') = m + 1 /\ lines'[m + 1] = j
      /\ DOMAIN lines' = 1 .. m + 1 /\ DOMAIN lines = 1 .. m
      /\ \A i \in 1 .. m : lines'[i] = lines[i]
  BY <1>3, <1>4, <1>5, <1>6
<1>8. SectionAt(lines', m + 1) = IF j.type = "section" THEN Lower[j.name] ELSE section
  BY <1>3, <1>4, <1>5, <1>6, LastSection
<1>9. KeyAt(lines', m + 1) = EntryOf(j)
  BY <1>7, <1>8, Zenon DEF KeyAt, EntryOf
<1>10. /\ j.type \in {"section", "value"} =>
            Written(lines') = [i \in DOMAIN Contents \cup {EntryOf(j)} |->
                                 IF i = EntryOf(j) THEN Stored(j) ELSE Contents[i]]
       /\ j.type \notin {"section", "value"} => Written(lines') = Contents
  <2>1. LET more == Append(lines, j)
            k    == KeyAt(more, Len(lines) + 1)
            w    == Written(lines)
        IN  /\ j.type \in {"section", "value"} =>
                 Written(more) = [i \in DOMAIN w \cup {k} |->
                                    IF i = k THEN Stored(j) ELSE w[i]]
            /\ j.type \notin {"section", "value"} => Written(more) = w
    BY <1>3, <1>5, WrittenMore, Zenon
  <2> QED
    BY <1>4, <1>5, <1>6, <1>9, <2>1, Zenon
<1>11. \A i \in 1 .. m : i \in Assigning(lines') <=> i \in Assigning(lines)
  BY <1>7 DEF Assigning
<1>12. m + 1 \in Assigning(lines') <=> j.type \in {"section", "value"}
  BY <1>7 DEF Assigning
<1>13. /\ Contents' = Written(lines') /\ section' = SectionAt(lines', m + 1)
       /\ errs' \in Nat
       /\ errs' = 0 => ErrorsOvertaken(lines')
  <2>1. CASE j.type \in {"empty", "comment"}
    <3>1. UNCHANGED <<dict, section, errs>>
      BY <1>j, <2>1 DEF Handles
    <3>2. Contents' = Contents
      BY <1>5, <3>1, SameDict
    <3>3. ErrorsOvertaken(lines) => ErrorsOvertaken(lines')
      <4> SUFFICES ASSUME ErrorsOvertaken(lines), NEW i \in 1 .. m + 1, lines'[i].type = "error"
                   PROVE  \E k \in Assigning(lines') : k > i
        BY <1>7 DEF ErrorsOvertaken
      <4>1. i # m + 1
        BY <1>7, <2>1
      <4>2. i \in 1 .. m
        BY <4>1
      <4>3. PICK k \in Assigning(lines) : k > i
        BY <1>7, <4>2 DEF ErrorsOvertaken
      <4>4. k \in 1 .. m
        BY <1>7, <4>3 DEF Assigning
      <4> QED
        BY <1>11, <4>3, <4>4
    <3> QED
      BY <1>5, <1>8, <1>10, <2>1, <3>1, <3>2, <3>3
  <2>2. CASE j.type = "error"
    <3>1. UNCHANGED <<dict, section>> /\ errs' = errs + 1
      BY <1>j, <2>2 DEF Handles
    <3>2. Contents' = Contents
      BY <1>5, <3>1, SameDict
    <3> QED
      BY <1>5, <1>8, <1>10, <2>2, <3>1, <3>2
  <2>3. CASE j.type \in {"section", "value"}
    <3>1. /\ DictionarySet(EntryOf(j), Stored(j)) /\ errs' = 0
          /\ section' = IF j.type = "section" THEN Lower[j.name] ELSE section
      BY <1>j, <2>3 DEF Handles
    <3>2. EntryOf(j) \in Keys /\ Stored(j) \in Values \cup {NULL}
      BY <1>3, <2>3 DEF Stored
    <3>3. Map!Put(EntryOf(j), Stored(j))
      BY <1>5, <3>1, <3>2, SetStep
    <3>4. Contents' = Written(lines')
      BY <1>10, <2>3, <3>3 DEF Map!Put
    <3>5. ErrorsOvertaken(lines')
      <4> SUFFICES ASSUME NEW i \in 1 .. m + 1, lines'[i].type = "error"
                   PROVE  \E k \in Assigning(lines') : k > i
        BY <1>7 DEF ErrorsOvertaken
      <4>1. i # m + 1
        BY <1>7, <2>3
      <4> QED
        BY <1>12, <2>3, <4>1
    <3> QED
      BY <1>8, <3>1, <3>4, <3>5
  <2> QED
    BY <1>3, <2>1, <2>2, <2>3
<1>14. LoadedAsWritten'
  <2>1. at' = "load" /\ at' # "daemon"
    BY <1>1
  <2> QED
    BY <1>13, <2>1, Zenon DEF LoadedAsWritten
<1>15. section' = SectionAt(lines', Len(lines'))
  BY <1>7, <1>13, Zenon
<1>16. lines' \in Seq(Lines \cup ValueLines)
  BY <1>2, <1>7, Zenon
<1> QED
  BY <1>13, <1>14, <1>15, <1>16, Zenon DEF WriteInv

LEMMA NextWritten ==
  ASSUME StartInv, WriteInv, [Next]_vars
  PROVE  WriteInv'
<1>1. CASE LoadFile
  <2>1. Load
    BY <1>1 DEF LoadFile
  <2>2. ASSUME UNCHANGED dict PROVE Contents' = Contents
    BY <2>2, SameDict DEF StartInv, DictInv
  <2>3. ASSUME NEW l \in Lines, HoldLine(l) PROVE WriteInv'
    BY <2>2, <2>3, NoLineStep DEF HoldLine
  <2>4. ASSUME NEW l \in Lines, HandleLine(l) PROVE WriteInv'
    BY <2>4, LineWritten
  <2>5. ASSUME NEW l \in Lines, NoMemory(l) PROVE WriteInv'
    BY <2>2, <2>5, NoLineStep DEF NoMemory, Reading
  <2>6. CASE BlankLine
    BY <2>2, <2>6, NoLineStep DEF BlankLine, Reading
  <2>7. CASE LoadFails
    BY <2>2, <2>7, NoLineStep DEF LoadFails
  <2>8. CASE LoadEnds
    BY <2>2, <2>8, NoLineStep DEF LoadEnds
  <2> QED
    BY <2>1, <2>3, <2>4, <2>5, <2>6, <2>7, <2>8 DEF Load
<1>2. CASE DaemonStart
  <2>1. at' \in {"crashed", "bind"} /\ UNCHANGED inivars
    BY <1>2 DEF DaemonStart
  <2> QED
    BY <2>1, NoLineStep DEF inivars
<1>3. ASSUME NEW l \in BindLines, NEW newline \in BOOLEAN, BindLine(l, newline)
      PROVE  WriteInv'
  <2>1. at' \in {"undefined", "crashed", "bind"} /\ UNCHANGED inivars
    BY <1>3 DEF BindLine
  <2> QED
    BY <2>1, NoLineStep DEF inivars
<1>4. CASE BindEnds
  BY <1>4, NoLineStep DEF BindEnds, inivars
<1>5. CASE RegisterPlugin
  <2>1. at' = "init" /\ UNCHANGED inivars
    BY <1>5 DEF RegisterPlugin
  <2> QED
    BY <2>1, NoLineStep DEF inivars
<1>6. CASE InitService
  BY <1>6, NoLineStep DEF InitService, inivars
<1>7. CASE Change
  <2>1. at' = "running" /\ UNCHANGED inivars
    BY <1>7 DEF Change
  <2> QED
    BY <2>1, NoLineStep DEF inivars
<1>a. CASE ChangeFails
  <2>1. at' = "crashed" /\ UNCHANGED inivars
    BY <1>a DEF ChangeFails
  <2> QED
    BY <2>1, NoLineStep DEF inivars
<1>8. CASE Shutdown
  <2>1. at' = "stopped" /\ UNCHANGED inivars
    BY <1>8 DEF Shutdown
  <2> QED
    BY <2>1, NoLineStep DEF inivars
<1>9. CASE UNCHANGED vars
  <2>1. UNCHANGED <<dict, inivars, at>>
    BY <1>9 DEF vars
  <2>2. Contents' = Contents
    BY <2>1, SameDict DEF StartInv, DictInv
  <2> QED
    BY <2>1, <2>2, NoLineStep DEF inivars
<1> QED
  BY <1>1, <1>2, <1>3, <1>4, <1>5, <1>6, <1>7, <1>a, <1>8, <1>9 DEF Next
-----------------------------------------------------------------------------
(* n counts the used slots and no key has two, after any sets, removals    *)
(* and doublings: the search for a free slot in dictionary_set always ends *)
(* and dictionary_unset makes a key unknown.                               *)
THEOREM SlotsAreCountedThm == Spec => []SlotsAreCounted
<1>1. StartInv => SlotsAreCounted
  BY DEF StartInv
<1> QED
  BY <1>1, StartInvHolds, PTL

(* However register_plugin ends, a plugin that is in use has every         *)
(* function it must have, and unregister_plugin closes exactly what was    *)
(* opened.                                                                 *)
THEOREM PluginIsWholeThm == Spec => []PluginIsWhole
<1>1. StartInv => PluginIsWhole
  BY DEF StartInv, PluginInv, PluginIsWhole
<1> QED
  BY <1>1, StartInvHolds, PTL

(* The dictionary implements a map: no collision, free slot or doubling in *)
(* dictionary_set and dictionary_unset shows.                              *)
THEOREM ImplementsMapThm == Spec => ImplementsMap
<1>1. Init => Map!Init
  BY InitHolds
<1>2. StartInv /\ [Next]_vars => [Map!Next]_Contents
  BY NextHolds
<1> QED
  BY <1>1, <1>2, StartInvHolds, PTL DEF Spec, ImplementsMap, Map!Spec

(* iniparser_set and iniparser_unset change the entry they name, in        *)
(* whatever case, and no other.                                            *)
THEOREM ChangesAsAskedThm == Spec => ChangesAsAsked
<1> DEFINE Asks == \A k \in UserKeys :
             /\ Change /\ IniUnset(k) => Map!Remove(LowerKey(k))
             /\ \A v \in UserValues : Change /\ IniSet(k, v) => Map!Put(LowerKey(k), v)
<1>1. ASSUME StartInv PROVE Asks
  <2>1. DictInv
    BY <1>1 DEF StartInv, DictInv
  <2>2. ASSUME NEW k \in UserKeys, IniUnset(k) PROVE Map!Remove(LowerKey(k))
    <3>1. LowerKey(k) \in Keys
      BY StartupAssumption
    <3> QED
      BY <2>1, <2>2, <3>1, UnsetStep DEF IniUnset
  <2>3. ASSUME NEW k \in UserKeys, NEW v \in UserValues, IniSet(k, v)
        PROVE  Map!Put(LowerKey(k), v)
    <3>1. LowerKey(k) \in Keys /\ v \in Values \cup {NULL}
      BY StartupAssumption
    <3> QED
      BY <2>1, <2>3, <3>1, SetStep DEF IniSet
  <2> QED
    BY <2>2, <2>3
<1>2. StartInv => Asks
  BY <1>1
<1> QED
  BY <1>2, StartInvHolds, PTL DEF ChangesAsAsked

(* Until a plugin changes it, the dictionary holds what the lines of the   *)
(* file say, for any file that iniparser_load reads: the last assignment   *)
(* to a key wins, in its section, in whatever case, continued or not; and  *)
(* a file is taken for good only if no syntax error is the last line that  *)
(* counts.                                                                 *)
THEOREM LoadedAsWrittenThm == Spec => []LoadedAsWritten
<1>1. Init => WriteInv
  BY InitWritten
<1>2. StartInv /\ WriteInv /\ [Next]_vars => WriteInv'
  BY NextWritten
<1>3. WriteInv => LoadedAsWritten
  BY DEF WriteInv
<1> QED
  BY <1>1, <1>2, <1>3, StartInvHolds, PTL DEF Spec
-----------------------------------------------------------------------------
(***************************************************************************)
(* The fields of a line of the bind file.                                  *)
(***************************************************************************)
LEMMA SkipFacts ==
  ASSUME NEW C, NEW line \in Seq(C), NEW i \in 1 .. Len(line) + 2
  PROVE  /\ SkipSeps(line, i) \in 1 .. Len(line) + 1
         /\ SkipSeps(line, i) <= Len(line) =>
              i <= SkipSeps(line, i) /\ ~Sep(line[SkipSeps(line, i)])
         /\ \A j \in i .. Len(line) : j < SkipSeps(line, i) => Sep(line[j])
         /\ SkipWord(line, i) \in 1 .. Len(line) + 1
         /\ SkipWord(line, i) <= Len(line) =>
              i <= SkipWord(line, i) /\ Sep(line[SkipWord(line, i)])
         /\ \A j \in i .. Len(line) : j < SkipWord(line, i) => ~Sep(line[j])
<1> DEFINE S == {j \in i .. Len(line) : ~Sep(line[j])} \cup {Len(line) + 1}
           W == {j \in i .. Len(line) : Sep(line[j])} \cup {Len(line) + 1}
<1>1. Len(line) \in Nat
  OBVIOUS
<1>2. /\ S \in SUBSET Nat /\ S # {} /\ W \in SUBSET Nat /\ W # {}
      /\ \A j \in S \cup W : j \in 1 .. Len(line) + 1
  BY <1>1
<1>3. /\ \A j \in S : j <= Len(line) => i <= j /\ ~Sep(line[j])
      /\ \A j \in W : j <= Len(line) => i <= j /\ Sep(line[j])
      /\ \A j \in i .. Len(line) : (j \notin S => Sep(line[j])) /\ (j \notin W => ~Sep(line[j]))
  BY <1>1
<1>4. SkipSeps(line, i) = Min(S) /\ SkipWord(line, i) = Min(W)
  BY Zenon DEF SkipSeps, SkipWord
<1> HIDE DEF S, W
<1>5. PICK a \in S : a = Min(S) /\ \A y \in S : a <= y
  BY <1>2, MinIsLeast
<1>6. PICK b \in W : b = Min(W) /\ \A y \in W : b <= y
  BY <1>2, MinIsLeast
<1>7. ASSUME NEW j \in i .. Len(line)
      PROVE  (j < a => Sep(line[j])) /\ (j < b => ~Sep(line[j]))
  <2>1. j < a => j \notin S
    BY <1>1, <1>2, <1>5
  <2>2. j < b => j \notin W
    BY <1>1, <1>2, <1>6
  <2> QED
    BY <1>3, <2>1, <2>2, Zenon
<1> QED
  BY <1>2, <1>3, <1>4, <1>5, <1>6, <1>7

(* The words from position k on, where a word may start. *)
WordsFrom(line, k) == {w \in Words(line) : w[1] >= k}
MayStart(line, k) == k = 1 \/ Sep(line[k - 1])

LEMMA FirstWord ==
  ASSUME NEW C, NEW line \in Seq(C), NEW k \in 1 .. Len(line) + 1, MayStart(line, k),
         NEW s, s = SkipSeps(line, k), NEW e, e = SkipWord(line, s)
  PROVE  /\ s > Len(line) => WordsFrom(line, k) = {}
         /\ s <= Len(line) =>
              /\ s \in k .. Len(line) /\ e \in s + 1 .. Len(line) + 1
              /\ s = 1 \/ Sep(line[s - 1])
              /\ e <= Len(line) => Sep(line[e])
              /\ <<s, e - 1>> \in Words(line)
              /\ WordsFrom(line, k) = {<<s, e - 1>>} \cup WordsFrom(line, e + 1)
<1> DEFINE N == Len(line)
<1>1. N \in Nat /\ k \in 1 .. N + 2
  OBVIOUS
<1>2. /\ s \in 1 .. N + 1 /\ (s <= N => k <= s /\ ~Sep(line[s]))
      /\ \A j \in k .. N : j < s => Sep(line[j])
  BY <1>1, SkipFacts
<1>3. /\ e \in 1 .. N + 1 /\ (e <= N => s <= e /\ Sep(line[e]))
      /\ \A j \in s .. N : j < e => ~Sep(line[j])
  <2>1. s \in 1 .. N + 2
    BY <1>1, <1>2
  <2> QED
    BY <2>1, SkipFacts
<1>4. ASSUME NEW w \in Words(line)
      PROVE  /\ w[1] \in 1 .. N /\ w[2] \in w[1] .. N /\ w = <<w[1], w[2]>>
             /\ \A j \in w[1] .. w[2] : ~Sep(line[j])
             /\ w[1] = 1 \/ Sep(line[w[1] - 1])
             /\ w[2] = N \/ Sep(line[w[2] + 1])
  BY <1>1 DEF Words
<1> HIDE DEF N
<1>5. ASSUME NEW w \in WordsFrom(line, k)
      PROVE  w \in Words(line) /\ k <= w[1] /\ s <= w[1]
  <2>1. w \in Words(line) /\ k <= w[1]
    BY <1>4 DEF WordsFrom
  <2>2. ~Sep(line[w[1]]) /\ w[1] \in k .. N
    BY <1>1, <1>4, <2>1
  <2>3. ~(w[1] < s)
    BY <1>2, <2>2, Zenon
  <2> QED
    BY <1>2, <2>1, <2>2, <2>3
<1>6. CASE s > N
  <2>1. WordsFrom(line, k) = {}
    BY <1>1, <1>2, <1>4, <1>5, <1>6
  <2> QED
    BY <1>1, <1>2, <1>6, <2>1 DEF N
<1>7. CASE s <= N
  <2>1. s \in k .. N /\ ~Sep(line[s])
    BY <1>1, <1>2, <1>7
  <2>2. e # s
    BY <1>1, <1>3, <1>7, <2>1
  <2>3. e \in s + 1 .. N + 1
    BY <1>1, <1>2, <1>3, <1>7, <2>2
  <2>4. s = 1 \/ Sep(line[s - 1])
    <3>1. CASE s = k
      BY <3>1 DEF MayStart
    <3>2. CASE s # k
      <4>1. s - 1 \in k .. N /\ s - 1 < s
        BY <1>1, <1>2, <2>1, <3>2
      <4> QED
        BY <1>2, <4>1, Zenon
    <3> QED
      BY <3>1, <3>2
  <2>5. <<s, e - 1>> \in Words(line)
    <3>1. s \in 1 .. N /\ e - 1 \in 1 .. N /\ s <= e - 1
      BY <1>1, <1>2, <2>1, <2>3
    <3>2. \A j \in s .. e - 1 : ~Sep(line[j])
      BY <1>1, <1>2, <1>3, <2>3
    <3>3. e - 1 = N \/ Sep(line[e - 1 + 1])
      BY <1>1, <1>3, <2>3
    <3> QED
      BY <2>4, <3>1, <3>2, <3>3 DEF Words, N
  <2>6. ASSUME NEW w \in WordsFrom(line, k)
        PROVE  w = <<s, e - 1>> \/ w[1] >= e + 1
    <3>1. w \in Words(line) /\ s <= w[1]
      BY <1>5
    <3>2. CASE w[1] = s
      <4>1. w[2] < e
        <5>1. CASE e <= N
          <6>1. ~(e \in w[1] .. w[2])
            BY <1>3, <1>4, <3>1, <5>1, Zenon
          <6> QED
            BY <1>1, <1>3, <1>4, <2>3, <3>1, <3>2, <5>1, <6>1
        <5>2. CASE ~(e <= N)
          BY <1>1, <1>3, <1>4, <3>1, <5>2
        <5> QED
          BY <5>1, <5>2
      <4>2. CASE w[2] = N
        <5>1. w[2] = e - 1
          BY <1>1, <1>4, <2>3, <3>1, <3>2, <4>1, <4>2
        <5> QED
          BY <1>4, <3>1, <3>2, <5>1, Zenon
      <4>3. CASE w[2] # N
        <5>1. Sep(line[w[2] + 1]) /\ w[2] + 1 \in s .. N
          BY <1>1, <1>2, <1>4, <3>1, <3>2, <4>3
        <5>2. ~(w[2] + 1 < e)
          BY <1>3, <5>1, Zenon
        <5>3. w[2] = e - 1
          BY <1>1, <1>3, <1>4, <3>1, <4>1, <5>1, <5>2
        <5> QED
          BY <1>4, <3>1, <3>2, <5>3, Zenon
      <4> QED
        BY <4>2, <4>3
    <3>3. CASE w[1] # s
      <4>1. Sep(line[w[1] - 1]) /\ w[1] - 1 \in s .. N
        BY <1>1, <1>2, <1>4, <3>1, <3>3
      <4>2. ~(w[1] - 1 < e)
        BY <1>3, <4>1, Zenon
      <4> QED
        BY <1>1, <1>3, <1>4, <3>1, <4>1, <4>2
    <3> QED
      BY <3>2, <3>3
  <2>7. ASSUME NEW w \in WordsFrom(line, e + 1) PROVE w \in WordsFrom(line, k)
    BY <1>1, <1>4, <2>1, <2>3 DEF WordsFrom
  <2>8. <<s, e - 1>> \in WordsFrom(line, k)
    BY <2>1, <2>5 DEF WordsFrom
  <2>9. WordsFrom(line, k) = {<<s, e - 1>>} \cup WordsFrom(line, e + 1)
    <3>1. ASSUME NEW w \in WordsFrom(line, k), w # <<s, e - 1>>
          PROVE  w \in WordsFrom(line, e + 1)
      BY <1>5, <2>6, <3>1 DEF WordsFrom
    <3> QED
      BY <2>7, <2>8, <3>1, Zenon
  <2> QED
    BY <1>1, <1>3, <1>7, <2>1, <2>3, <2>4, <2>5, <2>9 DEF N
<1> QED
  BY <1>1, <1>2, <1>6, <1>7 DEF N

(* The last character of the line that is no separator ends a word, and no *)
(* word ends later.                                                        *)
LEMMA LastWord ==
  ASSUME NEW C, NEW line \in Seq(C), NEW s \in 1 .. Len(line), ~Sep(line[s]), MayStart(line, s)
  PROVE  Max({j \in s .. Len(line) : ~Sep(line[j])}) = Max({v[2] : v \in WordsFrom(line, s)})
<1> DEFINE N == Len(line)
           J == {j \in s .. N : ~Sep(line[j])}
           E == {v[2] : v \in WordsFrom(line, s)}
<1>1. N \in Nat
  OBVIOUS
<1>2. J \in SUBSET (1 .. N) /\ J # {}
  BY <1>1
<1>3. ASSUME NEW v \in WordsFrom(line, s) PROVE v[2] \in J
  BY <1>1 DEF WordsFrom, Words
<1>4. E \subseteq J
  BY <1>3
<1>5. PICK m \in J : m = Max(J) /\ \A y \in J : y <= m
  <2> HIDE DEF J
  <2> QED
    BY <1>1, <1>2, MaxIsGreatest
<1>6. m \in E
  <2> DEFINE B == {b \in 1 .. m : b = 1 \/ Sep(line[b - 1])}
  <2>1. m \in Nat /\ m \in s .. N /\ ~Sep(line[m]) /\ B \in SUBSET (1 .. m) /\ s \in B
    BY <1>1, <1>2, <1>5 DEF MayStart
  <2>2. PICK b \in B : \A y \in B : y <= b
    <3> HIDE DEF B
    <3> QED
      BY <2>1, MaxIsGreatest
  <2>3. s <= b /\ b \in 1 .. m /\ (b = 1 \/ Sep(line[b - 1]))
    BY <2>1, <2>2
  <2>4. ASSUME NEW j \in b .. m PROVE ~Sep(line[j])
    <3>1. CASE j = m
      BY <2>1, <3>1
    <3>2. CASE j # m
      <4>1. j + 1 \in 1 .. m /\ ~(j + 1 <= b) /\ j + 1 - 1 = j
        BY <2>1, <2>3, <3>2
      <4>2. j + 1 \notin B
        BY <2>2, <4>1, Zenon
      <4> QED
        BY <4>1, <4>2
    <3> QED
      BY <3>1, <3>2
  <2>5. m = N \/ Sep(line[m + 1])
    <3>1. CASE m # N
      <4>1. m + 1 \in s .. N /\ ~(m + 1 <= m)
        BY <1>1, <2>1, <3>1
      <4>2. m + 1 \notin J
        BY <1>5, <4>1, Zenon
      <4> QED
        BY <4>1, <4>2
    <3> QED
      BY <3>1
  <2>6. <<b, m>> \in Words(line)
    BY <1>1, <2>1, <2>3, <2>4, <2>5 DEF Words
  <2>7. <<b, m>> \in WordsFrom(line, s)
    BY <2>3, <2>6 DEF WordsFrom
  <2> QED
    BY <2>7
<1>7. PICK x \in E : x = Max(E) /\ \A y \in E : y <= x
  <2>1. E \in SUBSET (1 .. N) /\ E # {}
    BY <1>2, <1>4, <1>6, Zenon
  <2> HIDE DEF E
  <2> QED
    BY <1>1, <2>1, MaxIsGreatest
<1>8. m <= x /\ x <= m /\ m \in Nat /\ x \in Nat
  BY <1>1, <1>2, <1>4, <1>5, <1>6, <1>7
<1>9. Max(J) = Max(E)
  <2> HIDE DEF J, E
  <2> QED
    BY <1>5, <1>7, <1>8
<1> QED
  BY <1>9

(* The loop of str_split, unfolded once. *)
Positions(line) == (1 .. Len(line) + 2) \X (1 .. FieldNum)

Round(line, f, p) ==
  LET i == p[1]
      m == p[2]
      s == SkipSeps(line, i)
      e == SkipWord(line, s)
  IN  CASE s > Len(line)   -> <<>>
        [] s <= Len(line) /\ m = FieldNum -> <<LastField(line, s)>>
        [] s <= Len(line) /\ m < FieldNum /\ e > Len(line) -> <<<<s, e - 1>>>>
        [] OTHER           -> <<<<s, e - 1>>>> \o f[<<e + 1, m + 1>>]

Loops(line, f) == f = [p \in Positions(line) |-> Round(line, f, p)]

(* A round needs what the loop does further right only. *)
LEMMA RoundLooksRight ==
  ASSUME NEW C, NEW line \in Seq(C), NEW p \in Positions(line), NEW f, NEW g,
         \A q \in Positions(line) : q[1] > p[1] => f[q] = g[q]
  PROVE  Round(line, f, p) = Round(line, g, p)
<1>1. PICK i \in 1 .. Len(line) + 2, m \in 1 .. FieldNum : p = <<i, m>>
  BY DEF Positions
<1>2. PICK s : s = SkipSeps(line, i)
  OBVIOUS
<1>3. PICK e : e = SkipWord(line, s)
  OBVIOUS
<1>4. Len(line) \in Nat /\ FieldNum \in Nat
  BY FieldAssumption
<1>5. s \in 1 .. Len(line) + 1 /\ (s <= Len(line) => i <= s)
  BY <1>2, SkipFacts
<1>6. e \in 1 .. Len(line) + 1 /\ (e <= Len(line) => s <= e)
  <2>1. s \in 1 .. Len(line) + 2
    BY <1>4, <1>5
  <2> QED
    BY <1>3, <2>1, SkipFacts
<1>7. CASE s <= Len(line) /\ m < FieldNum /\ e <= Len(line)
  <2>1. <<e + 1, m + 1>> \in Positions(line) /\ <<e + 1, m + 1>>[1] > p[1]
    BY <1>1, <1>4, <1>5, <1>6, <1>7 DEF Positions
  <2>2. f[<<e + 1, m + 1>>] = g[<<e + 1, m + 1>>]
    BY <2>1
  <2> QED
    BY <1>1, <1>2, <1>3, <2>2, Zenon DEF Round
<1>8. CASE ~(s <= Len(line) /\ m < FieldNum /\ e <= Len(line))
  <2>1. \/ s > Len(line) 
        \/ s <= Len(line) /\ m = FieldNum
        \/ s <= Len(line) /\ m < FieldNum /\ e > Len(line)
    BY <1>4, <1>5, <1>6, <1>8
  <2> QED
    BY <1>1, <1>2, <1>3, <1>4, <1>5, <1>6, <2>1 DEF Round
<1> QED
  BY <1>7, <1>8

LEMMA LoopExists ==
  ASSUME NEW C, NEW line \in Seq(C)
  PROVE  \E f : Loops(line, f)
<1> DEFINE N == Len(line)
           D == Positions(line)
           P(j) == \E f : /\ f = [p \in D |-> f[p]]
                          /\ \A p \in D : p[1] > N + 2 - j => f[p] = Round(line, f, p)
           S == {j \in 0 .. N + 2 : ~P(j)}
<1>1. N \in Nat /\ \A p \in D : p[1] \in 1 .. N + 2
  BY DEF Positions
<1>2. ASSUME NEW j \in S, \A y \in S : j <= y
      PROVE  FALSE
  <2>1. j \in 0 .. N + 2 /\ ~P(j)
    OBVIOUS
  <2>2. P(0)
    <3> DEFINE f == [p \in D |-> <<>>]
    <3>1. f = [p \in D |-> f[p]]
      OBVIOUS
    <3>2. \A p \in D : p[1] > N + 2 - 0 => f[p] = Round(line, f, p)
      BY <1>1
    <3> HIDE DEF f, D, N
    <3> QED
      BY <3>1, <3>2, Zenon
  <2>3. j # 0
    BY <2>1, <2>2, Zenon
  <2>4. j - 1 \in 0 .. N + 2 /\ ~(j <= j - 1)
    BY <1>1, <2>1, <2>3
  <2>5. P(j - 1)
    <3>1. j - 1 \notin S
      BY <1>2, <2>4, Zenon
    <3> HIDE DEF P
    <3> QED
      BY <2>4, <3>1, Zenon
  <2> HIDE DEF D
  <2>6. PICK f : /\ f = [p \in D |-> f[p]]
                 /\ \A p \in D : p[1] > N + 2 - (j - 1) => f[p] = Round(line, f, p)
    BY <2>5, Zenon
  <2> DEFINE k == N + 2 - (j - 1)
             g == [p \in D |-> IF p[1] = k THEN Round(line, f, p) ELSE f[p]]
  <2>7. k \in 1 .. N + 3
    BY <1>1, <2>1, <2>3
  <2>8. ASSUME NEW p \in D, p[1] > N + 2 - j PROVE g[p] = Round(line, g, p)
    <3>1. p[1] \in Nat /\ p[1] >= k
      BY <1>1, <2>1, <2>8
    <3>2. \A q \in D : q[1] > p[1] => f[q] = g[q]
      BY <1>1, <2>7, <3>1
    <3> HIDE DEF g, k
    <3>3. Round(line, f, p) = Round(line, g, p)
      BY <3>2, RoundLooksRight DEF D
    <3>4. g[p] = Round(line, f, p)
      <4>1. CASE p[1] = k
        BY <4>1 DEF g
      <4>2. CASE p[1] # k
        <5>1. p[1] > k
          BY <2>7, <3>1, <4>2
        <5> QED
          BY <2>6, <4>2, <5>1 DEF g, k
      <4> QED
        BY <4>1, <4>2
    <3> QED
      BY <3>3, <3>4
  <2>9. g = [p \in D |-> g[p]]
    OBVIOUS
  <2> HIDE DEF g, N
  <2>10. P(j)
    BY <2>8, <2>9, Zenon
  <2> QED
    BY <2>1, <2>10
<1>3. S \in SUBSET Nat
  BY <1>1
<1>4. S = {}
  <2> HIDE DEF S
  <2> QED
    BY <1>2, <1>3, MinIsLeast
<1>5. P(N + 2)
  <2>1. N + 2 \in 0 .. N + 2
    BY <1>1
  <2> HIDE DEF P
  <2> QED
    BY <1>4, <2>1, Zenon
<1> HIDE DEF D
<1>6. PICK f : /\ f = [p \in D |-> f[p]]
               /\ \A p \in D : p[1] > N + 2 - (N + 2) => f[p] = Round(line, f, p)
  BY <1>5, Zenon
<1>7. \A p \in D : f[p] = Round(line, f, p)
  BY <1>1, <1>6
<1>8. f = [p \in D |-> Round(line, f, p)]
  BY <1>6, <1>7
<1> QED
  BY <1>8, Zenon DEF Loops, D

LEMMA FieldsLoop ==
  ASSUME NEW C, NEW line \in Seq(C)
  PROVE  \E f : Loops(line, f) /\ Fields(line) = f[<<1, 1>>]
<1> DEFINE g == CHOOSE f : Loops(line, f)
<1>1. Loops(line, g)
  BY LoopExists
<1>2. Fields(line) = g[<<1, 1>>]
  BY DEF Fields, Loops, Round, Positions
<1> QED
  BY <1>1, <1>2

(* From position k on, with m - 1 fields found, the loop returns the words *)
(* from there on.                                                          *)
SplitFrom(line, k, m, fs) ==
  LET W == WordsFrom(line, k)
  IN  /\ fs \in Seq((1 .. Len(line)) \X (1 .. Len(line)))
      /\ Len(fs) = IF Cardinality(W) <= FieldNum - m + 1 THEN Cardinality(W)
                                                         ELSE FieldNum - m + 1
      /\ \A f \in 1 .. Len(fs) : \E w \in W :
           /\ fs[f][1] = w[1]
           /\ Cardinality({v \in W : v[1] < w[1]}) = f - 1
           /\ fs[f][2] = IF f + m - 1 < FieldNum THEN w[2] ELSE Max({v[2] : v \in W})

LEMMA WordsFinite ==
  ASSUME NEW C, NEW line \in Seq(C), NEW S \in SUBSET Words(line)
  PROVE  IsFiniteSet(S) /\ Cardinality(S) \in Nat /\ (Cardinality(S) = 0 <=> S = {})
<1>1. IsFiniteSet(1 .. Len(line))
  BY FS_Interval
<1>2. IsFiniteSet((1 .. Len(line)) \X (1 .. Len(line)))
  BY <1>1, FS_Product
<1>3. S \subseteq (1 .. Len(line)) \X (1 .. Len(line))
  BY DEF Words
<1>4. IsFiniteSet(S)
  BY <1>2, <1>3, FS_Subset
<1> QED
  BY <1>4, FS_CardinalityType, FS_EmptySet

LEMMA NoField ==
  ASSUME NEW C, NEW line \in Seq(C), NEW k, NEW m \in 1 .. FieldNum, WordsFrom(line, k) = {}
  PROVE  SplitFrom(line, k, m, <<>>)
<1>1. Cardinality({}) = 0
  BY FS_EmptySet
<1>2. FieldNum \in Nat
  BY FieldAssumption
<1> QED
  BY <1>1, <1>2 DEF SplitFrom

LEMMA OneField ==
  ASSUME NEW C, NEW line \in Seq(C), NEW k \in 1 .. Len(line) + 1, NEW m \in 1 .. FieldNum,
         NEW w \in WordsFrom(line, k), \A v \in WordsFrom(line, k) : ~(v[1] < w[1]),
         NEW x \in 1 .. Len(line),
         x = IF m < FieldNum THEN w[2] ELSE Max({v[2] : v \in WordsFrom(line, k)}),
         m = FieldNum \/ WordsFrom(line, k) = {w}
  PROVE  SplitFrom(line, k, m, <<<<w[1], x>>>>)
<1> DEFINE W == WordsFrom(line, k)
           fs == <<<<w[1], x>>>>
<1>1. FieldNum \in Nat /\ W \in SUBSET Words(line) /\ w[1] \in 1 .. Len(line)
  BY FieldAssumption DEF WordsFrom, Words
<1>2. Cardinality(W) \in Nat /\ Cardinality(W) # 0
  BY <1>1, WordsFinite
<1>3. W = {w} => Cardinality(W) = 1
  BY FS_Singleton
<1>4. Cardinality({v \in W : v[1] < w[1]}) = 0
  <2>1. {v \in W : v[1] < w[1]} = {}
    OBVIOUS
  <2> QED
    BY <2>1, FS_EmptySet
<1>5. fs \in Seq((1 .. Len(line)) \X (1 .. Len(line))) /\ Len(fs) = 1
      /\ fs[1][1] = w[1] /\ fs[1][2] = x
  BY <1>1
<1> HIDE DEF W, fs
<1>6. Len(fs) = IF Cardinality(W) <= FieldNum - m + 1 THEN Cardinality(W)
                                                      ELSE FieldNum - m + 1
  BY <1>1, <1>2, <1>3, <1>5 DEF W
<1>7. ASSUME NEW f \in 1 .. Len(fs)
      PROVE  /\ fs[f][1] = w[1]
             /\ Cardinality({v \in W : v[1] < w[1]}) = f - 1
             /\ fs[f][2] = IF f + m - 1 < FieldNum THEN w[2] ELSE Max({v[2] : v \in W})
  <2>1. f = 1 /\ f - 1 = 0 /\ f + m - 1 = m
    BY <1>1, <1>5
  <2> QED
    BY <1>4, <1>5, <2>1, Zenon DEF W
<1>8. w \in W
  BY DEF W
<1> QED
  BY <1>5, <1>6, <1>7, <1>8, Zenon DEF SplitFrom, W, fs

LEMMA MoreFields ==
  ASSUME NEW C, NEW line \in Seq(C), NEW k \in 1 .. Len(line) + 1, NEW m \in 1 .. FieldNum,
         m < FieldNum, NEW s \in k .. Len(line), NEW e \in s + 1 .. Len(line),
         <<s, e - 1>> \in Words(line),
         WordsFrom(line, k) = {<<s, e - 1>>} \cup WordsFrom(line, e + 1),
         NEW gs, SplitFrom(line, e + 1, m + 1, gs)
  PROVE  SplitFrom(line, k, m, <<<<s, e - 1>>>> \o gs)
<1> DEFINE N == Len(line)
           W == WordsFrom(line, k)
           V == WordsFrom(line, e + 1)
           F == (1 .. N) \X (1 .. N)
           u == <<s, e - 1>>
           fs == <<u>> \o gs
<1>1. /\ N \in Nat /\ FieldNum \in Nat /\ W \in SUBSET Words(line) /\ V \in SUBSET Words(line)
      /\ s \in 1 .. N /\ e \in 1 .. N /\ s < e /\ u \in F /\ u[1] = s /\ u[2] = e - 1
  BY FieldAssumption DEF WordsFrom
<1>2. \A v \in V : v[1] \in 1 .. N /\ v[2] \in 1 .. N /\ s < v[1] /\ v[1] > e /\ v[2] > e
  BY <1>1 DEF WordsFrom, Words
<1>3. u \notin V
  <2>1. ~(u[1] > e)
    BY <1>1
  <2> QED
    BY <1>2, <2>1, Zenon
<1> HIDE DEF u
<1>4. /\ IsFiniteSet(V) /\ Cardinality(V) \in Nat /\ Cardinality(W) = Cardinality(V) + 1
      /\ Cardinality(W) \in Nat
  <2>1. W = V \cup {u}
    BY DEF u
  <2>2. IsFiniteSet(V) /\ Cardinality(V) \in Nat
    BY <1>1, WordsFinite
  <2> HIDE DEF W, V
  <2>3. Cardinality(V \cup {u}) = Cardinality(V) + 1
    BY <1>3, <2>2, FS_AddElement, Zenon
  <2>4. Cardinality(W) = Cardinality(V) + 1
    BY <2>1, <2>3, Zenon
  <2> QED
    BY <2>2, <2>4
<1>5. /\ gs \in Seq(F)
      /\ Len(gs) = IF Cardinality(V) <= FieldNum - (m + 1) + 1 THEN Cardinality(V)
                                                     ELSE FieldNum - (m + 1) + 1
      /\ \A f \in 1 .. Len(gs) : \E w \in V :
           /\ gs[f][1] = w[1]
           /\ Cardinality({v \in V : v[1] < w[1]}) = f - 1
           /\ gs[f][2] = IF f + (m + 1) - 1 < FieldNum THEN w[2] ELSE Max({v[2] : v \in V})
  BY Zenon DEF SplitFrom
<1>6. /\ fs \in Seq(F) /\ Len(fs) = Len(gs) + 1 /\ fs[1] = u /\ Len(gs) \in Nat
      /\ \A f \in 1 .. Len(fs) : f # 1 => fs[f] = gs[f - 1] /\ f - 1 \in 1 .. Len(gs)
  <2>1. <<u>> \in Seq(F) /\ Len(<<u>>) = 1 /\ <<u>>[1] = u /\ gs \in Seq(F) /\ Len(gs) \in Nat
    BY <1>1, <1>5
  <2>2. /\ fs \in Seq(F) /\ Len(fs) = Len(<<u>>) + Len(gs)
        /\ \A f \in 1 .. Len(<<u>>) + Len(gs) :
             fs[f] = IF f <= Len(<<u>>) THEN <<u>>[f] ELSE gs[f - Len(<<u>>)]
    BY <2>1, ConcatProperties
  <2> HIDE DEF fs, F
  <2>3. Len(fs) = Len(gs) + 1 /\ 1 \in 1 .. Len(<<u>>) + Len(gs) /\ 1 <= Len(<<u>>)
    BY <2>1, <2>2
  <2>4. fs[1] = u
    BY <2>1, <2>2, <2>3
  <2>5. ASSUME NEW f \in 1 .. Len(fs), f # 1
        PROVE  fs[f] = gs[f - 1] /\ f - 1 \in 1 .. Len(gs)
    <3>1. /\ f \in 1 .. Len(<<u>>) + Len(gs) /\ ~(f <= Len(<<u>>)) /\ f - Len(<<u>>) = f - 1
          /\ f - 1 \in 1 .. Len(gs)
      BY <2>1, <2>3, <2>5
    <3>2. fs[f] = gs[f - Len(<<u>>)]
      BY <2>2, <3>1
    <3> QED
      BY <3>1, <3>2
  <2> QED
    BY <2>1, <2>2, <2>3, <2>4, <2>5
<1>7. Len(fs) = IF Cardinality(W) <= FieldNum - m + 1 THEN Cardinality(W)
                                                      ELSE FieldNum - m + 1
  <2> HIDE DEF W, V, fs
  <2>1. /\ Len(gs) = IF Cardinality(V) <= FieldNum - (m + 1) + 1 THEN Cardinality(V)
                                                     ELSE FieldNum - (m + 1) + 1
        /\ Len(fs) = Len(gs) + 1
    BY <1>5, <1>6, Zenon
  <2>2. m \in Nat /\ FieldNum \in Nat
    BY <1>1
  <2>3. Cardinality(V) \in Nat /\ Cardinality(W) = Cardinality(V) + 1
    BY <1>4, Zenon
  <2> QED
    BY <2>1, <2>2, <2>3
<1>8. u \in W
  BY DEF u
<1>9. ASSUME NEW f \in 1 .. Len(fs)
      PROVE  \E w \in W :
               /\ fs[f][1] = w[1]
               /\ Cardinality({v \in W : v[1] < w[1]}) = f - 1
               /\ fs[f][2] = IF f + m - 1 < FieldNum THEN w[2] ELSE Max({v[2] : v \in W})
  <2>1. CASE f = 1
    <3>1. {v \in W : v[1] < u[1]} = {}
      <4>1. \A v \in W : v = u \/ v \in V
        BY DEF u
      <4> HIDE DEF W, V
      <4> QED
        BY <1>1, <1>2, <4>1
    <3>2. Cardinality({v \in W : v[1] < u[1]}) = f - 1
      <4>1. f - 1 = 0 /\ Cardinality({}) = 0
        BY <2>1, FS_EmptySet
      <4> HIDE DEF W
      <4> QED
        BY <3>1, <4>1, Zenon
    <3>3. f + m - 1 < FieldNum
      BY <1>1, <2>1
    <3> HIDE DEF W, fs
    <3> QED
      BY <1>6, <1>8, <2>1, <3>2, <3>3, Zenon
  <2>2. CASE f # 1
    <3>1. fs[f] = gs[f - 1] /\ f - 1 \in 1 .. Len(gs)
      BY <1>6, <2>2
    <3>2. PICK w \in V :
            /\ gs[f - 1][1] = w[1]
            /\ Cardinality({v \in V : v[1] < w[1]}) = f - 1 - 1
            /\ gs[f - 1][2] = IF f - 1 + (m + 1) - 1 < FieldNum THEN w[2]
                                                         ELSE Max({v[2] : v \in V})
      BY <1>5, <3>1, Zenon
    <3>3. w \in W
      OBVIOUS
    <3>4. Cardinality({v \in W : v[1] < w[1]}) = f - 1
      <4> DEFINE L == {v \in V : v[1] < w[1]}
      <4>1. {v \in W : v[1] < w[1]} = L \cup {u}
        <5>1. u[1] < w[1]
          BY <1>1, <1>2
        <5>2. W = V \cup {u}
          BY DEF u
        <5> HIDE DEF W, V
        <5> QED
          BY <5>1, <5>2
      <4>2. u \notin L
        BY <1>3
      <4>3. IsFiniteSet(L)
        BY <1>1, WordsFinite
      <4>4. Cardinality(L) = f - 1 - 1
        BY <3>2
      <4> HIDE DEF L, W
      <4>5. Cardinality(L \cup {u}) = Cardinality(L) + 1
        BY <4>2, <4>3, FS_AddElement
      <4>6. f - 1 - 1 + 1 = f - 1
        BY <1>6
      <4> QED
        BY <4>1, <4>4, <4>5, <4>6, Zenon
    <3>5. Max({v[2] : v \in W}) = Max({v[2] : v \in V})
      <4> DEFINE A == {v[2] : v \in V}
                 B == {v[2] : v \in W}
      <4>1. A \in SUBSET (1 .. N) /\ A # {}
        BY <1>2
      <4>2. B = A \cup {u[2]}
        <5>1. W = V \cup {u}
          BY DEF u
        <5> HIDE DEF W, V
        <5> QED
          BY <5>1
      <4>3. \A a \in A : u[2] < a
        BY <1>1, <1>2
      <4>4. B \in SUBSET (1 .. N) /\ B # {}
        BY <1>1, <4>1, <4>2
      <4> HIDE DEF A, B
      <4>5. PICK a \in A : a = Max(A) /\ \A y \in A : y <= a
        BY <1>1, <4>1, MaxIsGreatest
      <4>6. PICK b \in B : b = Max(B) /\ \A y \in B : y <= b
        BY <1>1, <4>4, MaxIsGreatest
      <4>7. b \in A
        <5>1. a \in B /\ u[2] < a /\ a <= b /\ a \in 1 .. N /\ b \in 1 .. N
          BY <4>1, <4>2, <4>3, <4>4, <4>5, <4>6, Zenon
        <5>2. u[2] \in Nat
          BY <1>1
        <5>3. b # u[2]
          BY <1>1, <5>1, <5>2
        <5> QED
          BY <4>2, <4>6, <5>3, Zenon
      <4>8. a = b
        <5>1. a <= b /\ b <= a /\ a \in 1 .. N /\ b \in 1 .. N
          BY <4>1, <4>2, <4>4, <4>5, <4>6, <4>7, Zenon
        <5> QED
          BY <1>1, <5>1
      <4> QED
        BY <4>5, <4>6, <4>8 DEF A, B
    <3>6. f - 1 + (m + 1) - 1 = f + m - 1
      BY <1>1, <1>6
    <3> HIDE DEF W, V, fs
    <3> QED
      BY <3>1, <3>2, <3>3, <3>4, <3>5, <3>6, Zenon
  <2> QED
    BY <2>1, <2>2
<1> HIDE DEF fs
<1>10. SplitFrom(line, k, m, fs)
  BY <1>6, <1>7, <1>9, Zenon DEF SplitFrom
<1> QED
  BY <1>10 DEF fs, u

LEMMA RoundSplits ==
  ASSUME NEW C, NEW line \in Seq(C), NEW g, NEW k \in 1 .. Len(line) + 1,
         NEW m \in 1 .. FieldNum, MayStart(line, k),
         \A i \in 1 .. Len(line) + 1, l \in 1 .. FieldNum :
           i > k /\ MayStart(line, i) => SplitFrom(line, i, l, g[<<i, l>>])
  PROVE  SplitFrom(line, k, m, Round(line, g, <<k, m>>))
<1> DEFINE N == Len(line)
<1>1. PICK s : s = SkipSeps(line, k)
  OBVIOUS
<1>2. PICK e : e = SkipWord(line, s)
  OBVIOUS
<1>3. N \in Nat /\ FieldNum \in Nat
  BY FieldAssumption
<1>4. /\ s > N => WordsFrom(line, k) = {}
      /\ s <= N =>
           /\ s \in k .. N /\ e \in s + 1 .. N + 1
           /\ s = 1 \/ Sep(line[s - 1])
           /\ e <= N => Sep(line[e])
           /\ <<s, e - 1>> \in Words(line)
           /\ WordsFrom(line, k) = {<<s, e - 1>>} \cup WordsFrom(line, e + 1)
  BY <1>1, <1>2, FirstWord
<1>5. s \in 1 .. N + 1 /\ (s <= N => ~Sep(line[s]))
  <2>1. k \in 1 .. N + 2
    BY <1>3
  <2> QED
    BY <1>1, <2>1, SkipFacts
<1>6. CASE s > N
  <2>1. Round(line, g, <<k, m>>) = <<>>
    BY <1>1, <1>3, <1>5, <1>6 DEF Round
  <2> QED
    BY <1>4, <1>6, <2>1, NoField
<1>7. CASE s <= N
  <2> DEFINE W == WordsFrom(line, k)
             w == <<s, e - 1>>
  <2>1. /\ s \in k .. N /\ e \in s + 1 .. N + 1 /\ w \in Words(line)
        /\ W = {w} \cup WordsFrom(line, e + 1)
    BY <1>4, <1>7
  <2>2. /\ w \in W /\ w[1] = s /\ w[2] = e - 1 /\ e - 1 \in 1 .. N
        /\ \A v \in W : v[1] \in 1 .. N /\ v[2] \in 1 .. N /\ v[1] >= s /\ ~(v[1] < w[1])
    <3>1. w[1] = s /\ w[2] = e - 1 /\ e - 1 \in 1 .. N
      BY <1>3, <2>1
    <3>2. \A v \in W : v \in Words(line) /\ (v = w \/ v[1] >= e + 1)
      BY <2>1 DEF WordsFrom
    <3>3. \A v \in Words(line) : v[1] \in 1 .. N /\ v[2] \in 1 .. N
      BY DEF Words
    <3> HIDE DEF w, W
    <3>4. ASSUME NEW v \in W PROVE v[1] >= s
      <4>1. CASE v = w
        BY <2>1, <3>1, <4>1
      <4>2. CASE v # w
        BY <1>3, <2>1, <3>2, <3>3, <4>2
      <4> QED
        BY <4>1, <4>2
    <3>5. \A v \in W : ~(v[1] < s)
      BY <2>1, <3>2, <3>3, <3>4
    <3> QED
      BY <2>1, <3>1, <3>2, <3>3, <3>4, <3>5, Zenon
  <2>3. CASE m = FieldNum
    <3> DEFINE x == Max({j \in s .. N : ~Sep(line[j])})
    <3>1. Round(line, g, <<k, m>>) = <<<<s, x>>>>
      BY <1>1, <1>3, <1>7, <2>3 DEF Round, LastField
    <3>2. WordsFrom(line, s) = W
      <4>1. \A v \in Words(line) : v[1] >= s => v[1] >= k
        BY <2>1 DEF Words
      <4> QED
        BY <2>2, <4>1 DEF WordsFrom
    <3>3. s \in 1 .. N /\ ~Sep(line[s]) /\ MayStart(line, s)
      BY <1>3, <1>4, <1>5, <1>7, <2>1 DEF MayStart
    <3>4. x = Max({v[2] : v \in WordsFrom(line, s)})
      BY <3>3, LastWord
    <3>5. x = Max({v[2] : v \in W})
      BY <3>2, <3>4, Zenon
    <3>6. x \in 1 .. N
      <4> DEFINE J == {j \in s .. N : ~Sep(line[j])}
      <4>1. J \in SUBSET (1 .. N) /\ J # {}
        BY <3>3
      <4>2. Max(J) \in J
        <5> HIDE DEF J
        <5> QED
          BY <1>3, <4>1, MaxIsGreatest
      <4> QED
        BY <4>1, <4>2, Zenon
    <3> HIDE DEF x, w, W
    <3>7. x = IF m < FieldNum THEN w[2] ELSE Max({v[2] : v \in WordsFrom(line, k)})
      BY <1>3, <2>3, <3>5 DEF W
    <3>8. SplitFrom(line, k, m, <<<<w[1], x>>>>)
      BY <2>2, <2>3, <3>6, <3>7, OneField DEF W
    <3> QED
      BY <2>2, <3>1, <3>8
  <2>4. CASE m < FieldNum /\ e > N
    <3>1. Round(line, g, <<k, m>>) = <<<<s, e - 1>>>>
      BY <1>1, <1>2, <1>3, <1>7, <2>4 DEF Round
    <3>2. WordsFrom(line, e + 1) = {}
      BY <1>3, <2>1, <2>4 DEF WordsFrom, Words
    <3>3. W = {w}
      BY <2>1, <3>2
    <3> HIDE DEF w, W
    <3>4. SplitFrom(line, k, m, <<<<w[1], e - 1>>>>)
      BY <2>2, <2>4, <3>3, OneField DEF W
    <3> QED
      BY <2>2, <3>1, <3>4
  <2>5. CASE m < FieldNum /\ e <= N
    <3>1. Round(line, g, <<k, m>>) = <<<<s, e - 1>>>> \o g[<<e + 1, m + 1>>]
      BY <1>1, <1>2, <1>3, <1>7, <2>1, <2>5 DEF Round
    <3>2. e + 1 \in 1 .. N + 1 /\ m + 1 \in 1 .. FieldNum /\ e + 1 > k /\ MayStart(line, e + 1)
      BY <1>3, <1>4, <1>7, <2>1, <2>5 DEF MayStart
    <3>3. SplitFrom(line, e + 1, m + 1, g[<<e + 1, m + 1>>])
      BY <3>2
    <3>4. e \in s + 1 .. N
      BY <1>3, <2>1, <2>5
    <3>5. SplitFrom(line, k, m, <<<<s, e - 1>>>> \o g[<<e + 1, m + 1>>])
      BY <2>1, <2>5, <3>3, <3>4, MoreFields
    <3> QED
      BY <3>1, <3>5
  <2> QED
    BY <1>3, <2>1, <2>3, <2>4, <2>5
<1> QED
  BY <1>3, <1>5, <1>6, <1>7

LEMMA FieldsSplit ==
  ASSUME NEW C, NEW line \in Seq(C)
  PROVE  SplitFrom(line, 1, 1, Fields(line))
<1>1. PICK g : Loops(line, g) /\ Fields(line) = g[<<1, 1>>]
  BY FieldsLoop
<1> DEFINE N == Len(line)
           P(k) == \A m \in 1 .. FieldNum :
                     MayStart(line, k) => SplitFrom(line, k, m, g[<<k, m>>])
           S == {j \in 0 .. N : ~P(N + 1 - j)}
<1>2. N \in Nat /\ FieldNum \in Nat \ {0}
  BY FieldAssumption
<1>3. ASSUME NEW j \in S, \A y \in S : j <= y
      PROVE  FALSE
  <2> DEFINE k == N + 1 - j
  <2>1. j \in 0 .. N /\ ~P(k) /\ k \in 1 .. N + 1
    BY <1>2
  <2>2. ASSUME NEW i \in 1 .. N + 1, i > k PROVE P(i)
    <3>1. N + 1 - i \in 0 .. N /\ ~(j <= N + 1 - i) /\ N + 1 - (N + 1 - i) = i
      BY <1>2, <2>1, <2>2
    <3>2. N + 1 - i \notin S
      BY <1>3, <3>1, Zenon
    <3>3. P(N + 1 - (N + 1 - i))
      <4> HIDE DEF P
      <4> QED
        BY <3>1, <3>2, Zenon
    <3> HIDE DEF P
    <3> QED
      BY <3>1, <3>3
  <2>3. ASSUME NEW m \in 1 .. FieldNum, MayStart(line, k)
        PROVE  SplitFrom(line, k, m, g[<<k, m>>])
    <3>1. <<k, m>> \in Positions(line)
      BY <1>2, <2>1 DEF Positions
    <3>2. g[<<k, m>>] = Round(line, g, <<k, m>>)
      BY <1>1, <3>1 DEF Loops
    <3> HIDE DEF k
    <3>3. SplitFrom(line, k, m, Round(line, g, <<k, m>>))
      BY <2>1, <2>2, <2>3, RoundSplits
    <3> QED
      BY <3>2, <3>3
  <2> QED
    BY <2>1, <2>3
<1>4. S \in SUBSET Nat
  BY <1>2
<1>5. S = {}
  <2> HIDE DEF S
  <2> QED
    BY <1>3, <1>4, MinIsLeast
<1>6. P(1)
  <2>1. N \in 0 .. N /\ N + 1 - N = 1
    BY <1>2
  <2>2. P(N + 1 - N)
    <3> HIDE DEF P
    <3> QED
      BY <1>5, <2>1, Zenon
  <2> HIDE DEF P
  <2> QED
    BY <2>1, <2>2
<1>7. MayStart(line, 1) /\ 1 \in 1 .. FieldNum
  BY <1>2 DEF MayStart
<1> QED
  BY <1>1, <1>6, <1>7

LEMMA FieldsRight ==
  ASSUME NEW C, NEW line \in Seq(C)
  PROVE  IsSplit(line, Fields(line))
<1> DEFINE W == Words(line)
           fs == Fields(line)
<1>1. WordsFrom(line, 1) = W
  BY DEF WordsFrom, Words
<1>2. SplitFrom(line, 1, 1, fs)
  BY FieldsSplit
<1>3. FieldNum \in Nat /\ Cardinality(W) \in Nat
  BY FieldAssumption, WordsFinite
<1> HIDE DEF W, fs
<1>4. /\ fs \in Seq((1 .. Len(line)) \X (1 .. Len(line)))
      /\ Len(fs) = IF Cardinality(W) <= FieldNum - 1 + 1 THEN Cardinality(W)
                                                         ELSE FieldNum - 1 + 1
      /\ \A f \in 1 .. Len(fs) : \E w \in W :
           /\ fs[f][1] = w[1]
           /\ Cardinality({v \in W : v[1] < w[1]}) = f - 1
           /\ fs[f][2] = IF f + 1 - 1 < FieldNum THEN w[2] ELSE Max({v[2] : v \in W})
  BY <1>1, <1>2, Zenon DEF SplitFrom
<1>5. Len(fs) = Min({FieldNum, Cardinality(W)})
  <2> DEFINE M == {FieldNum, Cardinality(W)}
  <2>1. M \in SUBSET Nat /\ M # {}
    BY <1>3
  <2>2. Min(M) \in M /\ \A y \in M : Min(M) <= y
    <3> HIDE DEF M
    <3> QED
      BY <2>1, MinIsLeast
  <2>3. PICK x : x = Min(M)
    OBVIOUS
  <2>4. x = FieldNum \/ x = Cardinality(W)
    BY <2>2, <2>3
  <2>5. x <= FieldNum /\ x <= Cardinality(W)
    BY <2>2, <2>3
  <2>6. Len(fs) = x
    BY <1>3, <1>4, <2>4, <2>5
  <2> QED
    BY <2>3, <2>6
<1>6. DOMAIN fs = 1 .. Len(fs) /\ \A f \in 1 .. Len(fs) : f + 1 - 1 = f
  BY <1>4
<1>7. \A f \in DOMAIN fs : \E w \in W :
        /\ fs[f][1] = w[1]
        /\ Cardinality({v \in W : v[1] < w[1]}) = f - 1
        /\ fs[f][2] = IF f < FieldNum THEN w[2] ELSE Max({v[2] : v \in W})
  <2> SUFFICES ASSUME NEW f \in 1 .. Len(fs)
               PROVE  \E w \in W :
                        /\ fs[f][1] = w[1]
                        /\ Cardinality({v \in W : v[1] < w[1]}) = f - 1
                        /\ fs[f][2] = IF f < FieldNum THEN w[2] ELSE Max({v[2] : v \in W})
    BY <1>6, Zenon
  <2>1. f + 1 - 1 = f
    BY <1>6
  <2> QED
    BY <1>4, <2>1
<1> QED
  BY <1>5, <1>7, Zenon DEF IsSplit, W, fs

LEMMA EmptyIsSplit == IsSplit(<<>>, <<>>)
<1>1. <<>> \in Seq({})
  OBVIOUS
<1>2. Words(<<>>) = {}
  BY DEF Words
<1>3. Cardinality(Words(<<>>)) = 0
  BY <1>2, FS_EmptySet
<1>4. Min({FieldNum, 0}) = 0
  <2> DEFINE M == {FieldNum, 0}
  <2>1. M \in SUBSET Nat /\ M # {} /\ 0 \in M
    BY FieldAssumption
  <2>2. PICK x \in M : x = Min(M) /\ \A y \in M : x <= y
    <3> HIDE DEF M
    <3> QED
      BY <2>1, MinIsLeast
  <2>3. x = 0
    BY <2>1, <2>2
  <2> QED
    BY <2>2, <2>3
<1>5. Len(<<>>) = 0 /\ DOMAIN <<>> = {}
  OBVIOUS
<1> QED
  BY <1>3, <1>4, <1>5 DEF IsSplit

(* Every line of the bind file, with any characters and any number of      *)
(* fields, is cut by str_split into its words, the last field taking the   *)
(* rest.                                                                   *)
THEOREM SplitIsRightThm == Spec => []SplitIsRight
<1>1. Init => SplitIsRight
  BY EmptyIsSplit DEF Init, SplitIsRight
<1>2. ASSUME SplitIsRight, [Next]_vars PROVE SplitIsRight'
  <2>1. ASSUME NEW l \in BindLines, NEW newline \in BOOLEAN, BindLine(l, newline)
        PROVE  SplitIsRight'
    <3>1. /\ bline' = l
          /\ fields' = IF l # <<>> /\ l[1] = "#" THEN <<>> ELSE Fields(l)
      BY <2>1, Zenon DEF BindLine
    <3>2. IsSplit(l, Fields(l))
      BY StartupAssumption, FieldsRight
    <3> QED
      BY <3>1, <3>2, Zenon DEF SplitIsRight
  <2>2. CASE BindEnds
    BY <2>2, EmptyIsSplit DEF BindEnds, SplitIsRight
  <2>3. ASSUME UNCHANGED <<bline, fields>> PROVE SplitIsRight'
    BY <1>2, <2>3 DEF SplitIsRight
  <2>4. \/ LoadFile \/ DaemonStart \/ RegisterPlugin \/ InitService \/ Change
        \/ ChangeFails \/ Shutdown \/ UNCHANGED vars
        => UNCHANGED <<bline, fields>>
    BY DEF LoadFile, DaemonStart, RegisterPlugin, InitService, Change, ChangeFails, Shutdown,
           vars, bindvars
  <2> QED
    BY <1>2, <2>1, <2>2, <2>3, <2>4 DEF Next
<1> QED
  BY <1>1, <1>2, PTL DEF Spec
-----------------------------------------------------------------------------
(***************************************************************************)
(* The dump of a dictionary.                                               *)
(***************************************************************************)
LEMMA KeyShape ==
  ASSUME NEW k \in Keys
  PROVE  /\ Len(k) \in {1, 2}
         /\ Len(k) = 1 => k = <<k[1]>> /\ Lower[k[1]] = k[1]
         /\ Len(k) = 2 => k = <<k[1], k[2]>> /\ Lower[k[1]] = k[1] /\ Lower[k[2]] = k[2]
<1>1. /\ k \in Seq(STRING) /\ Len(k) \in {1, 2}
      /\ \A i \in 1 .. Len(k) : Lower[k[i]] = k[i]
  BY IniAssumption
<1>2. Len(k) = 1 => k = <<k[1]>> /\ 1 \in 1 .. Len(k)
  BY <1>1
<1>3. Len(k) = 2 => k = <<k[1], k[2]>> /\ 1 \in 1 .. Len(k) /\ 2 \in 1 .. Len(k)
  BY <1>1
<1> QED
  BY <1>1, <1>2, <1>3, Zenon

IsOnto(f, S, T) == \A t \in T : \E s \in S : f[s] = t

LEMMA Onto ==
  ASSUME NEW S, NEW T, IsFiniteSet(T), Cardinality(S) = Cardinality(T),
         NEW f \in [S -> T], IsInjective(f)
  PROVE  IsOnto(f, S, T)
<1>1. f \in Injection(S, T)
  BY DEF Injection
<1>2. f \in Surjection(S, T)
  BY <1>1, FS_Injection
<1> QED
  BY <1>2 DEF Surjection, IsOnto

LEMMA SetToSeqFacts ==
  ASSUME NEW S, IsFiniteSet(S)
  PROVE  /\ SetToSeq(S) \in Seq(S)
         /\ \A x \in S : \E i \in 1 .. Len(SetToSeq(S)) : SetToSeq(S)[i] = x
<1> DEFINE c == Cardinality(S)
           f == SetToSeq(S)
<1>1. c \in Nat /\ ExistsBijection(1 .. c, S)
  BY FS_CardinalityType
<1>2. PICK g \in [1 .. c -> S] : IsInjective(g)
  BY <1>1 DEF ExistsBijection, Bijection, Injection
<1>3. f = CHOOSE h \in [1 .. c -> S] : IsInjective(h)
  BY DEF SetToSeq
<1>4. f \in [1 .. c -> S] /\ IsInjective(f)
  <2> HIDE DEF f, c
  <2> QED
    BY <1>2, <1>3
<1> HIDE DEF f
<1>5. f \in Seq(S) /\ Len(f) = c
  BY <1>1, <1>4
<1>6. IsFiniteSet(1 .. c) /\ Cardinality(1 .. c) = c
  BY <1>1, FS_Interval
<1>7. \A x \in S : \E i \in 1 .. c : f[i] = x
  <2>1. Cardinality(1 .. c) = Cardinality(S) /\ f \in [1 .. c -> S]
    BY <1>4, <1>6
  <2>2. PICK C : C = 1 .. c
    OBVIOUS
  <2>3. f \in [C -> S] /\ Cardinality(C) = Cardinality(S)
    BY <2>1, <2>2
  <2>4. IsOnto(f, C, S)
    BY <1>4, <2>3, Onto
  <2> QED
    BY <2>2, <2>4 DEF IsOnto
<1> QED
  BY <1>5, <1>7 DEF f

(* The slots of a set are numbered by how many are before them. *)
Rank(S, i) == Cardinality({j \in S : j < i})

LEMMA Ranks ==
  ASSUME NEW S \in SUBSET Nat, IsFiniteSet(S)
  PROVE  /\ \A i \in S : Rank(S, i) \in 0 .. Cardinality(S) - 1
         /\ \A i, j \in S : Rank(S, i) = Rank(S, j) => i = j
         /\ \A m \in 0 .. Cardinality(S) - 1 : \E i \in S : Rank(S, i) = m
<1> DEFINE c == Cardinality(S)
           B(i) == {j \in S : j < i}
<1>1. c \in Nat
  BY FS_CardinalityType
<1>2. ASSUME NEW i \in S
      PROVE  IsFiniteSet(B(i)) /\ Cardinality(B(i)) \in Nat /\ i \notin B(i)
  <2>1. B(i) \in SUBSET S /\ i \notin B(i)
    OBVIOUS
  <2> HIDE DEF B
  <2> QED
    BY <2>1, FS_Subset, FS_CardinalityType
<1>3. ASSUME NEW i \in S, NEW T \in SUBSET S, B(i) \subseteq T, i \in T
      PROVE  Cardinality(B(i)) < Cardinality(T)
  <2> DEFINE A == B(i) \cup {i}
  <2>1. Cardinality(A) = Cardinality(B(i)) + 1
    <3> HIDE DEF B
    <3> QED
      BY <1>2, FS_AddElement
  <2>2. IsFiniteSet(T) /\ Cardinality(T) \in Nat
    BY FS_Subset, FS_CardinalityType
  <2>3. A \in SUBSET T
    BY <1>3
  <2> HIDE DEF A
  <2>4. Cardinality(A) <= Cardinality(T)
    BY <2>2, <2>3, FS_Subset
  <2> HIDE DEF B
  <2> QED
    BY <1>2, <2>1, <2>2, <2>4
<1>4. ASSUME NEW i \in S PROVE Rank(S, i) = Cardinality(B(i)) /\ Rank(S, i) \in 0 .. c - 1
  <2>1. Cardinality(B(i)) < c
    BY <1>3
  <2>2. Rank(S, i) = Cardinality(B(i))
    BY DEF Rank
  <2> HIDE DEF B
  <2> QED
    BY <1>1, <1>2, <2>1, <2>2
<1>5. ASSUME NEW i \in S, NEW j \in S, i < j PROVE Rank(S, i) < Rank(S, j)
  <2>1. B(j) \in SUBSET S /\ B(i) \subseteq B(j) /\ i \in B(j)
    <3>1. \A x \in S : x < i => x < j
      BY <1>5
    <3> QED
      BY <1>5, <3>1, Zenon
  <2> HIDE DEF B
  <2> QED
    BY <1>3, <1>4, <2>1
<1>6. \A i, j \in S : Rank(S, i) = Rank(S, j) => i = j
  <2> SUFFICES ASSUME NEW i \in S, NEW j \in S, Rank(S, i) = Rank(S, j), i # j PROVE FALSE
    OBVIOUS
  <2>1. i < j \/ j < i
    OBVIOUS
  <2>2. PICK r \in 0 .. c - 1 : r = Rank(S, i) /\ r = Rank(S, j)
    BY <1>4
  <2>3. ~(r < r)
    BY <1>1
  <2> QED
    BY <1>5, <2>1, <2>2, <2>3, Zenon
<1>7. \A m \in 0 .. c - 1 : \E i \in S : Rank(S, i) = m
  <2> DEFINE f == [i \in S |-> Rank(S, i)]
  <2>1. f \in [S -> 0 .. c - 1] /\ IsInjective(f)
    BY <1>4, <1>6 DEF IsInjective
  <2>2. IsFiniteSet(0 .. c - 1) /\ Cardinality(0 .. c - 1) = c
    <3>1. 0 \in Int /\ c - 1 \in Int /\ (IF 0 > c - 1 THEN 0 ELSE c - 1 - 0 + 1) = c
      BY <1>1
    <3> QED
      BY <3>1, FS_Interval, Zenon
  <2> HIDE DEF f
  <2>3. \A m \in 0 .. c - 1 : \E i \in S : f[i] = m
    <3>1. Cardinality(S) = Cardinality(0 .. c - 1)
      BY <2>2
    <3>2. PICK C : C = 0 .. c - 1
      OBVIOUS
    <3>3. f \in [S -> C] /\ Cardinality(S) = Cardinality(C) /\ IsFiniteSet(C)
      BY <2>1, <2>2, <3>1, <3>2
    <3>4. IsOnto(f, S, C)
      BY <2>1, <3>3, Onto
    <3> QED
      BY <3>2, <3>4 DEF IsOnto
  <2> QED
    BY <2>3 DEF f
<1> QED
  BY <1>4, <1>6, <1>7

(* iniparser_getsecname goes through all the sections. *)
LEMMA SecNames ==
  ASSUME DictInv
  PROVE  /\ GetNSec \in Nat
         /\ \A m \in 1 .. GetNSec : \E i \in SectionSlots : GetSecName(m - 1) = key[i]
         /\ \A i \in SectionSlots : \E m \in 1 .. GetNSec : GetSecName(m - 1) = key[i]
<1> DEFINE S == SectionSlots
<1>1. S \in SUBSET Nat /\ IsFiniteSet(S) /\ S \in SUBSET Slots
  <2>1. S \in SUBSET Slots /\ Slots \subseteq Nat /\ IsFiniteSet(Slots)
    BY UsedFacts DEF SectionSlots
  <2> QED
    BY <2>1, FS_Subset
<1>2. GetNSec = Cardinality(S) /\ GetNSec \in Nat
  BY <1>1, FS_CardinalityType DEF GetNSec
<1> HIDE DEF S
<1>3. /\ \A i \in S : Rank(S, i) \in 0 .. GetNSec - 1
      /\ \A i, j \in S : Rank(S, i) = Rank(S, j) => i = j
      /\ \A m \in 0 .. GetNSec - 1 : \E i \in S : Rank(S, i) = m
  BY <1>1, <1>2, Ranks
<1>4. ASSUME NEW m, NEW i \in S, Rank(S, i) = m PROVE GetSecName(m) = key[i]
  <2> DEFINE c == CHOOSE x \in S : Rank(S, x) = m
  <2>1. c \in S /\ Rank(S, c) = m
    BY <1>4
  <2>2. GetSecName(m) = key[c]
    BY DEF GetSecName, Rank, S
  <2> HIDE DEF c
  <2>3. c = i
    BY <1>3, <1>4, <2>1
  <2> QED
    BY <2>2, <2>3
<1>5. ASSUME NEW m \in 1 .. GetNSec PROVE \E i \in S : GetSecName(m - 1) = key[i]
  <2>1. m - 1 \in 0 .. GetNSec - 1
    BY <1>2
  <2>2. PICK i \in S : Rank(S, i) = m - 1
    BY <1>3, <2>1, Zenon
  <2> QED
    BY <1>4, <2>2
<1>6. ASSUME NEW i \in S PROVE \E m \in 1 .. GetNSec : GetSecName(m - 1) = key[i]
  <2>1. PICK r \in 0 .. GetNSec - 1 : r = Rank(S, i)
    BY <1>3
  <2>2. r + 1 \in 1 .. GetNSec /\ r + 1 - 1 = r
    BY <1>2
  <2>3. GetSecName(r + 1 - 1) = key[i]
    BY <1>4, <2>1, <2>2
  <2> QED
    BY <2>2, <2>3
<1> QED
  BY <1>2, <1>5, <1>6 DEF S

(* The lines a dump can have. *)
SectionLine(i) == [type |-> "section", name |-> key[i][1]]
ValueLine(i) == [type |-> "value", name |-> key[i][2], val |-> Printed(val[i])]
DumpLines == {SectionLine(i) : i \in Slots} \cup {ValueLine(i) : i \in Slots}

(* The slots of the values of the section in slot i. *)
ValueSlots(i) == {j \in Slots : Len(key[j]) = 2 /\ key[j][1] = key[i][1]}

LEMMA SlotFacts ==
  ASSUME DictInv, WellSectioned, ini
  PROVE  /\ \A i \in SectionSlots :
              /\ i \in Used /\ key[i] \in Keys /\ key[i] = <<key[i][1]>>
              /\ Lower[key[i][1]] = key[i][1]
              /\ key[i] \in DOMAIN Contents /\ Contents[key[i]] = NULL
              /\ GetSecKeys(key[i]) = ValueSlots(i)
              /\ \A j \in ValueSlots(i) :
                   /\ j \in Used /\ key[j] = <<key[i][1], key[j][2]>>
                   /\ Lower[key[j][2]] = key[j][2]
         /\ \A k \in DOMAIN Contents :
              \E i \in SectionSlots :
                \/ k = key[i]
                \/ \E j \in ValueSlots(i) : k = key[j]
<1>1. /\ DOMAIN Contents = {key[i] : i \in Used}
      /\ \A i \in Used : Contents[key[i]] = val[i]
  BY ContentsAre
<1>2. /\ \A i \in Slots : key[i] \in Keys \cup {NULL}
      /\ Used \subseteq Slots /\ \A i \in Used : key[i] \in Keys
  BY DEF DictInv, DictTyped, Used
<1>3. \A i \in Slots : Len(key[i]) = 2 => i \in Used
  BY <1>2 DEF Used, NULL
<1>4. \A i \in SectionSlots : i \in Used /\ Len(key[i]) = 1 /\ key[i] \in Keys
  BY <1>2 DEF SectionSlots, Used
<1>5. \A i \in Used : Len(key[i]) = 1 => i \in SectionSlots
  BY <1>2 DEF SectionSlots, Used
<1>6. ASSUME NEW i \in SectionSlots
      PROVE  /\ key[i] = <<key[i][1]>> /\ Lower[key[i][1]] = key[i][1]
             /\ key[i] \in DOMAIN Contents /\ Contents[key[i]] = NULL
  <2>1. key[i] = <<key[i][1]>> /\ Lower[key[i][1]] = key[i][1]
    BY <1>4, KeyShape
  <2>2. key[i] \in DOMAIN Contents
    BY <1>1, <1>4
  <2>3. Contents[key[i]] = NULL
    BY <1>4, <2>2 DEF WellSectioned
  <2> QED
    BY <2>1, <2>2, <2>3
<1>7. ASSUME NEW i \in SectionSlots PROVE GetSecKeys(key[i]) = ValueSlots(i)
  <2>1. PICK s \in Keys : s = key[i]
    BY <1>4
  <2>2. LowerKey(s) = s
    <3>1. s = <<s[1]>> /\ Lower[s[1]] = s[1]
      BY <1>6, <2>1
    <3>2. PICK x : x = s[1]
      OBVIOUS
    <3>3. LowerKey(<<x>>) = <<Lower[x]>>
      BY DEF LowerKey
    <3> QED
      BY <3>1, <3>2, <3>3
  <2>3. Found(s) /\ val[Min(Hits(s))] = NULL
    <3>1. i \in Used /\ key[i] = s
      BY <1>4, <2>1
    <3>2. i \in Hits(s)
      BY <3>1, HitsFacts
    <3>3. Found(s)
      BY <3>2 DEF Found
    <3>4. i = Min(Hits(s))
      BY <3>1, <3>3, HitsFacts
    <3>5. val[i] = NULL
      BY <1>1, <1>4, <1>6, <2>1
    <3> QED
      BY <3>3, <3>4, <3>5
  <2>4. FindEntry(s)
    <3>1. GetString(s, <<"invalid">>) = NULL
      BY <2>2, <2>3, Zenon DEF GetString, DictionaryGet
    <3>2. NULL # <<"invalid">>
      BY DEF NULL
    <3> QED
      BY <3>1, <3>2, Zenon DEF FindEntry
  <2> QED
    BY <2>1, <2>4 DEF GetSecKeys, ValueSlots
<1>8. ASSUME NEW i \in SectionSlots, NEW j \in ValueSlots(i)
      PROVE  /\ j \in Used /\ key[j] = <<key[i][1], key[j][2]>>
             /\ Lower[key[j][2]] = key[j][2]
  <2>1. j \in Used /\ Len(key[j]) = 2 /\ key[j][1] = key[i][1] /\ key[j] \in Keys
    BY <1>2, <1>3 DEF ValueSlots
  <2> QED
    BY <2>1, KeyShape
<1>9. ASSUME NEW k \in DOMAIN Contents
      PROVE  \E i \in SectionSlots : k = key[i] \/ \E j \in ValueSlots(i) : k = key[j]
  <2>1. PICK j \in Used : k = key[j]
    BY <1>1
  <2>2. k \in Keys
    BY <1>2, <2>1
  <2>3. CASE Len(k) = 1
    BY <1>5, <2>1, <2>3
  <2>4. CASE Len(k) = 2
    <3>1. <<k[1]>> \in DOMAIN Contents
      BY <2>4 DEF WellSectioned
    <3>2. PICK i \in Used : key[i] = <<k[1]>>
      BY <1>1, <3>1
    <3>3. Len(key[i]) = 1 /\ key[i][1] = k[1]
      BY <3>2
    <3>4. i \in SectionSlots
      BY <1>5, <3>3
    <3>5. j \in ValueSlots(i)
      BY <1>2, <2>1, <2>4, <3>3 DEF ValueSlots
    <3> QED
      BY <2>1, <3>4, <3>5
  <2> QED
    BY <2>2, <2>3, <2>4, KeyShape
<1> QED
  BY <1>4, <1>6, <1>7, <1>8, <1>9

(* The lines of one section. *)
LEMMA SectionDumped ==
  ASSUME DictInv, WellSectioned, ini, NEW i \in SectionSlots
  PROVE  /\ DumpSection(key[i]) \in Seq(DumpLines) /\ Len(DumpSection(key[i])) # 0
         /\ DumpSection(key[i])[1] = SectionLine(i)
         /\ \A m \in 2 .. Len(DumpSection(key[i])) :
              \E j \in ValueSlots(i) : DumpSection(key[i])[m] = ValueLine(j)
         /\ \A j \in ValueSlots(i) :
              \E m \in 2 .. Len(DumpSection(key[i])) : DumpSection(key[i])[m] = ValueLine(j)
<1> DEFINE V == {ValueLine(j) : j \in ValueSlots(i)}
           s == <<SectionLine(i)>>
           v == SetToSeq(V)
           d == s \o v
<1>1. IsFiniteSet(V)
  <2> DEFINE f == [j \in ValueSlots(i) |-> ValueLine(j)]
  <2>1. f \in Surjection(ValueSlots(i), V)
    BY DEF Surjection
  <2>2. IsFiniteSet(ValueSlots(i))
    <3>1. ValueSlots(i) \in SUBSET Slots /\ IsFiniteSet(Slots)
      BY UsedFacts DEF ValueSlots
    <3> QED
      BY <3>1, FS_Subset
  <2> HIDE DEF f, V
  <2> QED
    BY <2>1, <2>2, FS_Surjection
<1>2. v \in Seq(V) /\ \A x \in V : \E m \in 1 .. Len(v) : v[m] = x
  <2> HIDE DEF V
  <2> QED
    BY <1>1, SetToSeqFacts
<1>3. V \subseteq DumpLines /\ SectionLine(i) \in DumpLines
  BY DEF ValueSlots, SectionSlots, DumpLines
<1>4. DumpSection(key[i]) = d
  <2>1. GetSecKeys(key[i]) = ValueSlots(i)
    BY SlotFacts
  <2> QED
    BY <2>1, Zenon DEF DumpSection, SectionLine, ValueLine
<1> HIDE DEF V, v
<1>5. /\ s \in Seq(DumpLines) /\ Len(s) = 1 /\ s[1] = SectionLine(i)
      /\ v \in Seq(DumpLines) /\ Len(v) \in Nat
  BY <1>2, <1>3
<1>6. /\ d \in Seq(DumpLines) /\ Len(d) = Len(s) + Len(v)
      /\ \A m \in 1 .. Len(s) + Len(v) : d[m] = IF m <= Len(s) THEN s[m] ELSE v[m - Len(s)]
  BY <1>5, ConcatProperties
<1> HIDE DEF d, s
<1>7. /\ Len(d) = Len(v) + 1 /\ d[1] = SectionLine(i)
      /\ \A m \in 2 .. Len(d) : m - 1 \in 1 .. Len(v) /\ d[m] = v[m - 1]
      /\ \A m \in 1 .. Len(v) : m + 1 \in 2 .. Len(d) /\ d[m + 1] = v[m]
  BY <1>5, <1>6
<1>8. ASSUME NEW m \in 2 .. Len(d) PROVE \E j \in ValueSlots(i) : d[m] = ValueLine(j)
  <2>1. m - 1 \in 1 .. Len(v) /\ d[m] = v[m - 1]
    BY <1>7
  <2>2. v[m - 1] \in V
    BY <1>2, <2>1
  <2> QED
    BY <2>1, <2>2 DEF V
<1>9. ASSUME NEW j \in ValueSlots(i) PROVE \E m \in 2 .. Len(d) : d[m] = ValueLine(j)
  <2>1. ValueLine(j) \in V
    BY DEF V
  <2>2. PICK m \in 1 .. Len(v) : v[m] = ValueLine(j)
    BY <1>2, <2>1
  <2>3. m + 1 \in 2 .. Len(d) /\ d[m + 1] = v[m]
    BY <1>7
  <2> QED
    BY <2>2, <2>3, Zenon
<1>10. Len(d) # 0
  BY <1>5, <1>7
<1> QED
  BY <1>4, <1>6, <1>7, <1>8, <1>9, <1>10

(* What the lines mean when those of a section follow: the lines before it *)
(* mean what they meant, and the others belong to the new section.         *)
LEMMA SectionFollows ==
  ASSUME NEW T, NEW ls \in Seq(T), NEW d \in Seq(T), Len(d) # 0, d[1].type = "section",
         \A m \in 2 .. Len(d) : d[m].type = "value"
  PROVE  /\ ls \o d \in Seq(T) /\ Len(ls \o d) = Len(ls) + Len(d)
         /\ \A i \in 1 .. Len(ls) :
              (ls \o d)[i] = ls[i] /\ KeyAt(ls \o d, i) = KeyAt(ls, i)
         /\ \A m \in 1 .. Len(d) :
              /\ (ls \o d)[Len(ls) + m] = d[m]
              /\ KeyAt(ls \o d, Len(ls) + m) =
                   IF m = 1 THEN <<Lower[d[1].name]>>
                            ELSE <<Lower[d[1].name], Lower[d[m].name]>>
<1> DEFINE more == ls \o d
<1>1. PICK a \in Nat : a = Len(ls)
  OBVIOUS
<1>2. PICK b \in Nat : b = Len(d) /\ b # 0
  OBVIOUS
<1>3. /\ more \in Seq(T) /\ Len(more) = a + b
      /\ \A i \in 1 .. a : more[i] = ls[i]
      /\ \A m \in 1 .. b : more[a + m] = d[m]
  <2>1. /\ more \in Seq(T) /\ Len(more) = Len(ls) + Len(d)
        /\ \A i \in 1 .. Len(ls) + Len(d) :
             more[i] = IF i <= Len(ls) THEN ls[i] ELSE d[i - Len(ls)]
    BY ConcatProperties
  <2> HIDE DEF more
  <2>2. ASSUME NEW i \in 1 .. a PROVE more[i] = ls[i]
    <3>1. i \in 1 .. Len(ls) + Len(d) /\ i <= Len(ls)
      BY <1>1, <1>2
    <3> QED
      BY <2>1, <3>1
  <2>3. ASSUME NEW m \in 1 .. b PROVE more[a + m] = d[m]
    <3>1. a + m \in 1 .. Len(ls) + Len(d) /\ ~(a + m <= Len(ls)) /\ a + m - Len(ls) = m
      BY <1>1, <1>2
    <3>2. more[a + m] = d[a + m - Len(ls)]
      BY <2>1, <3>1
    <3> QED
      BY <3>1, <3>2
  <2> QED
    BY <1>1, <1>2, <2>1, <2>2, <2>3
<1> HIDE DEF more
<1>4. ASSUME NEW i \in 1 .. a PROVE KeyAt(more, i) = KeyAt(ls, i)
  <2> DEFINE S == {k \in 1 .. i : ls[k].type = "section"}
  <2>1. \A k \in 1 .. i : more[k] = ls[k]
    BY <1>3
  <2>2. {k \in 1 .. i : more[k].type = "section"} = S
    BY <2>1
  <2>3. S \in SUBSET (1 .. i) /\ i \in Nat
    OBVIOUS
  <2> HIDE DEF S
  <2>4. S # {} => Max(S) \in S
    BY <2>3, MaxIsGreatest
  <2>5. S # {} => more[Max(S)] = ls[Max(S)]
    BY <2>1, <2>3, <2>4
  <2>6. SectionAt(more, i) = IF S = {} THEN "" ELSE Lower[more[Max(S)].name]
    BY <2>2, Zenon DEF SectionAt
  <2>7. SectionAt(ls, i) = IF S = {} THEN "" ELSE Lower[ls[Max(S)].name]
    BY Zenon DEF SectionAt, S
  <2>8. SectionAt(more, i) = SectionAt(ls, i)
    <3>1. CASE S = {}
      BY <2>6, <2>7, <3>1
    <3>2. CASE S # {}
      BY <2>5, <2>6, <2>7, <3>2
    <3> QED
      BY <3>1, <3>2
  <2>9. more[i] = ls[i]
    BY <1>3
  <2> QED
    BY <2>8, <2>9, Zenon DEF KeyAt
<1>5. ASSUME NEW m \in 1 .. b
      PROVE  KeyAt(more, a + m) = IF m = 1 THEN <<Lower[d[1].name]>>
                                           ELSE <<Lower[d[1].name], Lower[d[m].name]>>
  <2> DEFINE S == {k \in 1 .. a + m : more[k].type = "section"}
  <2>1. S \in SUBSET (1 .. a + m) /\ a + m \in Nat
    OBVIOUS
  <2>2. a + 1 \in S /\ more[a + 1] = d[1]
    <3>1. 1 \in 1 .. b /\ a + 1 \in 1 .. a + m
      BY <1>2
    <3>2. more[a + 1] = d[1]
      BY <1>3, <3>1
    <3> QED
      BY <3>1, <3>2
  <2>3. \A k \in S : k <= a + 1
    <3> SUFFICES ASSUME NEW k \in 1 .. a + m, more[k].type = "section", ~(k <= a + 1)
                 PROVE  FALSE
      OBVIOUS
    <3>1. k - a \in 2 .. b /\ k - a \in 1 .. b /\ a + (k - a) = k
      BY <1>2
    <3>2. more[k] = d[k - a]
      BY <1>3, <3>1
    <3>3. d[k - a].type = "value"
      BY <1>2, <3>1
    <3> QED
      BY <3>2, <3>3
  <2>4. Max(S) = a + 1
    <3> HIDE DEF S
    <3>1. PICK x \in S : x = Max(S) /\ \A y \in S : y <= x
      BY <2>1, <2>2, MaxIsGreatest
    <3>2. x <= a + 1 /\ a + 1 <= x /\ x \in 1 .. a + m
      BY <2>1, <2>2, <2>3, <3>1, Zenon
    <3>3. x = a + 1
      BY <3>2
    <3> QED
      BY <3>1, <3>3
  <2>5. SectionAt(more, a + m) = IF S = {} THEN "" ELSE Lower[more[Max(S)].name]
    BY Zenon DEF SectionAt
  <2> HIDE DEF S
  <2>6. SectionAt(more, a + m) = Lower[d[1].name]
    BY <2>2, <2>4, <2>5
  <2>7. more[a + m] = d[m] /\ (m = 1 \/ m \in 2 .. b)
    BY <1>3
  <2>8. d[m].type = "section" <=> m = 1
    BY <1>2, <2>7
  <2> QED
    BY <2>6, <2>7, <2>8 DEF KeyAt
<1> QED
  BY <1>1, <1>2, <1>3, <1>4, <1>5 DEF more

(* Lines that say of the dictionary nothing but what it holds. *)
Truthful(ls) ==
  /\ ls \in Seq(DumpLines)
  /\ \A i \in 1 .. Len(ls) :
       /\ ls[i].type \in {"section", "value"}
       /\ KeyAt(ls, i) \in DOMAIN Contents /\ Contents[KeyAt(ls, i)] = Stored(ls[i])

Says(ls, k) == \E i \in 1 .. Len(ls) : KeyAt(ls, i) = k

(* Printed bare, a plain value is read as it is. *)
LEMMA PlainIsRead ==
  ASSUME NEW v \in Values, Plain(v)
  PROVE  ParseValue(Printed(v)) = v
<1>1. v \in Seq(STRING) /\ v # <<>> /\ Len(v) \in Nat \ {0}
  BY IniAssumption, DictAssumption DEF NULL
<1>2. CASE v = Empty
  <2>1. Printed(v) = <<>>
    BY <1>2 DEF Printed
  <2>2. Upto(<<>>, ";") = <<>>
    BY DEF Upto
  <2>3. ~QuotedBy(<<>>, "dq") /\ ~QuotedBy(<<>>, "sq")
    BY DEF QuotedBy
  <2> QED
    BY <1>2, <2>1, <2>2, <2>3 DEF ParseValue
<1>3. CASE v # Empty
  <2>1. Printed(v) = v
    BY <1>1, <1>3 DEF Printed, NULL
  <2>2. ~QuotedBy(v, "dq") /\ ~QuotedBy(v, "sq")
    BY DEF Plain, QuotedBy
  <2>3. Upto(v, ";") = v
    <3>1. {i \in DOMAIN v : v[i] = ";"} = {}
      BY DEF Plain, Range
    <3> QED
      BY <3>1 DEF Upto
  <2>4. v \notin {<<>>, <<"dq", "dq">>, <<"sq", "sq">>}
    <3>1. <<"dq", "dq">>[1] = "dq" /\ <<"sq", "sq">>[1] = "sq"
      OBVIOUS
    <3> QED
      BY <1>1, <3>1, Zenon DEF Plain
  <2> QED
    BY <2>1, <2>2, <2>3, <2>4 DEF ParseValue
<1> QED
  BY <1>2, <1>3

LEMMA SectionTold ==
  ASSUME DictInv, WellSectioned, PlainValues, ini, NEW ls, Truthful(ls), NEW i \in SectionSlots
  PROVE  LET more == ls \o DumpSection(key[i])
         IN  /\ Truthful(more) /\ Says(more, key[i])
             /\ \A j \in ValueSlots(i) : Says(more, key[j])
             /\ \A k : Says(ls, k) => Says(more, k)
<1> DEFINE d == DumpSection(key[i])
           more == ls \o d
<1>1. /\ d \in Seq(DumpLines) /\ Len(d) # 0 /\ d[1] = SectionLine(i)
      /\ \A m \in 2 .. Len(d) : \E j \in ValueSlots(i) : d[m] = ValueLine(j)
      /\ \A j \in ValueSlots(i) : \E m \in 2 .. Len(d) : d[m] = ValueLine(j)
  BY SectionDumped
<1>2. /\ i \in Used /\ key[i] = <<key[i][1]>> /\ Lower[key[i][1]] = key[i][1]
      /\ key[i] \in DOMAIN Contents /\ Contents[key[i]] = NULL
      /\ \A j \in ValueSlots(i) : /\ j \in Used /\ key[j] = <<key[i][1], key[j][2]>>
                                  /\ Lower[key[j][2]] = key[j][2]
  BY SlotFacts
<1>3. /\ DOMAIN Contents = {key[j] : j \in Used}
      /\ \A j \in Used : Contents[key[j]] = val[j]
  BY ContentsAre
<1> HIDE DEF d
<1>4. /\ d[1].type = "section" /\ d[1].name = key[i][1] /\ Stored(d[1]) = NULL
      /\ \A m \in 2 .. Len(d) : d[m].type = "value"
  <2>1. d[1].type = "section" /\ d[1].name = key[i][1]
    BY <1>1 DEF SectionLine
  <2>2. Stored(d[1]) = NULL
    BY <2>1 DEF Stored
  <2>3. \A j : ValueLine(j).type = "value"
    BY DEF ValueLine
  <2>4. \A m \in 2 .. Len(d) : d[m].type = "value"
    BY <1>1, <2>3, Zenon
  <2> QED
    BY <2>1, <2>2, <2>4
<1>5. ls \in Seq(DumpLines) /\ Len(ls) \in Nat /\ Len(d) \in Nat
  BY <1>1 DEF Truthful
<1>6. /\ more \in Seq(DumpLines) /\ Len(more) = Len(ls) + Len(d)
      /\ \A q \in 1 .. Len(ls) : more[q] = ls[q] /\ KeyAt(more, q) = KeyAt(ls, q)
      /\ \A m \in 1 .. Len(d) :
           /\ more[Len(ls) + m] = d[m]
           /\ KeyAt(more, Len(ls) + m) =
                IF m = 1 THEN <<Lower[d[1].name]>>
                         ELSE <<Lower[d[1].name], Lower[d[m].name]>>
  BY <1>1, <1>4, <1>5, SectionFollows
<1> HIDE DEF more
<1>7. KeyAt(more, Len(ls) + 1) = key[i] /\ more[Len(ls) + 1] = d[1]
  <2>1. 1 \in 1 .. Len(d)
    BY <1>1, <1>5
  <2>2. more[Len(ls) + 1] = d[1] /\ KeyAt(more, Len(ls) + 1) = <<Lower[d[1].name]>>
    BY <1>6, <2>1
  <2>3. <<Lower[d[1].name]>> = <<key[i][1]>>
    BY <1>2, <1>4
  <2> QED
    BY <1>2, <2>2, <2>3, Zenon
<1>8. ASSUME NEW m \in 2 .. Len(d), NEW j \in ValueSlots(i), d[m] = ValueLine(j)
      PROVE  /\ KeyAt(more, Len(ls) + m) = key[j] /\ more[Len(ls) + m] = d[m]
             /\ Stored(d[m]) = val[j]
  <2>1. m \in 1 .. Len(d) /\ m # 1
    BY <1>5
  <2>2. d[m].name = key[j][2] /\ Stored(d[m]) = val[j]
    <3>1. key[j] \in DOMAIN Contents /\ Contents[key[j]] = val[j] /\ j \in Slots
      BY <1>2, <1>3 DEF Used
    <3>2. Len(key[j]) = 2
      BY DEF ValueSlots
    <3>3. Plain(val[j]) /\ val[j] \in Values \cup {NULL}
      BY <3>1, <3>2 DEF PlainValues, DictInv, DictTyped
    <3>4. val[j] \in Values
      BY <3>3 DEF Plain
    <3>5. ParseValue(Printed(val[j])) = val[j]
      BY <3>3, <3>4, PlainIsRead
    <3>6. d[m].name = key[j][2] /\ d[m].type = "value" /\ d[m].val = Printed(val[j])
      BY <1>8 DEF ValueLine
    <3> QED
      BY <3>5, <3>6 DEF Stored
  <2>3. KeyAt(more, Len(ls) + m) = <<Lower[d[1].name], Lower[d[m].name]>>
    BY <1>6, <2>1
  <2>4. <<Lower[d[1].name], Lower[d[m].name]>> = <<key[i][1], key[j][2]>>
    BY <1>2, <1>4, <2>2
  <2> QED
    BY <1>2, <1>6, <2>1, <2>2, <2>3, <2>4
<1>9. Truthful(more)
  <2> SUFFICES ASSUME NEW q \in 1 .. Len(more)
               PROVE  /\ more[q].type \in {"section", "value"}
                      /\ KeyAt(more, q) \in DOMAIN Contents
                      /\ Contents[KeyAt(more, q)] = Stored(more[q])
    BY <1>6 DEF Truthful
  <2>1. CASE q \in 1 .. Len(ls)
    BY <1>6, <2>1 DEF Truthful
  <2>2. CASE q = Len(ls) + 1
    BY <1>2, <1>4, <1>7, <2>2
  <2>3. CASE q \notin 1 .. Len(ls) /\ q # Len(ls) + 1
    <3>1. PICK m \in 2 .. Len(d) : q = Len(ls) + m
      <4>1. q - Len(ls) \in 2 .. Len(d) /\ q = Len(ls) + (q - Len(ls))
        BY <1>5, <1>6, <2>3
      <4> QED
        BY <4>1
    <3>2. PICK j \in ValueSlots(i) : d[m] = ValueLine(j)
      BY <1>1
    <3>3. KeyAt(more, q) = key[j] /\ more[q] = d[m] /\ Stored(d[m]) = val[j]
      BY <1>8, <3>1, <3>2
    <3>4. j \in Used /\ d[m].type = "value"
      BY <1>2, <1>4
    <3> QED
      BY <1>3, <3>3, <3>4
  <2> QED
    BY <2>1, <2>2, <2>3
<1>10. Says(more, key[i])
  <2>1. Len(ls) + 1 \in 1 .. Len(more)
    BY <1>1, <1>5, <1>6
  <2> QED
    BY <1>7, <2>1 DEF Says
<1>11. ASSUME NEW j \in ValueSlots(i) PROVE Says(more, key[j])
  <2>1. PICK m \in 2 .. Len(d) : d[m] = ValueLine(j)
    BY <1>1
  <2>2. Len(ls) + m \in 1 .. Len(more)
    BY <1>5, <1>6
  <2>3. KeyAt(more, Len(ls) + m) = key[j]
    BY <1>8, <2>1
  <2> QED
    BY <2>2, <2>3 DEF Says
<1>12. ASSUME NEW k, Says(ls, k) PROVE Says(more, k)
  <2>1. PICK q \in 1 .. Len(ls) : KeyAt(ls, q) = k
    BY <1>12 DEF Says
  <2>2. q \in 1 .. Len(more) /\ KeyAt(more, q) = k
    BY <1>5, <1>6, <2>1
  <2> QED
    BY <2>2 DEF Says
<1> QED
  BY <1>9, <1>10, <1>11, <1>12 DEF more, d

(* FlattenSeq adds the sequences one after the other. *)
Flattens(f, s) ==
  f = [i \in 1 .. Len(s) |-> IF i = 1 THEN s[i] ELSE f[i - 1] \o s[i]]

LEMMA FlattenExists ==
  ASSUME NEW s, Len(s) \in Nat
  PROVE  \E f : Flattens(f, s)
<1> DEFINE c == Len(s)
           Next1(f, i) == IF i = 1 THEN s[i] ELSE f[i - 1] \o s[i]
           P(m) == \E f : /\ f = [i \in 1 .. c |-> f[i]]
                          /\ \A i \in 1 .. m : f[i] = Next1(f, i)
           S == {m \in 0 .. c : ~P(m)}
<1>1. ASSUME NEW m \in S, \A y \in S : m <= y
      PROVE  FALSE
  <2>1. m \in 0 .. c /\ ~P(m)
    OBVIOUS
  <2>2. P(0)
    <3> DEFINE f == [i \in 1 .. c |-> <<>>]
    <3>1. f = [i \in 1 .. c |-> f[i]] /\ \A i \in 1 .. 0 : f[i] = Next1(f, i)
      OBVIOUS
    <3> HIDE DEF f, c, Next1
    <3> QED
      BY <3>1, Zenon
  <2>3. m # 0
    BY <2>1, <2>2, Zenon
  <2>4. m - 1 \in 0 .. c /\ ~(m <= m - 1) /\ m \in 1 .. c
    BY <2>1, <2>3
  <2>5. P(m - 1)
    <3>1. m - 1 \notin S
      BY <1>1, <2>4, Zenon
    <3> HIDE DEF P
    <3> QED
      BY <2>4, <3>1, Zenon
  <2>6. PICK f : /\ f = [i \in 1 .. c |-> f[i]]
                 /\ \A i \in 1 .. m - 1 : f[i] = Next1(f, i)
    BY <2>5, Zenon
  <2> DEFINE g == [i \in 1 .. c |-> IF i = m THEN Next1(f, m) ELSE f[i]]
  <2>7. ASSUME NEW i \in 1 .. m PROVE g[i] = Next1(g, i)
    <3>1. i # 1 => g[i - 1] = f[i - 1]
      BY <2>4
    <3>2. Next1(g, i) = Next1(f, i)
      <4> HIDE DEF g
      <4> QED
        BY <3>1
    <3>3. CASE i = m
      <4>1. g[i] = Next1(f, i)
        BY <2>4, <3>3
      <4> QED
        BY <3>2, <4>1, Zenon
    <3>4. CASE i # m
      <4>1. i \in 1 .. m - 1 /\ g[i] = f[i]
        BY <2>4, <3>4
      <4> HIDE DEF g, Next1
      <4> QED
        BY <2>6, <3>2, <4>1, Zenon
    <3> QED
      BY <3>3, <3>4
  <2>8. g = [i \in 1 .. c |-> g[i]]
    OBVIOUS
  <2> HIDE DEF g, Next1, c
  <2>9. P(m)
    BY <2>7, <2>8, Zenon
  <2> QED
    BY <2>1, <2>9
<1>2. S \in SUBSET Nat
  OBVIOUS
<1>3. S = {}
  <2> HIDE DEF S
  <2> QED
    BY <1>1, <1>2, MinIsLeast
<1>4. P(c)
  <2>1. c \in 0 .. c
    OBVIOUS
  <2> HIDE DEF P
  <2> QED
    BY <1>3, <2>1, Zenon
<1>5. PICK f : f = [i \in 1 .. c |-> f[i]] /\ \A i \in 1 .. c : f[i] = Next1(f, i)
  BY <1>4, Zenon
<1>6. f = [i \in 1 .. c |-> Next1(f, i)]
  <2> HIDE DEF Next1
  <2> QED
    BY <1>5
<1> QED
  BY <1>6, Zenon DEF Flattens

LEMMA FlattenIs ==
  ASSUME NEW s, Len(s) \in Nat, Len(s) # 0
  PROVE  \E f : /\ f[1] = s[1]
                /\ \A i \in 2 .. Len(s) : f[i] = f[i - 1] \o s[i]
                /\ FlattenSeq(s) = f[Len(s)]
<1> DEFINE g == CHOOSE f : Flattens(f, s)
<1>1. Flattens(g, s)
  BY FlattenExists
<1>2. FlattenSeq(s) = g[Len(s)]
  BY DEF FlattenSeq, Flattens
<1> HIDE DEF g
<1>3. \A i \in 1 .. Len(s) : g[i] = IF i = 1 THEN s[i] ELSE g[i - 1] \o s[i]
  BY <1>1, Zenon DEF Flattens
<1>4. 1 \in 1 .. Len(s) /\ \A i \in 2 .. Len(s) : i \in 1 .. Len(s) /\ i # 1
  OBVIOUS
<1>5. g[1] = s[1] /\ \A i \in 2 .. Len(s) : g[i] = g[i - 1] \o s[i]
  BY <1>3, <1>4, Zenon
<1> QED
  BY <1>2, <1>5

(* The dump says what the dictionary holds, and all of it. *)
LEMMA DumpTold ==
  ASSUME DictInv, WellSectioned, PlainValues, ini
  PROVE  Truthful(DumpIni) /\ \A k \in DOMAIN Contents : Says(DumpIni, k)
<1> DEFINE c == GetNSec
           s == [m \in 1 .. c |-> DumpSection(GetSecName(m - 1))]
           Told(ls, i) == Says(ls, key[i]) /\ \A j \in ValueSlots(i) : Says(ls, key[j])
<1>1. /\ c \in Nat
      /\ \A m \in 1 .. c : \E i \in SectionSlots : GetSecName(m - 1) = key[i]
      /\ \A i \in SectionSlots : \E m \in 1 .. c : GetSecName(m - 1) = key[i]
  BY SecNames
<1>2. Len(s) = c /\ DumpIni = FlattenSeq(s)
  BY <1>1 DEF DumpIni
<1>3. Truthful(<<>>)
  BY DEF Truthful
<1>4. CASE c = 0
  <2>1. DumpIni = <<>>
    <3>1. s = <<>>
      BY <1>4
    <3>2. FlattenSeq(s) = s
      BY <1>2, <1>4 DEF FlattenSeq
    <3> QED
      BY <1>2, <3>1, <3>2
  <2>2. SectionSlots = {}
    BY <1>1, <1>4
  <2>3. DOMAIN Contents = {}
    BY <2>2, SlotFacts
  <2> QED
    BY <1>3, <2>1, <2>3
<1>5. CASE c # 0
  <2> HIDE DEF s
  <2>1. PICK f : /\ f[1] = s[1] /\ \A m \in 2 .. c : f[m] = f[m - 1] \o s[m]
                 /\ FlattenSeq(s) = f[c]
    BY <1>1, <1>2, <1>5, FlattenIs
  <2> DEFINE P(m) == /\ Truthful(f[m])
                     /\ \A q \in 1 .. m, i \in SectionSlots :
                          GetSecName(q - 1) = key[i] => Told(f[m], i)
             S == {m \in 1 .. c : ~P(m)}
  <2>2. ASSUME NEW m \in S, \A y \in S : m <= y
        PROVE  FALSE
    <3>1. m \in 1 .. c /\ ~P(m)
      OBVIOUS
    <3>2. PICK i \in SectionSlots : GetSecName(m - 1) = key[i]
      BY <1>1, <3>1
    <3>3. s[m] = DumpSection(key[i])
      BY <3>1, <3>2 DEF s
    <3>4. \E ls : /\ Truthful(ls) /\ f[m] = ls \o s[m]
                  /\ \A q \in 1 .. m - 1, j \in SectionSlots :
                       GetSecName(q - 1) = key[j] => Told(ls, j)
      <4>1. CASE m = 1
        <5>1. s[m] \in Seq(DumpLines)
          BY <3>3, SectionDumped
        <5>2. f[m] = <<>> \o s[m]
          BY <2>1, <4>1, <5>1
        <5>3. \A q \in 1 .. m - 1 : FALSE
          BY <4>1
        <5> QED
          BY <1>3, <5>2, <5>3, Zenon
      <4>2. CASE m # 1
        <5>1. m \in 2 .. c /\ m - 1 \in 1 .. c /\ ~(m <= m - 1)
          BY <1>1, <3>1, <4>2
        <5>2. m - 1 \notin S
          BY <2>2, <5>1, Zenon
        <5>3. P(m - 1)
          <6> HIDE DEF P
          <6> QED
            BY <5>1, <5>2, Zenon
        <5>4. f[m] = f[m - 1] \o s[m]
          BY <2>1, <5>1
        <5> HIDE DEF Told
        <5> QED
          BY <5>3, <5>4, Zenon
      <4> QED
        BY <4>1, <4>2
    <3>5. PICK ls : /\ Truthful(ls) /\ f[m] = ls \o s[m]
                    /\ \A q \in 1 .. m - 1, j \in SectionSlots :
                         GetSecName(q - 1) = key[j] => Told(ls, j)
      BY <3>4, Zenon
    <3>6. /\ Truthful(f[m]) /\ Told(f[m], i)
          /\ \A k : Says(ls, k) => Says(f[m], k)
      BY <3>3, <3>5, SectionTold
    <3>7. ASSUME NEW q \in 1 .. m, NEW j \in SectionSlots, GetSecName(q - 1) = key[j]
          PROVE  Told(f[m], j)
      <4>1. CASE q = m
        <5>1. key[j] = key[i]
          BY <3>2, <3>7, <4>1
        <5>2. ValueSlots(j) = ValueSlots(i)
          BY <5>1, Zenon DEF ValueSlots
        <5> QED
          BY <3>6, <5>1, <5>2, Zenon
      <4>2. CASE q # m
        <5>1. q \in 1 .. m - 1
          BY <1>1, <3>1, <4>2
        <5>2. Told(ls, j)
          BY <3>5, <3>7, <5>1, Zenon
        <5> QED
          BY <3>6, <5>2, Zenon
      <4> QED
        BY <4>1, <4>2
    <3>8. P(m)
      <4> HIDE DEF Told
      <4> QED
        BY <3>6, <3>7, Zenon
    <3> QED
      BY <3>1, <3>8
  <2>3. S \in SUBSET Nat
    BY <1>1
  <2>4. S = {}
    <3> HIDE DEF S
    <3> QED
      BY <2>2, <2>3, MinIsLeast
  <2>5. P(c)
    <3>1. c \in 1 .. c
      BY <1>1, <1>5
    <3> HIDE DEF P
    <3> QED
      BY <2>4, <3>1, Zenon
  <2>6. DumpIni = f[c]
    BY <1>2, <2>1
  <2>7. ASSUME NEW k \in DOMAIN Contents PROVE Says(f[c], k)
    <3>1. PICK i \in SectionSlots : k = key[i] \/ \E j \in ValueSlots(i) : k = key[j]
      BY SlotFacts
    <3>2. PICK m \in 1 .. c : GetSecName(m - 1) = key[i]
      BY <1>1
    <3>3. Told(f[c], i)
      <4> HIDE DEF Told
      <4> QED
        BY <2>5, <3>2, Zenon
    <3> QED
      BY <3>1, <3>3, Zenon
  <2> QED
    BY <2>5, <2>6, <2>7, Zenon
<1> QED
  BY <1>4, <1>5

LEMMA DumpLoads ==
  ASSUME DictInv, WellSectioned, PlainValues, ini
  PROVE  Written(DumpIni) = Contents
<1>1. PICK ls : ls = DumpIni
  OBVIOUS
<1>2. /\ Truthful(ls) /\ \A k \in DOMAIN Contents : Says(ls, k)
  BY <1>1, DumpTold
<1>3. PICK c \in Nat : c = Len(ls) /\ DOMAIN ls = 1 .. c
  BY <1>2 DEF Truthful
<1>4. Assigning(ls) = 1 .. c
  BY <1>2, <1>3 DEF Truthful, Assigning
<1> DEFINE At(k) == {i \in Assigning(ls) : KeyAt(ls, i) = k}
<1>5. Written(ls) = [k \in {KeyAt(ls, i) : i \in Assigning(ls)} |-> Stored(ls[Max(At(k))])]
  BY Zenon DEF Written
<1>6. {KeyAt(ls, i) : i \in Assigning(ls)} = DOMAIN Contents
  <2>1. \A i \in 1 .. c : KeyAt(ls, i) \in DOMAIN Contents
    BY <1>2, <1>3 DEF Truthful
  <2>2. \A k \in DOMAIN Contents : \E i \in 1 .. c : KeyAt(ls, i) = k
    BY <1>2, <1>3 DEF Says
  <2> QED
    BY <1>4, <2>1, <2>2, Zenon
<1>7. ASSUME NEW k \in DOMAIN Contents PROVE Stored(ls[Max(At(k))]) = Contents[k]
  <2>1. At(k) \in SUBSET (1 .. c) /\ At(k) # {}
    BY <1>2, <1>3, <1>4 DEF Says
  <2>2. Max(At(k)) \in At(k)
    <3> HIDE DEF At
    <3> QED
      BY <2>1, MaxIsGreatest
  <2>3. PICK i \in 1 .. c : i = Max(At(k)) /\ KeyAt(ls, i) = k
    BY <1>4, <2>2
  <2>4. Contents[KeyAt(ls, i)] = Stored(ls[i])
    BY <1>2, <1>3 DEF Truthful
  <2> HIDE DEF At
  <2> QED
    BY <2>3, <2>4
<1> HIDE DEF At
<1>8. Written(ls) = [k \in DOMAIN Contents |-> Contents[k]]
  BY <1>5, <1>6, <1>7
<1>9. Contents = [k \in DOMAIN Contents |-> Contents[k]]
  BY ContentsAre
<1> QED
  BY <1>1, <1>8, <1>9, Zenon

(* What iniparser_dump_ini writes can be loaded and gives the same         *)
(* dictionary, whatever slots and collisions the keys have come to, as     *)
(* long as every value has its section and needs no quotes (no comment     *)
(* sign, no quote in front, no backslash at the end, and not NULL).        *)
THEOREM DumpIsLoadableThm == Spec => []DumpIsLoadable
<1>1. StartInv => DumpIsLoadable
  BY DumpLoads DEF StartInv, DictInv, DumpIsLoadable
<1> QED
  BY <1>1, StartInvHolds, PTL
=============================================================================
