----------------------------- MODULE Dictionary -----------------------------
(***************************************************************************)
(* The dictionary of iniparser (dictionary.c): three arrays of size slots, *)
(* a slot being free when its key is NULL.  A key is searched for from     *)
(* slot 0 on, by hash and then by name; a new key goes into the first free *)
(* slot from slot n on, cyclically; full arrays are doubled.               *)
(*                                                                         *)
(* A key is the sequence of its parts: <<section>> or <<section, name>>.   *)
(* Only the doubling may find no memory here: the copies that xstrdup      *)
(* makes of a key and a value are taken to succeed (dictionary.c:270).     *)
(***************************************************************************)
EXTENDS Integers, Sequences, FiniteSetsExt

CONSTANTS Keys,        \* the keys a caller may use
          Values,      \* the values, without NULL
          Hash,        \* dictionary_hash
          DICTMINSZ    \* the size of a new dictionary

NULL == <<>>

ASSUME DictAssumption ==
  /\ NULL \notin Keys \cup Values
  /\ Hash \in [Keys -> Nat]
  /\ DICTMINSZ \in Nat \ {0}

VARIABLES size, n, key, val, hash

dict == <<size, n, key, val, hash>>

Slots == 0 .. size - 1

(* dictionary_new *)
DictionaryNew ==
  /\ size = DICTMINSZ /\ n = 0
  /\ key = [i \in 0 .. DICTMINSZ - 1 |-> NULL]
  /\ val = [i \in 0 .. DICTMINSZ - 1 |-> NULL]
  /\ hash = [i \in 0 .. DICTMINSZ - 1 |-> 0]

(* Mutant of Hits: the names are not compared. *)
HitsByHash(k) == {i \in Slots : key[i] # NULL /\ hash[i] = Hash[k]}

(* The slots where the search for k may stop. *)
Hits(k) == {i \in Slots : key[i] # NULL /\ hash[i] = Hash[k] /\ key[i] = k}

Found(k) == Hits(k) # {}

(* dictionary_get *)
DictionaryGet(k, def) == IF Found(k) THEN val[Min(Hits(k))] ELSE def

(* mem_double: the new half is filled with zeroes. *)
Double(a, zero) == [i \in 0 .. 2 * size - 1 |-> IF i < size THEN a[i] ELSE zero]

(* Mutant of FreeSlot: the search for a free slot takes slot n. *)
FreeSlotAtN(keys, sz) == n

(* The first free slot of sz slots, from slot n on and then from slot 0.   *)
FreeSlot(keys, sz) ==
  LET Steps == {s \in 0 .. sz - 1 : keys[(n + s) % sz] = NULL}
  IN  (n + Min(Steps)) % sz

(* dictionary_set *)
Replace(k, v) ==
  /\ n > 0 /\ Found(k)
  /\ val' = [val EXCEPT ![Min(Hits(k))] = v]
  /\ UNCHANGED <<size, n, key, hash>>

Add(k, v) ==
  /\ ~(n > 0 /\ Found(k))
  /\ LET full == n = size
         sz   == IF full THEN 2 * size ELSE size
         keys == IF full THEN Double(key, NULL) ELSE key
         i    == FreeSlot(keys, sz)
     IN  /\ size' = sz
         /\ key' = [keys EXCEPT ![i] = k]
         /\ val' = [(IF full THEN Double(val, NULL) ELSE val) EXCEPT ![i] = v]
         /\ hash' = [(IF full THEN Double(hash, 0) ELSE hash) EXCEPT ![i] = Hash[k]]
  /\ n' = n + 1

DictionarySet(k, v) == Replace(k, v) \/ Add(k, v)

(* dictionary_set of a new key when the arrays are full and cannot grow. *)
CannotGrow(k) == ~(n > 0 /\ Found(k)) /\ n = size

(* Mutant of DictionaryUnset: the count is kept. *)
UnsetKeepsCount(k) ==
  /\ IF Found(k)
       THEN LET i == Min(Hits(k))
            IN  /\ key' = [key EXCEPT ![i] = NULL]
                /\ val' = [val EXCEPT ![i] = NULL]
                /\ hash' = [hash EXCEPT ![i] = 0]
       ELSE UNCHANGED <<key, val, hash>>
  /\ UNCHANGED <<size, n>>

(* dictionary_unset *)
DictionaryUnset(k) ==
  /\ IF Found(k)
       THEN LET i == Min(Hits(k))
            IN  /\ key' = [key EXCEPT ![i] = NULL]
                /\ val' = [val EXCEPT ![i] = NULL]
                /\ hash' = [hash EXCEPT ![i] = 0]
                /\ n' = n - 1
       ELSE UNCHANGED <<n, key, val, hash>>
  /\ UNCHANGED size
-----------------------------------------------------------------------------
Used == {i \in Slots : key[i] # NULL}

(* n counts the used slots and no key has two: only then does the search   *)
(* for a free slot end, as the comment in dictionary_set claims, and does  *)
(* removing a key make it unknown.                                         *)
SlotsAreCounted ==
  /\ n = Cardinality(Used)
  /\ \A i, j \in Used : key[i] = key[j] => i = j
  /\ \A i \in Used : hash[i] = Hash[key[i]]

DictTyped ==
  /\ size \in Nat \ {0} /\ n \in Nat
  /\ key \in [Slots -> Keys \cup {NULL}]
  /\ val \in [Slots -> Values \cup {NULL}]
  /\ hash \in [Slots -> Nat]

(* The map that the arrays stand for. *)
Contents == [k \in {key[i] : i \in Used} |-> val[CHOOSE i \in Used : key[i] = k]]
=============================================================================
