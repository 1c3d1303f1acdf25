------------------------------ MODULE BindFile ------------------------------
(***************************************************************************)
(* str_split (config.c), which cuts a line of the bind file into fields.   *)
(* A line is a sequence of characters: " " for any separator (blank, tab,  *)
(* return or =), "#", and "x" for any other.  A field is the pair of its   *)
(* first and last position.                                                *)
(***************************************************************************)
EXTENDS Integers, Sequences, FiniteSetsExt

CONSTANT FieldNum     \* bind_conf_max_field_num

ASSUME FieldAssumption == FieldNum \in Nat \ {0}

Sep(c) == c = " "

(* The first position from i on without, or with, a separator; the         *)
(* position of the final NUL if there is none.                             *)
SkipSeps(line, i) ==
  Min({j \in i .. Len(line) : ~Sep(line[j])} \cup {Len(line) + 1})
SkipWord(line, i) ==
  Min({j \in i .. Len(line) : Sep(line[j])} \cup {Len(line) + 1})

(* The last field is the rest of the line without its trailing separators. *)
LastField(line, s) == <<s, Max({j \in s .. Len(line) : ~Sep(line[j])})>>

(* Mutant of Fields: the last field ends with its first word. *)
FieldsByWord(line) ==
  LET From[p \in (1 .. Len(line) + 2) \X (1 .. FieldNum)] ==
        LET s == SkipSeps(line, p[1])
            e == SkipWord(line, s)
        IN  CASE s > Len(line)   -> <<>>
              [] s <= Len(line) /\ (p[2] = FieldNum \/ e > Len(line)) -> <<<<s, e - 1>>>>
              [] OTHER           -> <<<<s, e - 1>>>> \o From[<<e + 1, p[2] + 1>>]
  IN  From[<<1, 1>>]

(* The loop of str_split: from position i on, with m - 1 fields found. *)
Fields(line) ==
  LET From[p \in (1 .. Len(line) + 2) \X (1 .. FieldNum)] ==
        LET i == p[1]
            m == p[2]
            s == SkipSeps(line, i)
            e == SkipWord(line, s)
        IN  CASE s > Len(line)   -> <<>>
              [] s <= Len(line) /\ m = FieldNum -> <<LastField(line, s)>>
              [] s <= Len(line) /\ m < FieldNum /\ e > Len(line) -> <<<<s, e - 1>>>>
              [] OTHER           -> <<<<s, e - 1>>>> \o From[<<e + 1, m + 1>>]
  IN  From[<<1, 1>>]

(* What it should return: the words of the line, in order, where the last  *)
(* field, if there are so many, reaches to the end of the last word.       *)
Words(line) ==
  {p \in (1 .. Len(line)) \X (1 .. Len(line)) :
     /\ p[1] <= p[2] /\ \A j \in p[1] .. p[2] : ~Sep(line[j])
     /\ p[1] = 1 \/ Sep(line[p[1] - 1])
     /\ p[2] = Len(line) \/ Sep(line[p[2] + 1])}

IsSplit(line, fields) ==
  /\ Len(fields) = Min({FieldNum, Cardinality(Words(line))})
  /\ \A f \in DOMAIN fields : \E w \in Words(line) :
       /\ fields[f][1] = w[1]
       /\ Cardinality({v \in Words(line) : v[1] < w[1]}) = f - 1
       /\ fields[f][2] = IF f < FieldNum THEN w[2]
                         ELSE Max({v[2] : v \in Words(line)})
=============================================================================
