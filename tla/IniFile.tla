------------------------------ MODULE IniFile ------------------------------
(***************************************************************************)
(* How iniparser_load reads a file into a dictionary, line by line, and    *)
(* how the dictionary is queried, changed and dumped (iniparser.c).        *)
(*                                                                         *)
(* A line is what iniparser_line tells apart: empty, a comment, a section, *)
(* a value or a syntax error.  A line that ends with a backslash goes on   *)
(* in the next.                                                            *)
(*                                                                         *)
(* The text of a value is a sequence of words.  Four of them are signs:    *)
(* ";" starts a comment (as # does), "dq" and "sq" are the quotes and "bs" *)
(* is the backslash.  A name has none of them.                             *)
(***************************************************************************)
EXTENDS Dictionary, SequencesExt

CONSTANTS Lines,      \* the lines a file may have
          Lower,      \* strlwc, on the names that occur
          MaxLines    \* bound: lines of a file

(* What a line adds to the value it is joined to: nothing if it is empty,  *)
(* a comment sign, or more words.                                          *)
Added == {";", "more"}
Text(l) ==
  CASE l.type = "empty"   -> <<>>
    [] l.type = "comment" -> <<";">>
    [] OTHER              -> <<"more">>

(* What up to j lines add. *)
Tails(j) == UNION {[1 .. m -> Added] : m \in 0 .. j}

(* The words of values. *)
ValueWords == Added \cup UNION {Range(l.val) : l \in {m \in Lines : m.type = "value"}}

ValueLines == [type : {"value"}, name : STRING, val : Seq(ValueWords)]

(* The text before the first w. *)
Upto(text, w) ==
  LET S == {i \in DOMAIN text : text[i] = w}
  IN  IF S = {} THEN text ELSE SubSeq(text, 1, Min(S) - 1)

(* The formats of iniparser_line take a quote that something follows, and  *)
(* need no second one.                                                     *)
QuotedBy(text, q) == Len(text) >= 2 /\ text[1] = q /\ text[2] # q

(* The empty string, which is not NULL. *)
Empty == <<"">>

(* The value that iniparser_line makes of what follows the =. *)
ParseValue(text) ==
  LET v == CASE QuotedBy(text, "dq") -> Upto(Tail(text), "dq")
             [] QuotedBy(text, "sq") -> Upto(Tail(text), "sq")
             [] OTHER                -> Upto(text, ";")
  IN  IF v \in {<<>>, <<"dq", "dq">>, <<"sq", "sq">>} THEN Empty ELSE v

(* The section of a value: none before the first. *)
SectionNames == {""} \cup {Lower[l.name] : l \in {m \in Lines : m.type = "section"}}

(* Keys and Values have what the lines can make.  A key has one part or    *)
(* two, which strlwc has been applied to.                                  *)
ASSUME IniAssumption ==
  /\ MaxLines \in Nat /\ Values \subseteq Seq(STRING)
  /\ \A k \in Keys : /\ k \in Seq(STRING) /\ Len(k) \in {1, 2}
                      /\ \A i \in 1 .. Len(k) : Lower[k[i]] = k[i]
  /\ \A l \in Lines :
       /\ l.type \in {"empty", "comment", "section", "value", "error"}
       /\ l.type = "section" => <<Lower[l.name]>> \in Keys
       /\ l.type = "value" =>
            /\ l \in ValueLines
            /\ \A s \in SectionNames : <<s, Lower[l.name]>> \in Keys
            /\ \A t \in Tails(MaxLines - 1) : ParseValue(l.val \o t) \in Values

VARIABLES
  at,        \* where the program is, "load" while it reads the file
  ini,       \* whether the dictionary exists (the pointer is not NULL)
  lineno,
  section,   \* the current section, "" before the first
  errs,
  held,      \* the line to which the next one is to be joined, if any
  lines      \* history: the lines that were handled

inivars == <<ini, lineno, section, errs, held, lines>>

InitIni ==
  /\ DictionaryNew
  /\ at = "load" /\ ini = TRUE /\ lineno = 0 /\ section = "" /\ errs = 0
  /\ held = <<>> /\ lines = <<>>
-----------------------------------------------------------------------------
(* What the line may be after what is held: a comment swallows it, a value *)
(* grows, and a section or an error may become anything with a text.       *)
Joins(l) ==
  IF held = <<>> THEN {l}
  ELSE CASE held[1].type = "comment" -> {held[1]}
         [] held[1].type = "value"   -> {[held[1] EXCEPT !.val = @ \o Text(l)]}
         [] OTHER -> {m \in Lines : m.type \in {"section", "value", "error"}}

(* Mutant of EntryOf: a value is stored without its section. *)
EntryOfUnsectioned(l) ==
  IF l.type = "section" THEN <<Lower[l.name]>> ELSE <<"", Lower[l.name]>>

(* The key a section or a value is stored under. *)
EntryOf(l) ==
  IF l.type = "section" THEN <<Lower[l.name]>> ELSE <<section, Lower[l.name]>>

Stored(l) == IF l.type = "section" THEN NULL ELSE ParseValue(l.val)

Reading == at = "load" /\ lineno < MaxLines

(* The line ends with a backslash; of one that has nothing else nothing is *)
(* held.                                                                   *)
HoldLine(l) ==
  /\ Reading
  /\ \E j \in Joins(l) : held' = IF j.type = "empty" THEN <<>> ELSE <<j>>
  /\ lineno' = lineno + 1
  /\ UNCHANGED <<dict, at, ini, section, errs, lines>>

(* The switch over the kinds of line.  dictionary_set returns 0, which     *)
(* also clears the errors counted so far.                                  *)
HandleLine(l) ==
  /\ Reading
  /\ \E j \in Joins(l) :
       /\ \/ j.type \in {"empty", "comment"} /\ UNCHANGED <<dict, section, errs>>
          \/ j.type = "error" /\ errs' = errs + 1 /\ UNCHANGED <<dict, section>>
          \/ /\ j.type \in {"section", "value"}
             /\ DictionarySet(EntryOf(j), Stored(j))
             /\ errs' = 0
             /\ section' = IF j.type = "section" THEN Lower[j.name] ELSE section
       /\ lines' = Append(lines, j)
  /\ held' = <<>> /\ lineno' = lineno + 1
  /\ UNCHANGED <<at, ini>>

(* A line of blanks only: the byte before the buffer is read.  It may be   *)
(* anything; if it is a backslash, the next line is read to before the     *)
(* buffer.                                                                 *)
BlankLine ==
  /\ Reading /\ held = <<>>
  /\ lineno' = lineno + 1
  /\ at' \in {"load", "undefined"}
  /\ UNCHANGED <<dict, ini, section, errs, held, lines>>

(* fopen fails, or a line has no newline (it is too long, or the last). *)
LoadFails ==
  /\ at = "load" /\ at' = "daemon" /\ ini' = FALSE
  /\ UNCHANGED <<dict, lineno, section, errs, held, lines>>

(* mem_double finds no memory.  The dictionary is deleted, which uses the  *)
(* arrays that are NULL unless hash alone is.                              *)
NoMemory(l) ==
  /\ Reading
  /\ \E j \in Joins(l) : j.type \in {"section", "value"} /\ CannotGrow(EntryOf(j))
  /\ at' \in {"daemon", "crashed"} /\ ini' = FALSE
  /\ UNCHANGED <<dict, lineno, section, errs, held, lines>>

(* The end of the file.  What is held is dropped. *)
LoadEnds ==
  /\ at = "load" /\ at' = "daemon"
  /\ ini' = (errs = 0)
  /\ UNCHANGED <<dict, lineno, section, errs, held, lines>>

Load ==
  \/ \E l \in Lines : HoldLine(l) \/ HandleLine(l) \/ NoMemory(l)
  \/ BlankLine \/ LoadFails \/ LoadEnds
-----------------------------------------------------------------------------
(***************************************************************************)
(* Using the dictionary.                                                   *)
(***************************************************************************)
LowerKey(k) == [i \in DOMAIN k |-> Lower[k[i]]]

(* iniparser_getstring, of which getint, getdouble and getboolean convert  *)
(* the result; iniparser_find_entry.                                       *)
GetString(k, def) == IF ini THEN DictionaryGet(LowerKey(k), def) ELSE def
FindEntry(k) == GetString(k, <<"invalid">>) # <<"invalid">>

(* iniparser_set, iniparser_unset *)
IniSet(k, v) == ini /\ DictionarySet(LowerKey(k), v)
IniUnset(k) == ini /\ DictionaryUnset(LowerKey(k))

(* iniparser_getnsec, and iniparser_getsecname for m below it: the (m+1)th *)
(* slot whose key has no colon.                                            *)
SectionSlots == {i \in Slots : key[i] # NULL /\ Len(key[i]) = 1}
GetNSec == Cardinality(SectionSlots)

(* Mutant of GetSecName: the count starts with 1. *)
GetSecNameFrom1(m) ==
  LET s == CHOOSE i \in SectionSlots : \A j \in SectionSlots : i <= j IN key[s]

GetSecName(m) ==
  LET s == CHOOSE i \in SectionSlots :
             Cardinality({j \in SectionSlots : j < i}) = m
  IN  key[s]

(* iniparser_getseckeys: the slots of a section's keys; there are          *)
(* iniparser_getsecnkeys of them.                                          *)
GetSecKeys(s) ==
  IF FindEntry(s) THEN {i \in Slots : Len(key[i]) = 2 /\ key[i][1] = s[1]} ELSE {}

(* A value is printed without quotes, and NULL as the empty string. *)
Printed(v) == IF v \in {NULL, Empty} THEN <<>> ELSE v

(* iniparser_dumpsection_ini *)
DumpSection(s) ==
  <<[type |-> "section", name |-> s[1]]>> \o
  SetToSeq({[type |-> "value", name |-> key[i][2], val |-> Printed(val[i])]
              : i \in GetSecKeys(s)})

(* iniparser_dump_ini, of a dictionary with a section. *)
DumpIni == FlattenSeq([m \in 1 .. GetNSec |-> DumpSection(GetSecName(m - 1))])
-----------------------------------------------------------------------------
(***************************************************************************)
(* What a sequence of lines means: a value belongs to the last section     *)
(* before it, names do not depend on case, and the last assignment wins.   *)
(***************************************************************************)
SectionAt(ls, i) ==
  LET S == {j \in 1 .. i : ls[j].type = "section"}
  IN  IF S = {} THEN "" ELSE Lower[ls[Max(S)].name]

KeyAt(ls, i) ==
  IF ls[i].type = "section" THEN <<SectionAt(ls, i)>>
  ELSE <<SectionAt(ls, i), Lower[ls[i].name]>>

Assigning(ls) == {i \in DOMAIN ls : ls[i].type \in {"section", "value"}}

Written(ls) ==
  [k \in {KeyAt(ls, i) : i \in Assigning(ls)} |->
     Stored(ls[Max({i \in Assigning(ls) : KeyAt(ls, i) = k})])]

(* No line with an error is the last that counts. *)
ErrorsOvertaken(ls) ==
  \A i \in DOMAIN ls : ls[i].type = "error" => \E j \in Assigning(ls) : j > i

(* Until a user changes it, the dictionary holds what the lines of the     *)
(* file say (iniparser_load), whatever their order, case, errors and       *)
(* continuations; and a file with a syntax error in its last line that     *)
(* counts is never taken for a good one.                                   *)
LoadedAsWritten ==
  /\ at \in {"load", "daemon"} => Contents = Written(lines)
  /\ at = "daemon" /\ ini => ErrorsOvertaken(lines)

(* Every value has a section that is there, and a section has no value,    *)
(* which iniparser_set does not see to.                                    *)
WellSectioned ==
  \A k \in DOMAIN Contents :
    IF Len(k) = 1 THEN Contents[k] = NULL ELSE <<k[1]>> \in DOMAIN Contents

(* A value that needs no quotes: printed bare it is read as it is. *)
Plain(v) ==
  /\ v # NULL /\ ";" \notin Range(v)
  /\ v[1] \notin {"dq", "sq"} /\ v[Len(v)] # "bs"

PlainValues == \A k \in DOMAIN Contents : Len(k) = 2 => Plain(Contents[k])

(* "Save a dictionary to a loadable ini file" (iniparser_dump_ini): where  *)
(* every value has its section and is plain, loading the dump gives the    *)
(* same dictionary, whatever slots its keys have come to use.  A value     *)
(* with a comment sign, loaded from between quotes, loses what follows it  *)
(* (iniparser.c:260), NULL becomes the empty string, and a backslash at    *)
(* the end joins the next line.                                            *)
DumpIsLoadable ==
  ini /\ at # "load" /\ WellSectioned /\ PlainValues => Written(DumpIni) = Contents
=============================================================================
