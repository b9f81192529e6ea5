------------------------------ MODULE Settings ------------------------------
(***************************************************************************)
(* The tree of settings of libconfig (ConfigLib/lib/libconfig.c), with     *)
(* which hmm.hpp and LogisticRegression.hpp load their models.  A heap is  *)
(* a function from the addresses of settings to records; every operation   *)
(* of the C code is an operator from heaps to heaps, or from a heap to the *)
(* value the code returns.                                                 *)
(*                                                                         *)
(* A union config_value_t is its val and its kids, the list of a group, an *)
(* array or a list; room is the number of pointers for which the list has  *)
(* memory, 0 when there is no list yet.  The val of a FLOAT counts halves, *)
(* so that there are fractions; a string is its length, 0 is also null.    *)
(***************************************************************************)
EXTENDS Integers, Sequences, FiniteSets

CONSTANTS MaxSettings, \* bound: addresses a heap has
          Names,       \* names a setting may have
          NoName,      \* the null pointer as a name
          CHUNK_SIZE,  \* pointers by which a list grows
          IntMax,      \* INT32_MAX
          LongMax,     \* the largest long long
          FloatExact,  \* integers up to this one fit the mantissa of a float
          DoubleExact, \* integers up to this one fit the mantissa of a double
          StringMax,   \* bound: the length up to which strings are told apart
          Tried        \* bound: values that are handed to the library

ASSUME SettingsAssumption ==
    /\ MaxSettings \in Nat \ {0} /\ CHUNK_SIZE \in Nat \ {0}
    /\ IntMax \in Nat /\ LongMax \in Nat /\ IntMax <= LongMax
    /\ FloatExact \in Nat /\ DoubleExact \in Nat /\ IntMax < DoubleExact
    /\ StringMax \in Nat /\ Tried \subseteq Int
    /\ NoName \notin Names

Root == 1
Settings == 1..MaxSettings
Null == 0
Numbers == {"INT", "INT64", "FLOAT"}
Scalars == Numbers \cup {"STRING", "BOOL"}
Aggregates == {"GROUP", "ARRAY", "LIST"}
Types == {"NONE"} \cup Scalars \cup Aggregates
Formats == {"DEFAULT", "HEX"}
Values == Int
Ints == -(IntMax + 1)..IntMax
Longs == -(LongMax + 1)..LongMax

Setting == [type : Types \cup {"FREE"}, name : Names \cup {NoName},
            parent : Settings \cup {Null}, kids : Seq(Settings), room : Nat,
            val : Values, fmt : Formats, hook : Nat, file : Nat]

NewSetting(type, name, parent) ==
    [type |-> type, name |-> name, parent |-> parent, kids |-> <<>>, room |-> 0,
     val |-> 0, fmt |-> "DEFAULT", hook |-> Null, file |-> Null]
FreeMemory == NewSetting("FREE", NoName, Null)

Live(h) == {n \in Settings : h[n].type # "FREE"}
HasRoom(h) == Live(h) # Settings
Address(h) ==
    LET free == Settings \ Live(h) IN CHOOSE n \in free : \A m \in free : n <= m

(***************************************************************************)
(* config_init: a root that is an empty group.                             *)
(***************************************************************************)
EmptyHeap == [n \in Settings |-> IF n = Root THEN NewSetting("GROUP", NoName, Null)
                                             ELSE FreeMemory]

-----------------------------------------------------------------------------
(***************************************************************************)
(* Lists.  Memory is added when the length is a multiple of CHUNK_SIZE.    *)
(***************************************************************************)
ListAdd(h, p, n) ==
    LET len == Len(h[p].kids) IN
    [h EXCEPT ![p].room = IF len % CHUNK_SIZE = 0 THEN len + CHUNK_SIZE ELSE @,
              ![p].kids = Append(@, n)]

ListRemove(h, p, i) ==
    [h EXCEPT ![p].kids = SubSeq(@, 1, i - 1) \o SubSeq(@, i + 1, Len(@))]

\* What is left of a list of elements when only those of a set stay.
Only(list, ms) ==
    LET Kept[i \in 0..Len(list)] ==
          IF i = 0 THEN <<>>
          ELSE IF list[i] \in ms THEN Append(Kept[i - 1], list[i]) ELSE Kept[i - 1]
    IN  Kept[Len(list)]

\* The positions of the members with that name: the search returns the first.
Matches(h, p, name) == {i \in DOMAIN h[p].kids : h[h[p].kids[i]].name = name}
ListSearch(h, p, name) ==
    LET found == Matches(h, p, name) IN
    IF name = NoName \/ found = {} THEN Null
    ELSE CHOOSE i \in found : \A j \in found : i <= j

VectorAccepts(h, p, type) ==
    h[p].kids # <<>> /\ h[p].type # "LIST" => h[h[p].kids[1]].type = type

(***************************************************************************)
(* A setting is destroyed with everything below it; the destructor is      *)
(* called for each hook on the way (see Hooks).                            *)
(***************************************************************************)
Subtree(h, n) ==
    LET Reached[k \in 0..MaxSettings] ==
          IF k = 0 THEN {n}
          ELSE Reached[k - 1] \cup UNION {{h[m].kids[i] : i \in DOMAIN h[m].kids} :
                                           m \in Reached[k - 1]}
    IN  Reached[MaxSettings]
Hooks(h, ns) == {h[m].hook : m \in ns} \ {Null}
SettingDestroy(h, n) ==
    LET gone == Subtree(h, n) IN
    [m \in Settings |-> IF m \in gone THEN FreeMemory ELSE h[m]]

SettingCreate(h, p, name, type) ==
    LET n == Address(h) IN
    ListAdd([h EXCEPT ![n] = NewSetting(type, name, p)], p, n)

-----------------------------------------------------------------------------
(***************************************************************************)
(* config_setting_add, _remove, _remove_elem: whether the call succeeds,   *)
(* and what it does when it does.                                          *)
(***************************************************************************)
GetMember(h, n, name) ==
    IF h[n].type # "GROUP" \/ ListSearch(h, n, name) = Null THEN Null
    ELSE h[n].kids[ListSearch(h, n, name)]
GetElem(h, n, i) ==
    IF h[n].type \in Aggregates /\ i \in DOMAIN h[n].kids THEN h[n].kids[i] ELSE Null

AddedName(h, p, name) == IF h[p].type \in {"ARRAY", "LIST"} THEN NoName ELSE name
\* Mutant of CanAdd: the search for a member of that name is left out.
CanAddTwice(h, p, name) ==
    h[p].type \in Aggregates /\ AddedName(h, p, name) \in Names \cup {NoName}
CanAdd(h, p, name) ==
    /\ h[p].type \in Aggregates
    /\ AddedName(h, p, name) \in Names \cup {NoName}   \* __config_validate_name
    /\ GetMember(h, p, AddedName(h, p, name)) = Null
Add(h, p, name, type) == SettingCreate(h, p, AddedName(h, p, name), type)

CanRemove(h, p, name) == GetMember(h, p, name) # Null
RemoveNamed(h, p, name) ==
    SettingDestroy(ListRemove(h, p, ListSearch(h, p, name)), GetMember(h, p, name))

CanRemoveElem(h, p, i) == GetElem(h, p, i) # Null
RemoveElem(h, p, i) == SettingDestroy(ListRemove(h, p, i), GetElem(h, p, i))

-----------------------------------------------------------------------------
(***************************************************************************)
(* Conversions.  What they may give is a set where C leaves it open: a     *)
(* floating point number that an integer type cannot hold becomes any      *)
(* value of that type.                                                     *)
(***************************************************************************)
\* Mutant of Truncated: the test that leads to 0 is gone.
TruncatedNever(v) == v
Truncated(v) == IF v \in Ints THEN v ELSE 0

\* (int)fval and (long long)fval: the fraction is dropped.
Whole(v) == IF v >= 0 THEN v \div 2 ELSE -((-v) \div 2)
Cut(v, type) == IF Whole(v) \in type THEN {Whole(v)} ELSE type

\* What a mantissa keeps of an integer, to the nearest and of two to the even one.
\* Bound: no integer has more than one bit too many.
Fits(v, exact) == -exact <= v /\ v <= exact
Rounded(v, exact) ==
    IF Fits(v, exact) \/ v % 2 = 0 THEN v ELSE IF v % 4 = 1 THEN v - 1 ELSE v + 1
IsDouble(v) == /\ Rounded(v, DoubleExact) = v
               /\ v % 2 = 0 => Rounded(Whole(v), DoubleExact) = Whole(v)
ToFloat(v) == 2 * Rounded(v, FloatExact)      \* (float)value
ToDouble(v) == 2 * Rounded(v, DoubleExact)    \* (double)value

(***************************************************************************)
(* Getters.  The result is the set of values that the code may return; a   *)
(* getter that does not apply gives none (the caller keeps what it had,    *)
(* mostly a 0).                                                            *)
(***************************************************************************)

GetInt(s, auto) ==
    CASE s.type = "INT" -> {s.val}
      [] s.type = "INT64" -> {Truncated(s.val)}
      [] s.type = "FLOAT" /\ auto -> Cut(s.val, Ints)
      [] OTHER -> {}
GetInt64(s, auto) ==
    CASE s.type \in {"INT", "INT64"} -> {s.val}
      [] s.type = "FLOAT" /\ auto -> Cut(s.val, Longs)
      [] OTHER -> {}
GetFloat(s, auto) ==
    CASE s.type = "FLOAT" -> {s.val}
      [] s.type \in {"INT", "INT64"} /\ auto -> {ToDouble(s.val)}
      [] OTHER -> {}
GetBool(s) == IF s.type = "BOOL" THEN {s.val} ELSE {}
GetString(s) == IF s.type = "STRING" THEN {s.val} ELSE {}
Get(s, kind, auto) ==
    CASE kind = "INT" -> GetInt(s, auto)
      [] kind = "INT64" -> GetInt64(s, auto)
      [] kind = "FLOAT" -> GetFloat(s, auto)
      [] kind = "BOOL" -> GetBool(s)
      [] kind = "STRING" -> GetString(s)

(***************************************************************************)
(* The setters: whether a setting of a type accepts a value of kind, and   *)
(* the settings that may result.  A setting without a type takes the kind  *)
(* of the first value it is given.                                         *)
(***************************************************************************)
SetAccepts(type, kind, auto) ==
    \/ type \in {"NONE", kind}
    \/ kind = "INT64" /\ type = "INT"
    \/ auto /\ kind \in Numbers /\ type = "FLOAT"
    \/ auto /\ kind = "FLOAT" /\ type \in Numbers

SetResults(s, kind, v) ==
    LET Held == CASE kind = "INT64" /\ s.type = "INT" -> {Truncated(v)}
                  [] kind # "FLOAT" /\ s.type = "FLOAT" -> {ToFloat(v)}
                  [] kind = "FLOAT" /\ s.type = "INT" -> Cut(v, Ints)
                  [] kind = "FLOAT" /\ s.type = "INT64" -> Cut(v, Longs)
                  [] OTHER -> {v}
    IN  {[s EXCEPT !.type = IF @ = "NONE" THEN kind ELSE @, !.val = w] : w \in Held}

\* What can be handed to the setter of a kind; a truth value is any int.
ValuesOf(kind) == CASE kind \in {"INT", "BOOL"} -> Tried \cap Ints
                    [] kind = "INT64" -> Tried \cap Longs
                    [] kind = "FLOAT" -> {v \in Tried : IsDouble(v)}
                    [] OTHER -> Tried \cap 0..StringMax

\* Index 0 stands for a negative index, with which a setter appends.
CanSetElem(h, p, i, kind, auto) ==
    /\ h[p].type \in {"ARRAY", "LIST"}
    /\ IF i = 0 THEN VectorAccepts(h, p, kind)
       ELSE /\ GetElem(h, p, i) # Null
            /\ SetAccepts(h[GetElem(h, p, i)].type, kind, auto)
SetElemResults(h, p, i, kind, v) ==
    LET g == IF i = 0 THEN SettingCreate(h, p, NoName, kind) ELSE h
        e == IF i = 0 THEN Address(h) ELSE GetElem(h, p, i)
    IN  {[g EXCEPT ![e] = s] : s \in SetResults(g[e], kind, v)}

CanSetFormat(s) == s.type \in {"INT", "INT64"}
GetFormat(s, default) == IF s.fmt # "DEFAULT" THEN s.fmt ELSE default

-----------------------------------------------------------------------------
(***************************************************************************)
(* Paths.  A path is a sequence of steps: a name, or the index of an       *)
(* element counted from 1.  config_lookup_from follows it from a setting.  *)
(***************************************************************************)
StepTo(h, n, step) ==
    IF n = Null THEN Null
    ELSE IF step.index = 0 THEN GetMember(h, n, step.name) ELSE GetElem(h, n, step.index)
LookupFrom(h, n, path) ==
    LET At[k \in 0..Len(path)] == IF k = 0 THEN n ELSE StepTo(h, At[k - 1], path[k])
    IN  At[Len(path)]

\* The typed lookups: config_lookup_*, config_setting_lookup_*, config_setting_get_*_elem.
LookupValue(h, path, kind, auto) ==
    LET n == LookupFrom(h, Root, path) IN IF n = Null THEN {} ELSE Get(h[n], kind, auto)
MemberValue(h, p, name, kind, auto) ==
    LET n == GetMember(h, p, name) IN IF n = Null THEN {} ELSE Get(h[n], kind, auto)
ElemValue(h, p, i, kind, auto) ==
    LET n == GetElem(h, p, i) IN IF n = Null THEN {} ELSE Get(h[n], kind, auto)

\* Mutant of SettingIndex: the count starts a place later.
SettingIndexLate(h, n) ==
    IF h[n].parent = Null THEN 0
    ELSE LET p == h[n].parent IN
         1 + (CHOOSE i \in DOMAIN h[p].kids : h[p].kids[i] = n)
SettingIndex(h, n) ==
    IF h[n].parent = Null THEN 0
    ELSE LET p == h[n].parent IN
         IF \E i \in DOMAIN h[p].kids : h[p].kids[i] = n
         THEN CHOOSE i \in DOMAIN h[p].kids : h[p].kids[i] = n ELSE 0

\* n, its parent, and so on up to the root.
Ancestors(h, n) ==
    LET Up[k \in 0..MaxSettings] ==
          IF k = 0 THEN <<n>>
          ELSE LET up == Up[k - 1]  p == h[up[Len(up)]].parent IN
               IF p = Null THEN up ELSE Append(up, p)
    IN  Up[MaxSettings]

\* __constructPath: the steps from the root to the setting.
ConstructPath(h, n) ==
    LET up == Ancestors(h, n)  depth == Len(up) - 1 IN
    [k \in 1..depth |->
       LET m == up[depth - k + 1] IN
       IF h[m].name # NoName THEN [name |-> h[m].name, index |-> 0]
                             ELSE [name |-> NoName, index |-> SettingIndex(h, m)]]
-----------------------------------------------------------------------------
(***************************************************************************)
(* What a heap must look like.                                             *)
(***************************************************************************)
\* Parents and lists agree, nobody is in two places, everything hangs from the root.
FamilyAgrees(h) ==
    /\ \A n \in Live(h) \ {Root} :
         /\ h[n].parent \in Live(h)
         /\ Cardinality({i \in DOMAIN h[h[n].parent].kids :
                           h[h[n].parent].kids[i] = n}) = 1
    /\ \A p \in Live(h) : \A i \in DOMAIN h[p].kids : h[h[p].kids[i]].parent = p
    /\ h[Root].type = "GROUP" /\ h[Root].parent = Null
    /\ Subtree(h, Root) = Live(h)

\* Nothing is stored past the memory of a list, and only aggregates have one.
ListsFit(h) ==
    \A n \in Settings : /\ Len(h[n].kids) <= h[n].room
                        /\ h[n].room > 0 => h[n].type \in Aggregates

NamesAreUnique(h) ==
    \A p \in Live(h) : \A i, j \in DOMAIN h[p].kids :
        /\ i # j /\ h[h[p].kids[i]].name # NoName =>
             h[h[p].kids[i]].name # h[h[p].kids[j]].name
        /\ h[p].type = "GROUP" <=> h[h[p].kids[i]].name # NoName

ArraysAreHomogeneous(h) ==
    \A p \in Live(h) : h[p].type = "ARRAY" =>
        \A i, j \in DOMAIN h[p].kids : /\ h[h[p].kids[i]].type \in Scalars
                                       /\ h[h[p].kids[i]].type = h[h[p].kids[j]].type
=============================================================================
