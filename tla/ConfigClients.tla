---------------------------- MODULE ConfigClients ----------------------------
(***************************************************************************)
(* A configuration and the program that uses it, through the C interface   *)
(* (lib/libconfig.c) or through the C++ classes Config and Setting         *)
(* (lib/libconfigcpp.c++, lib/libconfig.h++), as hmm.hpp and               *)
(* LogisticRegression.hpp do.  A C++ Setting is made when a setting is     *)
(* first reached, is remembered in the hook of the C setting, copies its   *)
(* type, and is deleted by the destructor that the C code calls.           *)
(*                                                                         *)
(* An action is a call.  A call that throws builds the path of the setting *)
(* in its message, which reaches, and so wraps, every setting above it.    *)
(***************************************************************************)
EXTENDS Settings, Functions

CONSTANTS BadName,    \* a name that config_setting_add refuses
          KindsAsked, \* bound: kinds of values that are asked for
          TypesTried, \* bound: types that are added
          FormatsTried, \* bound: formats that are set
          Objects     \* bound: C++ Settings that can exist at a time

ASSUME ClientsAssumption ==
    /\ BadName \notin Names \cup {NoName} /\ TypesTried \subseteq Types
    /\ KindsAsked \subseteq Scalars
    /\ FormatsTried \subseteq Formats
    /\ Objects \in Nat /\ MaxSettings <= Objects   \* objects are not what runs out first

VARIABLES
    api,        \* the interface the program uses: "C" or "C++"
    heap,       \* the settings
    objs,       \* the C++ Setting at each address, or NoObject
    auto,       \* CONFIG_OPTION_AUTOCONVERT
    default,    \* config->default_format
    destructor  \* whether config->destructor is set

vars == <<api, heap, objs, auto, default, destructor>>

NoObject == [setting |-> Null, type |-> "FREE"]
Object == [setting : Settings, type : Types] \cup {NoObject}

World == [heap |-> heap, objs |-> objs]
Become(w) == /\ heap' = w.heap
             /\ objs' = w.objs
             /\ UNCHANGED <<api, auto, default, destructor>>
InC == api = "C"
InCpp == api = "C++"

-----------------------------------------------------------------------------
(***************************************************************************)
(* Setting::wrapSetting, and Config::ConfigDestructor applied to the hooks *)
(* of the settings ns, which a call has just destroyed.                    *)
(***************************************************************************)
Wrapped(w, n) ==
    IF w.heap[n].hook # Null THEN w
    ELSE LET free == {o \in 1..Objects : w.objs[o] = NoObject}
             o == IF n \in free THEN n ELSE CHOOSE o \in free : TRUE IN
         [heap |-> [w.heap EXCEPT ![n].hook = o],
          objs |-> [w.objs EXCEPT ![o] = [setting |-> n, type |-> w.heap[n].type]]]

Released(h, ns) ==
    [o \in 1..Objects |-> IF destructor /\ o \in Hooks(h, ns) THEN NoObject ELSE objs[o]]

\* A SettingException about n: __constructPath calls getParent() all the way up.
Thrown(w, n) ==
    LET up == Ancestors(w.heap, n)
        To[k \in 1..Len(up)] == IF k = 1 THEN w ELSE Wrapped(To[k - 1], up[k])
    IN  To[Len(up)]

Handle(n) == heap[n].hook # Null        \* the program has a Setting & for n
TypeOf(n) == objs[heap[n].hook].type    \* its _type

\* Setting::assertType
Admits(held, type) ==
    \/ type = held
    \/ auto /\ held \in Numbers /\ type \in Numbers
TypeIs(n, type) == Admits(TypeOf(n), type)

-----------------------------------------------------------------------------
(***************************************************************************)
(* The C++ interface.                                                      *)
(***************************************************************************)
Paths == {ConstructPath(heap, n) : n \in Live(heap)}
\* Config::lookup and Config::getRoot (the empty path).  A path that leads nowhere throws
\* an exception that knows no setting and changes nothing, so only the others are tried.
ConfigLookup(path) ==
    /\ LET n == LookupFrom(heap, Root, path) IN n # Null /\ Become(Wrapped(World, n))

\* lookupValue: what the conversion throws is caught, but it was thrown.
Converted(w, n, kind) ==
    IF Admits(w.objs[w.heap[n].hook].type, kind) THEN w ELSE Thrown(w, n)
ConfigLookupValue(path, kind) ==
    /\ LET n == LookupFrom(heap, Root, path) IN
       n # Null /\ Become(Converted(Wrapped(World, n), n, kind))
SettingLookupValue(n, name, kind) ==
    /\ Handle(n)
    /\ LET m == GetMember(heap, n, name) IN
       Become(IF TypeIs(n, "GROUP") /\ m # Null THEN Converted(Wrapped(World, m), m, kind)
              ELSE Thrown(World, n))
SettingGetParent(n) ==
    /\ Handle(n) /\ heap[n].parent # Null
    /\ Become(Wrapped(World, heap[n].parent))

\* operator[] with an index, with a key.
SettingAt(n, i) ==
    /\ Handle(n)
    /\ Become(IF TypeOf(n) \in Aggregates /\ GetElem(heap, n, i) # Null
              THEN Wrapped(World, GetElem(heap, n, i)) ELSE Thrown(World, n))
SettingNamed(n, name) ==
    /\ Handle(n)
    /\ Become(IF TypeIs(n, "GROUP") /\ GetMember(heap, n, name) # Null
              THEN Wrapped(World, GetMember(heap, n, name)) ELSE Thrown(World, n))

\* The conversion operators change nothing unless they throw.
SettingGet(n, kind) ==
    /\ Handle(n) /\ ~TypeIs(n, kind)
    /\ Become(Thrown(World, n))

\* operator= : what the C setter refuses after assertType accepted is ignored.
SettingAssign(n, kind, v) ==
    /\ Handle(n)
    /\ IF ~TypeIs(n, kind) THEN Become(Thrown(World, n))
       ELSE /\ SetAccepts(heap[n].type, kind, auto)
            /\ \E s \in SetResults(heap[n], kind, v) :
                 Become([World EXCEPT !.heap[n] = s])

SettingSetFormat(n, f) ==
    /\ Handle(n) /\ CanSetFormat(heap[n])
    /\ Become([World EXCEPT !.heap[n].fmt =
                 IF TypeOf(n) \in {"INT", "INT64"} THEN f ELSE "DEFAULT"])

SettingRemove(n, name) ==
    /\ Handle(n)
    /\ IF TypeIs(n, "GROUP") /\ CanRemove(heap, n, name)
       THEN Become([heap |-> RemoveNamed(heap, n, name),
                    objs |-> Released(heap, Subtree(heap, GetMember(heap, n, name)))])
       ELSE Become(Thrown(World, n))
SettingRemoveAt(n, i) ==
    /\ Handle(n)
    /\ IF TypeOf(n) \in Aggregates /\ CanRemoveElem(heap, n, i)
       THEN Become([heap |-> RemoveElem(heap, n, i),
                    objs |-> Released(heap, Subtree(heap, GetElem(heap, n, i)))])
       ELSE Become(Thrown(World, n))

SettingAdd(n, name, type) ==
    /\ Handle(n) /\ HasRoom(heap)
    /\ Become(IF TypeIs(n, "GROUP") /\ type # "NONE" /\ CanAdd(heap, n, name)
              THEN Wrapped([World EXCEPT !.heap = Add(heap, n, name, type)], Address(heap))
              ELSE Thrown(World, n))

\* add without a name: the type of an array is that of its first element, whose
\* Setting operator[](0) makes.
AppendAccepts(n, type) ==
    \/ TypeOf(n) = "LIST"
    \/ /\ TypeOf(n) = "ARRAY"
       /\ IF heap[n].kids = <<>> THEN type \in Scalars
          ELSE type = heap[heap[n].kids[1]].type
Looked(n) == IF TypeOf(n) = "ARRAY" /\ heap[n].kids # <<>>
             THEN Wrapped(World, heap[n].kids[1]) ELSE World
SettingAppend(n, type) ==
    /\ Handle(n) /\ HasRoom(heap)
    /\ IF AppendAccepts(n, type)
       THEN Become(Wrapped([Looked(n) EXCEPT !.heap = Add(@, n, NoName, type)],
                           Address(heap)))
       ELSE LET up == Ancestors(heap, n)
                To[k \in 1..Len(up)] ==
                  IF k = 1 THEN Looked(n) ELSE Wrapped(To[k - 1], up[k])
            IN  Become(To[Len(up)])

-----------------------------------------------------------------------------
(***************************************************************************)
(* The C interface.  A group is given a name for a new member.             *)
(***************************************************************************)
CAdd(n, name, type) ==
    /\ HasRoom(heap)
    /\ heap[n].type = "GROUP" => name # NoName
    /\ CanAdd(heap, n, name)
    /\ Become([World EXCEPT !.heap = Add(@, n, name, type)])

CRemove(n, name) ==
    /\ CanRemove(heap, n, name)
    /\ Become([heap |-> RemoveNamed(heap, n, name),
               objs |-> Released(heap, Subtree(heap, GetMember(heap, n, name)))])
CRemoveElem(n, i) ==
    /\ CanRemoveElem(heap, n, i)
    /\ Become([heap |-> RemoveElem(heap, n, i),
               objs |-> Released(heap, Subtree(heap, GetElem(heap, n, i)))])

CSet(n, kind, v) ==
    /\ SetAccepts(heap[n].type, kind, auto)
    /\ \E s \in SetResults(heap[n], kind, v) : Become([World EXCEPT !.heap[n] = s])

CSetElem(n, i, kind, v) ==
    /\ CanSetElem(heap, n, i, kind, auto)
    /\ i = 0 => HasRoom(heap)
    /\ \E h \in SetElemResults(heap, n, i, kind, v) : Become([World EXCEPT !.heap = h])

CSetFormat(n, f) ==
    /\ CanSetFormat(heap[n])
    /\ Become([World EXCEPT !.heap[n].fmt = f])

(***************************************************************************)
(* config_setting_copy (contrib/copy_setting.c).  The elements of arrays   *)
(* and lists are added by the setters, which know no setting without a     *)
(* type and refuse, in an array, a scalar of another type than the first   *)
(* element's.  An integer that is refused is a null pointer to             *)
(* config_setting_set_format: the program does not copy such an array, nor *)
(* a setting into itself.                                                  *)
(***************************************************************************)
Typed(m) == Only(heap[m].kids, {e \in Settings : heap[e].type # "NONE"})
CopiedKids(m) ==
    CASE heap[m].type = "LIST" -> Typed(m)
      [] heap[m].type = "ARRAY" ->
           Only(Typed(m), {e \in Settings :
                             heap[e].type \in Aggregates \cup {heap[Typed(m)[1]].type}})
      [] OTHER -> heap[m].kids
\* The settings without what a copy leaves out.
Sifted == [m \in Settings |-> [heap[m] EXCEPT !.kids = CopiedKids(m)]]
\* Where the allocator may put the copies of a set of settings.
Places(ms) == Injection(ms, Settings \ Live(heap))
Copied(p, n) ==
    LET ms == Subtree(Sifted, n)
        place == CHOOSE f \in Places(ms) : TRUE
        Copy(m) ==
          LET s == Sifted[m]
              into == IF m = n THEN p ELSE s.parent
          IN  [NewSetting(s.type, AddedName(heap, into, s.name),
                          IF m = n THEN p ELSE place[s.parent])
               EXCEPT !.val = s.val, !.fmt = s.fmt,
                      !.kids = [i \in DOMAIN s.kids |-> place[s.kids[i]]],
                      !.room = CHUNK_SIZE * ((Len(s.kids) + CHUNK_SIZE - 1) \div CHUNK_SIZE)]
        added == ListAdd(heap, p, place[n])
    IN  [a \in Settings |->
           IF \E m \in ms : place[m] = a THEN Copy(CHOOSE m \in ms : place[m] = a) ELSE added[a]]
CCopy(p, n) ==
    /\ heap[p].type \in {"GROUP", "LIST"}
    /\ heap[p].type = "GROUP" => heap[n].name # NoName
    /\ CanAdd(heap, p, heap[n].name)
    /\ p \notin Subtree(heap, n)
    /\ \A m \in Subtree(Sifted, n) : heap[m].type = "ARRAY" =>
         \A i \in DOMAIN heap[m].kids : heap[heap[m].kids[i]].type \in {"INT", "INT64"} =>
           \E j \in DOMAIN CopiedKids(m) : CopiedKids(m)[j] = heap[m].kids[i]
    /\ Places(Subtree(Sifted, n)) # {}
    /\ Become([World EXCEPT !.heap = Copied(p, n)])

\* config_setting_set_hook with an object of the program's own, as the C++ code does.
CSetHook(n) == Become(Wrapped(World, n))

-----------------------------------------------------------------------------
(***************************************************************************)
(* The configuration.  To read is to destroy what is there and to start    *)
(* anew: __config_read keeps the destructor and the flags, and loses the   *)
(* default format.  Here the file that is read is empty (ConfigReader has  *)
(* the others); a file that cannot be opened changes no setting.           *)
(***************************************************************************)
SetAutoConvert(b) == auto' = b /\ UNCHANGED <<api, heap, objs, default, destructor>>
SetDefaultFormat(f) == default' = f /\ UNCHANGED <<api, heap, objs, auto, destructor>>

\* Mutant of ReadEmptyFile: config_destroy runs after config_init cleared the destructor.
ReadEmptyFileUnhooked ==
    /\ heap' = EmptyHeap
    /\ objs' = objs
    /\ default' = "DEFAULT"
    /\ UNCHANGED <<api, auto, destructor>>
ReadEmptyFile ==
    /\ heap' = EmptyHeap
    /\ objs' = Released(heap, Live(heap))
    /\ default' = "DEFAULT"
    /\ UNCHANGED <<api, auto, destructor>>

\* ~Config() and the constructor of the next Config.
Renew ==
    /\ heap' = EmptyHeap
    /\ objs' = Released(heap, Live(heap))
    /\ default' = "DEFAULT" /\ auto' = FALSE /\ destructor' = TRUE
    /\ UNCHANGED api

Init ==
    /\ api \in {"C", "C++"}
    /\ heap = EmptyHeap
    /\ objs = [o \in 1..Objects |-> NoObject]
    /\ auto = FALSE /\ default = "DEFAULT" /\ destructor = TRUE

CppNext ==
    \/ \E path \in Paths :
         ConfigLookup(path) \/ \E kind \in KindsAsked : ConfigLookupValue(path, kind)
    \/ \E n \in {m \in Live(heap) : Handle(m)} :
         \/ \E i \in 1..MaxSettings : SettingAt(n, i) \/ SettingRemoveAt(n, i)
         \/ SettingGetParent(n)
         \/ \E name \in Names :
              \/ \E kind \in KindsAsked : SettingLookupValue(n, name, kind)
              \/ SettingNamed(n, name) \/ SettingRemove(n, name)
         \/ \E kind \in KindsAsked : SettingGet(n, kind)
         \/ \E kind \in Scalars \cap TypesTried : \E v \in ValuesOf(kind) :
              SettingAssign(n, kind, v)
         \/ \E f \in FormatsTried : SettingSetFormat(n, f)
         \/ \E type \in TypesTried :
              \/ \E name \in Names \cup {BadName} : SettingAdd(n, name, type)
              \/ SettingAppend(n, type)

CNext ==
    \E n \in Live(heap) :
        \/ \E i \in 1..MaxSettings : CRemoveElem(n, i)
        \/ \E name \in Names : CRemove(n, name)
        \/ \E kind \in Scalars \cap TypesTried : \E v \in ValuesOf(kind) :
             CSet(n, kind, v) \/ \E i \in 0..MaxSettings : CSetElem(n, i, kind, v)
        \/ \E f \in FormatsTried : CSetFormat(n, f)
        \/ \E type \in TypesTried, name \in Names \cup {BadName, NoName} :
             CAdd(n, name, type)
        \/ CSetHook(n)
        \/ \E p \in Live(heap) : CCopy(p, n)

Next ==
    \/ InCpp /\ CppNext
    \/ InC /\ CNext
    \/ \E b \in BOOLEAN : SetAutoConvert(b)
    \/ \E f \in FormatsTried : SetDefaultFormat(f)
    \/ ReadEmptyFile \/ Renew

Spec == Init /\ [][Next]_vars

-----------------------------------------------------------------------------
\* The settings form one tree whose lists and parents agree, names are unique in a
\* group, no list is written past its memory, and, through the C++ interface, the
\* elements of an array are scalars of one type.
TreeIsSound ==
    /\ FamilyAgrees(heap) /\ ListsFit(heap) /\ NamesAreUnique(heap)
    /\ InCpp => ArraysAreHomogeneous(heap)

\* A Setting exists exactly as long as the setting it stands for, there is one for
\* each, and the type it copied is still that of the setting.
WrappersMatchSettings ==
    /\ \A o \in 1..Objects : objs[o] # NoObject =>
         /\ objs[o].setting \in Live(heap)
         /\ heap[objs[o].setting].hook = o
         /\ InCpp => objs[o].type = heap[objs[o].setting].type
    /\ \A n \in Live(heap) : Handle(n) => objs[heap[n].hook].setting = n

\* The path that getPath() gives for a setting leads config_lookup back to it, and the
\* typed lookups by path, by name and by index give what its own getter gives.
PathsLeadHome ==
    \A n \in Live(heap) :
        LET path == ConstructPath(heap, n)  p == heap[n].parent IN
        /\ LookupFrom(heap, Root, path) = n
        /\ \A kind \in KindsAsked :
             LET own == Get(heap[n], kind, auto) IN
             /\ LookupValue(heap, path, kind, auto) = own
             /\ p # Null => ElemValue(heap, p, SettingIndex(heap, n), kind, auto) = own
             /\ heap[n].name # NoName =>
                  MemberValue(heap, p, heap[n].name, kind, auto) = own

\* The numbers of a kind: the doubles go beyond the integers.
RangeOf == [INT |-> Ints, INT64 |-> Longs,
            FLOAT |-> {v \in -(2 * LongMax + 4)..2 * LongMax + 4 : IsDouble(v)}]

\* What the getter of a kind may give back of a number v, which the setter of that kind
\* stored in a setting of that type.
GivenBack(kind, type, v, back) ==
    CASE kind = "INT64" /\ type = "INT" -> back = IF v \in Ints THEN v ELSE 0
      [] kind # "FLOAT" /\ type = "FLOAT" ->     \* the mantissa, and then the range
           /\ Fits(v, FloatExact) => back = v
           /\ {v - 1, v + 1} \subseteq RangeOf[kind] => back \in v - 1..v + 1
      [] kind = "FLOAT" /\ type # "FLOAT" ->     \* less than 1 is lost
           \/ IF v >= 0 THEN back \in {v - 1, v} ELSE back \in {v, v + 1}
           \/ Whole(v) \notin RangeOf[type]
      [] OTHER -> back = v

\* Every integer fits the type of its setting, what a setter accepts its getter gives back,
\* as far as the type of the setting can hold it, and the three getters agree: the narrow
\* integer is the wide one, or 0 if it is not an int; of a FLOAT they are the same if it is
\* an int but for its fraction; the floating point number is that of the wide integer but
\* for its fraction, if a double can hold it.
NumbersSurvive ==
    \A n \in Live(heap) :
        LET s == heap[n] IN
        /\ s.type = "INT" => s.val \in Ints
        /\ s.type = "INT64" => s.val \in Longs
        /\ \A kind \in {k \in Numbers : SetAccepts(s.type, k, auto)} :
             \A v \in RangeOf[kind] : \A t \in SetResults(s, kind, v) :
                 /\ Get(t, kind, auto) # {}
                 /\ \A back \in Get(t, kind, auto) : GivenBack(kind, t.type, v, back)
        /\ \A narrow \in GetInt(s, auto), wide \in GetInt64(s, auto) :
             IF s.type = "FLOAT" THEN Whole(s.val) \in Ints => narrow = wide
                                 ELSE narrow = IF wide \in Ints THEN wide ELSE 0
        /\ \A wide \in GetInt64(s, auto), float \in GetFloat(s, auto) :
             Fits(wide, DoubleExact) /\ Whole(float) \in Longs => Whole(float) = wide
=============================================================================
