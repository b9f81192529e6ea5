---------------------------- MODULE ConfigProofs ----------------------------
(***************************************************************************)
(* Proofs about a configuration, for heaps of any size.                    *)
(*                                                                         *)
(* First the program that uses it: for any names and any calls, through C  *)
(* or through C++, the settings stay a tree, the C++ objects stay those of *)
(* the settings, an integer fits its setting and a path leads back to      *)
(* where it came from.                                                     *)
(*                                                                         *)
(* Then reading one: for any text, any stack of included files and any     *)
(* error, the context of the parser's actions is where the parser is, and  *)
(* no buffer and no stream is lost.                                        *)
(***************************************************************************)
EXTENDS ConfigClients, ConfigReader, SettingsProofs

-----------------------------------------------------------------------------
(* The inductive invariant, said of a heap h and of the objects ob under   *)
(* the interface a.  A C++ Setting has the address of its setting: that is *)
(* what makes room for it whenever there is none.                          *)

ArraysInv(h) ==
  \A p \in Live(h) : h[p].type = "ARRAY" =>
    \A x, y \in Kids(h, p) : h[x].type \in Scalars /\ h[x].type = h[y].type

Ranged(s) == /\ s.type = "INT" => s.val \in Ints
             /\ s.type = "INT64" => s.val \in Longs
NumbersInv(h) == \A n \in Live(h) : Ranged(h[n])

WrapInv(a, h, ob) ==
  /\ ob \in [1 .. Objects -> Object]
  /\ \A n \in Live(h) : h[n].hook = Null \/ (h[n].hook = n /\ ob[n].setting = n)
  /\ \A o \in 1 .. Objects : ob[o] # NoObject =>
       /\ o \in Live(h) /\ ob[o].setting = o /\ h[o].hook = o
       /\ a = "C++" => ob[o].type = h[o].type

Sound(a, h, ob) ==
  /\ TreeInv(h) /\ NumbersInv(h) /\ WrapInv(a, h, ob)
  /\ a = "C++" => ArraysInv(h)

Inv == /\ api \in {"C", "C++"} /\ auto \in BOOLEAN /\ destructor = TRUE
       /\ Sound(api, heap, objs)

\* Two heaps that differ in what their settings hold and in their hooks at most.
SameTree(g, h) ==
  /\ g \in Heaps
  /\ \A m \in Settings : Alike(g[m], h[m]) /\ g[m].kids = h[m].kids /\ g[m].room = h[m].room

\* The addresses, and the objects at them.
LEMMA Addresses ==
  /\ Settings \subseteq 1 .. Objects /\ Null \notin Settings /\ Null = 0
  /\ Root \in Settings /\ Settings \subseteq Nat
  /\ NoObject \in Object /\ NoObject.setting = Null
  /\ \A n \in Settings, type \in Types : /\ [setting |-> n, type |-> type] \in Object
                                         /\ [setting |-> n, type |-> type] # NoObject
<1>1. MaxSettings \in Nat \ {0} /\ Objects \in Nat /\ MaxSettings <= Objects
  BY SettingsAssumption, ClientsAssumption DEF SettingsAssumption, ClientsAssumption
<1>2. /\ Settings \subseteq 1 .. Objects /\ Null \notin Settings /\ Null = 0
      /\ Root \in Settings /\ Settings \subseteq Nat
  BY <1>1 DEF Settings, Null, Root
<1>3. NoObject \in Object /\ NoObject.setting = Null
  BY DEF NoObject, Object
<1>4. ASSUME NEW n \in Settings, NEW type \in Types
      PROVE  /\ [setting |-> n, type |-> type] \in Object
             /\ [setting |-> n, type |-> type] # NoObject
  <2>1. [setting |-> n, type |-> type].setting = n
    OBVIOUS
  <2> QED
    BY <1>2, <1>3, <2>1 DEF Object
<1> QED
  BY <1>2, <1>3, <1>4

\* What the shape of a tree decides is the same in both.
LEMMA SameTreeIs ==
  ASSUME NEW h, TreeInv(h), NEW g, SameTree(g, h)
  PROVE  /\ TreeInv(g) /\ Live(g) = Live(h) /\ \A m \in Settings : Kids(g, m) = Kids(h, m)
         /\ ArraysInv(h) => ArraysInv(g)
         /\ HasRoom(g) <=> HasRoom(h)
         /\ Address(g) = Address(h)
<1>1. TreeInv(g) /\ Live(g) = Live(h) /\ \A m \in Settings : Kids(g, m) = Kids(h, m)
  BY SameShape DEF SameTree, Alike
<1>2. HasRoom(g) <=> HasRoom(h)
  BY <1>1 DEF HasRoom
<1>3. Address(g) = Address(h)
  BY <1>1 DEF Address
<1>4. ASSUME ArraysInv(h) PROVE ArraysInv(g)
  <2> SUFFICES ASSUME NEW p \in Live(g), g[p].type = "ARRAY", NEW x \in Kids(g, p), NEW y \in Kids(g, p)
               PROVE  g[x].type \in Scalars /\ g[x].type = g[y].type
    BY DEF ArraysInv
  <2>1. p \in Settings /\ p \in Live(h)
    BY <1>1 DEF Live
  <2>2. x \in Kids(h, p) /\ y \in Kids(h, p) /\ x \in Settings /\ y \in Settings
    BY <1>1, <2>1, KidsOf DEF TreeInv
  <2> QED
    BY <1>4, <2>1, <2>2 DEF ArraysInv, SameTree, Alike
<1> QED
  BY <1>1, <1>2, <1>3, <1>4
\* A C++ object for a setting: the one there is, or a new one.
LEMMA WrappedSound ==
  ASSUME NEW a, NEW h, NEW ob, Sound(a, h, ob), NEW n \in Live(h)
  PROVE  LET v == Wrapped([heap |-> h, objs |-> ob], n) IN
         /\ v = [heap |-> v.heap, objs |-> v.objs]
         /\ Sound(a, v.heap, v.objs) /\ SameTree(v.heap, h) /\ Live(v.heap) = Live(h)
<1> USE DEF Sound
<1> DEFINE w == [heap |-> h, objs |-> ob]
           free == {o \in 1 .. Objects : ob[o] = NoObject}
           g == [h EXCEPT ![n].hook = n]
           obj == [setting |-> n, type |-> h[n].type]
           v == Wrapped(w, n)
<1>0. h \in Heaps /\ n \in Settings /\ n \in 1 .. Objects /\ n # Null /\ n \in Nat
  BY Addresses DEF TreeInv, Live
<1>1. CASE h[n].hook # Null
  <2>1. v = w
    BY <1>1 DEF Wrapped
  <2>2. SameTree(h, h)
    BY <1>0 DEF SameTree, Alike
  <2> QED
    BY <2>1, <2>2
<1>2. CASE h[n].hook = Null
  <2>1. n \in free
    <3>1. ob[n] = NoObject
      BY <1>0, <1>2 DEF WrapInv
    <3> QED
      BY <1>0, <3>1
  <2>2. v = [heap |-> g, objs |-> [ob EXCEPT ![n] = obj]]
    BY <1>2, <2>1 DEF Wrapped
  <2>3. h[n] \in Setting /\ h[n].type \in Types
    BY <1>0 DEF Heaps, Live, Setting
  <2> DEFINE s == [h[n] EXCEPT !.hook = n]
  <2>4. s \in Setting /\ Alike(s, h[n]) /\ s.kids = h[n].kids /\ s.room = h[n].room
        /\ s.val = h[n].val /\ s.hook = n
    BY <1>0, <2>3 DEF Setting, Alike
  <2>5. g = [h EXCEPT ![n] = s]
    BY <1>0 DEF Heaps
  <2> HIDE DEF s, g
  <2>6. g \in Heaps /\ g[n] = s /\ \A m \in Settings \ {n} : g[m] = h[m]
    BY <1>0, <2>4, <2>5 DEF Heaps
  <2>7. SameTree(g, h)
    BY <2>4, <2>6 DEF SameTree, Alike
  <2>8. /\ TreeInv(g) /\ Live(g) = Live(h)
        /\ ArraysInv(h) => ArraysInv(g)
    BY <2>7, SameTreeIs
  <2>9. NumbersInv(g)
    BY <2>4, <2>6, <2>8 DEF NumbersInv, Ranged, Alike, Live
  <2>10. obj \in Object /\ obj # NoObject /\ obj.setting = n /\ obj.type = h[n].type
    BY <1>0, <2>3, Addresses
  <2>11. WrapInv(a, g, [ob EXCEPT ![n] = obj])
    <3> DEFINE ov == [ob EXCEPT ![n] = obj]
    <3> HIDE DEF obj
    <3>1. ob \in [1 .. Objects -> Object]
      BY DEF WrapInv
    <3>2. ov \in [1 .. Objects -> Object] /\ ov[n] = obj
          /\ \A o \in 1 .. Objects : o # n => ov[o] = ob[o]
      BY <1>0, <2>10, <3>1
    <3> HIDE DEF ov
    <3>3. \A m \in Live(g) : g[m].hook = Null \/ (g[m].hook = m /\ ov[m].setting = m)
      <4> TAKE m \in Live(g)
      <4>1. m \in Settings /\ m \in 1 .. Objects /\ m \in Live(h)
        BY <2>8, Addresses DEF Live
      <4>2. CASE m = n
        BY <2>4, <2>6, <2>10, <3>2, <4>2
      <4>3. CASE m # n
        BY <2>6, <3>2, <4>1, <4>3 DEF WrapInv
      <4> QED
        BY <4>2, <4>3
    <3>4. ASSUME NEW o \in 1 .. Objects, ov[o] # NoObject
          PROVE  /\ o \in Live(g) /\ ov[o].setting = o /\ g[o].hook = o
                 /\ a = "C++" => ov[o].type = g[o].type
      <4>1. CASE o = n
        BY <2>4, <2>6, <2>8, <2>10, <3>2, <4>1 DEF Alike
      <4>2. CASE o # n
        <5>1. ov[o] = ob[o] /\ o \in Live(h)
          BY <3>2, <3>4, <4>2 DEF WrapInv
        <5>2. g[o] = h[o]
          BY <2>6, <4>2, <5>1 DEF Live
        <5> QED
          BY <2>8, <3>4, <5>1, <5>2 DEF WrapInv
      <4> QED
        BY <4>1, <4>2
    <3> QED
      BY <3>2, <3>3, <3>4 DEF WrapInv, ov
  <2> HIDE DEF v, obj
  <2>12. v.heap = g /\ v.objs = [ob EXCEPT ![n] = obj]
    BY <2>2
  <2> QED
    BY <2>2, <2>7, <2>8, <2>9, <2>11, <2>12 DEF v
<1> QED
  BY <1>1, <1>2

\* The worlds with the same tree, and as sound, after some objects were made.
Worlds(a, h) ==
  {w \in [heap : Heaps, objs : [1 .. Objects -> Object]] :
     Sound(a, w.heap, w.objs) /\ SameTree(w.heap, h) /\ Live(w.heap) = Live(h)}

\* An object more is such a change.
LEMMA WrappedWorld ==
  ASSUME NEW a, NEW h, NEW w \in Worlds(a, h), NEW n \in Live(h)
  PROVE  Wrapped(w, n) \in Worlds(a, h)
<1> DEFINE g == w.heap
           u == Wrapped([heap |-> g, objs |-> w.objs], n)
<1>1. w = [heap |-> g, objs |-> w.objs] /\ Sound(a, g, w.objs) /\ SameTree(g, h)
      /\ Live(g) = Live(h)
  BY DEF Worlds
<1> HIDE DEF g
<1>2. u = [heap |-> u.heap, objs |-> u.objs] /\ Sound(a, u.heap, u.objs)
      /\ SameTree(u.heap, g) /\ Live(u.heap) = Live(g)
  BY <1>1, WrappedSound
<1>3. SameTree(u.heap, h)
  BY <1>1, <1>2 DEF SameTree, Alike
<1>4. u.heap \in Heaps /\ u.objs \in [1 .. Objects -> Object]
  BY <1>2 DEF Sound, TreeInv, WrapInv
<1>5. Wrapped(w, n) = u
  BY <1>1
<1> HIDE DEF u
<1>6. u \in Worlds(a, h)
  BY <1>1, <1>2, <1>3, <1>4 DEF Worlds
<1> QED
  BY <1>5, <1>6

\* What throws builds a path, and leaves objects for what is above.
LEMMA ClimbSound ==
  ASSUME NEW a, NEW h, TreeInv(h), NEW w \in Worlds(a, h),
         NEW up \in Seq(Live(h)), Len(up) \in Nat, Len(up) >= 1,
         NEW last,
         last = LET To[k \in 1 .. Len(up)] == IF k = 1 THEN w ELSE Wrapped(To[k - 1], up[k])
                IN  To[Len(up)]
  PROVE  last \in Worlds(a, h)
<1> DEFINE N == Len(up) - 1
           T == Worlds(a, h)
           next(k, v) == Wrapped(v, up[k + 1])
           Climb(f) == [k \in 1 .. Len(up) |-> IF k = 1 THEN w ELSE Wrapped(f[k - 1], up[k])]
           steps == {t \in Nat \X T \X T : t[3] = next(t[1], t[2])}
           To == CHOOSE f : f = Climb(f)
<1>1. N \in Nat /\ \A k \in 1 .. N : k + 1 \in 1 .. Len(up)
  OBVIOUS
<1>2. \A k \in 1 .. N, v \in T : next(k, v) \in T
  <2> SUFFICES ASSUME NEW k \in 1 .. N, NEW v \in T PROVE next(k, v) \in T
    OBVIOUS
  <2>1. up[k + 1] \in Live(h)
    BY <1>1, ElementOfSeq
  <2> QED
    BY <2>1, WrappedWorld
<1> HIDE DEF N, T, next
<1>3. \A k \in 1 .. N, v \in T : \E u \in T : <<k, v, u>> \in steps
  <2> SUFFICES ASSUME NEW k \in 1 .. N, NEW v \in T PROVE <<k, v, next(k, v)>> \in steps
    BY <1>2
  <2> QED
    BY <1>1, <1>2
<1>4. PICK f : f \in [0 .. N -> T] /\ f[0] = w /\ \A k \in 1 .. N : <<k, f[k - 1], f[k]>> \in steps
  <2> HIDE DEF steps
  <2>1. w \in T
    BY DEF T
  <2>2. PICK f : Recurs(f, N, T, w, steps)
    BY <1>1, <1>3, <2>1, Recursion
  <2> QED
    BY <2>2 DEF Recurs
<1>5. \A k \in 1 .. N : f[k] = next(k, f[k - 1])
  <2> TAKE k \in 1 .. N
  <2>1. <<k, f[k - 1], f[k]>> \in steps
    BY <1>4
  <2> QED
    BY <2>1
<1> DEFINE g == [k \in 1 .. Len(up) |-> f[k - 1]]
<1>6. \A k \in 1 .. Len(up) : k # 1 => k - 1 \in 1 .. N /\ k - 1 \in 1 .. Len(up) /\ k - 1 + 1 = k
  BY <1>1 DEF N
<1>7. g = Climb(g)
  <2>1. \A k \in 1 .. Len(up) : g[k] = IF k = 1 THEN w ELSE Wrapped(g[k - 1], up[k])
    <3> TAKE k \in 1 .. Len(up)
    <3>1. CASE k = 1
      BY <1>4, <3>1
    <3>2. CASE k # 1
      <4>1. f[k - 1] = Wrapped(f[k - 1 - 1], up[k])
        BY <1>5, <1>6, <3>2 DEF next
      <4>2. g[k] = f[k - 1] /\ g[k - 1] = f[k - 1 - 1]
        BY <1>6, <3>2
      <4> HIDE DEF g
      <4> QED
        BY <3>2, <4>1, <4>2
    <3> QED
      BY <3>1, <3>2
  <2> HIDE DEF N
  <2>2. Climb(g) = [k \in 1 .. Len(up) |-> g[k]]
    BY <2>1, Zenon
  <2>3. g = [k \in 1 .. Len(up) |-> g[k]]
    OBVIOUS
  <2> QED
    BY <2>2, <2>3
<1>8. To = Climb(To)
  <2>1. \E x : x = Climb(x)
    BY <1>7
  <2> HIDE DEF Climb
  <2> QED
    BY <2>1
<1>9. last = To[Len(up)]
  OBVIOUS
<1> HIDE DEF To
<1>10. To[1] = w
  BY <1>8
<1>11. \A k \in 1 .. N : To[k + 1] = next(k, To[k])
  <2> TAKE k \in 1 .. N
  <2>1. k + 1 \in 1 .. Len(up) /\ k + 1 # 1 /\ k + 1 - 1 = k
    BY <1>1
  <2>2. \A j \in 1 .. Len(up) : To[j] = Climb(To)[j]
    BY <1>8, Zenon
  <2>3. \A j \in 1 .. Len(up) : j # 1 => Climb(To)[j] = Wrapped(To[j - 1], up[j])
    BY Zenon
  <2> HIDE DEF Climb
  <2> QED
    BY <2>1, <2>2, <2>3 DEF next
<1> DEFINE holds == {k \in 0 .. N : To[k + 1] \in T}
<1>12. 0 \in holds
  BY <1>1, <1>10 DEF T
<1>13. \A k \in 1 .. N : k - 1 \in holds => k \in holds
  <2> TAKE k \in 1 .. N
  <2>1. k \in 0 .. N /\ k - 1 + 1 = k
    BY <1>1
  <2>2. To[k] \in T => To[k + 1] \in T
    BY <1>2, <1>11
  <2> QED
    BY <2>1, <2>2
<1>14. 0 .. N \subseteq holds
  <2> HIDE DEF holds
  <2> QED
    BY <1>1, <1>12, <1>13, Stepwise
<1>15. N \in 0 .. N /\ N + 1 = Len(up)
  BY <1>1 DEF N
<1>16. To[Len(up)] \in T
  BY <1>14, <1>15
<1> QED
  BY <1>9, <1>16 DEF T
\* A call that throws, whatever it did before.
LEMMA ThrownWorld ==
  ASSUME NEW a, NEW h, TreeInv(h), NEW w \in Worlds(a, h), NEW n \in Live(h)
  PROVE  Thrown(w, n) \in Worlds(a, h)
<1> DEFINE up == Ancestors(w.heap, n)
           last == LET To[k \in 1 .. Len(up)] == IF k = 1 THEN w ELSE Wrapped(To[k - 1], up[k])
                   IN  To[Len(up)]
<1>1. TreeInv(w.heap) /\ Live(w.heap) = Live(h)
  BY DEF Worlds, Sound
<1>2. WayUp(up, w.heap, n)
  BY <1>1, AncestorsProperties
<1>3. Thrown(w, n) = last
  BY DEF Thrown
<1> HIDE DEF up
<1>4. up \in Seq(Live(h)) /\ Len(up) \in Nat /\ Len(up) >= 1
  BY <1>1, <1>2 DEF WayUp
<1>5. \A x : x = last => x \in Worlds(a, h)
  BY <1>4, ClimbSound, Zenon
<1> QED
  BY <1>3, <1>5

\* The invariant, from a world that is sound.
LEMMA Becomes ==
  ASSUME Inv, NEW w, Sound(api, w.heap, w.objs), Become(w)
  PROVE  Inv'
BY DEF Inv, Become

\* The world as it is.
LEMMA WorldIs ==
  ASSUME Inv
  PROVE  World \in Worlds(api, heap) /\ World.heap = heap /\ World.objs = objs
<1>1. heap \in Heaps /\ objs \in [1 .. Objects -> Object] /\ Sound(api, heap, objs)
  BY DEF Inv, Sound, TreeInv, WrapInv
<1>2. SameTree(heap, heap)
  BY <1>1 DEF SameTree, Alike
<1> QED
  BY <1>1, <1>2 DEF World, Worlds

\* What a Setting knows is what its setting is.
LEMMA HandleKnows ==
  ASSUME Inv, InCpp, NEW n \in Live(heap), Handle(n)
  PROVE  TypeOf(n) = heap[n].type
<1>1. WrapInv("C++", heap, objs) /\ n \in Settings
  BY DEF Inv, InCpp, Sound, Live
<1>2. heap[n].hook = n /\ objs[n].setting = n
  BY <1>1 DEF Handle, WrapInv
<1>3. objs[n] # NoObject /\ n \in 1 .. Objects
  BY <1>1, <1>2, Addresses
<1> QED
  BY <1>1, <1>2, <1>3 DEF WrapInv, TypeOf

\* A setting may change what it holds, as long as an integer fits.
LEMMA TouchedSound ==
  ASSUME NEW a, NEW h, NEW ob, Sound(a, h, ob), NEW n \in Live(h), NEW s \in Setting,
         s.parent = h[n].parent, s.name = h[n].name, s.kids = h[n].kids, s.room = h[n].room,
         s.hook = h[n].hook,
         s.type = h[n].type \/ (a = "C" /\ h[n].type = "NONE" /\ s.type \in Types),
         Ranged(s)
  PROVE  Sound(a, [h EXCEPT ![n] = s], ob)
<1> DEFINE g == [h EXCEPT ![n] = s]
<1> USE DEF Sound
<1>1. h \in Heaps /\ n \in Settings
  BY DEF TreeInv, Live
<1>2. g \in Heaps /\ g[n] = s /\ \A m \in Settings \ {n} : g[m] = h[m]
  BY <1>1 DEF Heaps
<1> HIDE DEF g
<1>3. \A m \in Settings :
        /\ g[m].parent = h[m].parent /\ g[m].name = h[m].name
        /\ g[m].kids = h[m].kids /\ g[m].room = h[m].room
        /\ g[m].hook = h[m].hook
        /\ g[m].type = h[m].type \/ (a = "C" /\ h[m].type = "NONE" /\ g[m].type \in Types)
  BY <1>2
<1>4. TreeInv(g) /\ Live(g) = Live(h) /\ \A m \in Settings : Kids(g, m) = Kids(h, m)
  BY <1>2, <1>3, SameShape
<1>5. NumbersInv(g)
  <2> SUFFICES ASSUME NEW m \in Live(g) PROVE Ranged(g[m])
    BY DEF NumbersInv
  <2>1. m \in Live(h) /\ m \in Settings
    BY <1>4 DEF Live
  <2> QED
    BY <1>2, <2>1 DEF NumbersInv
<1>6. WrapInv(a, g, ob)
  <2>1. \A m \in Live(h) : m \in Settings
    BY DEF Live
  <2>2. \A m \in Live(g) : g[m].hook = Null \/ (g[m].hook = m /\ ob[m].setting = m)
    BY <1>3, <1>4, <2>1 DEF WrapInv
  <2>3. ASSUME NEW o \in 1 .. Objects, ob[o] # NoObject
        PROVE  /\ o \in Live(g) /\ ob[o].setting = o /\ g[o].hook = o
               /\ a = "C++" => ob[o].type = g[o].type
    <3>1. o \in Live(h) /\ o \in Settings
      BY <2>1, <2>3 DEF WrapInv
    <3> QED
      BY <1>3, <1>4, <2>3, <3>1 DEF WrapInv
  <2> QED
    BY <2>2, <2>3 DEF WrapInv
<1>7. ASSUME a = "C++" PROVE ArraysInv(g)
  <2>1. \A m \in Settings : Alike(g[m], h[m]) /\ g[m].kids = h[m].kids /\ g[m].room = h[m].room
    BY <1>3, <1>7 DEF Alike
  <2>2. SameTree(g, h)
    BY <1>2, <2>1 DEF SameTree
  <2> QED
    BY <1>7, <2>2, SameTreeIs
<1> QED
  BY <1>4, <1>5, <1>6, <1>7 DEF g

\* The ranges of the types, and the numbers of the kinds.
LEMMA NumberTypes ==
  /\ IntMax \in Nat /\ LongMax \in Nat /\ FloatExact \in Nat /\ DoubleExact \in Nat
  /\ Ints \subseteq Longs /\ Longs \subseteq Int /\ 0 \in Ints
  /\ \A v \in Ints : Fits(v, DoubleExact)
  BY SettingsAssumption DEF SettingsAssumption, Ints, Longs, Fits

LEMMA ValuesAreNumbers ==
  ASSUME NEW kind \in Scalars, NEW v \in ValuesOf(kind)
  PROVE  v \in Int /\ (kind = "INT" => v \in Ints) /\ (kind = "INT64" => v \in Longs)
<1>1. Tried \subseteq Int
  BY SettingsAssumption DEF SettingsAssumption
<1>2. CASE kind \in {"INT", "BOOL"}
  BY <1>1, <1>2 DEF ValuesOf
<1>3. CASE kind = "INT64"
  BY <1>1, <1>3 DEF ValuesOf
<1>4. CASE kind = "FLOAT"
  BY <1>1, <1>4 DEF ValuesOf
<1>5. CASE kind = "STRING"
  BY <1>1, <1>5 DEF ValuesOf
<1> QED
  BY <1>2, <1>3, <1>4, <1>5 DEF Scalars, Numbers

\* What a mantissa keeps of a number, and what is left of one without its fraction.
LEMMA RoundedIs ==
  ASSUME NEW v \in Int, NEW exact \in Nat
  PROVE  /\ Rounded(v, exact) \in Int
         /\ Rounded(v, exact) \in {v - 1, v, v + 1}
         /\ Fits(v, exact) => Rounded(v, exact) = v
  BY DEF Rounded, Fits

LEMMA WholeIs ==
  ASSUME NEW v \in Int
  PROVE  /\ Whole(v) \in Int
         /\ IF v >= 0 THEN 2 * Whole(v) \in {v - 1, v} ELSE 2 * Whole(v) \in {v, v + 1}
         /\ Whole(2 * v) = v
<1>1. CASE v >= 0
  BY <1>1 DEF Whole
<1>2. CASE v < 0
  BY <1>2 DEF Whole
<1> QED
  BY <1>1, <1>2

\* What may be given to a setting of a type, and what it then holds.
LEMMA SetResultsFit ==
  ASSUME NEW s \in Setting, NEW kind \in Scalars, NEW v \in ValuesOf(kind),
         NEW t \in SetResults(s, kind, v), NEW convert \in BOOLEAN,
         SetAccepts(s.type, kind, convert)
  PROVE  /\ t \in Setting
         /\ t.parent = s.parent /\ t.name = s.name /\ t.kids = s.kids /\ t.room = s.room
         /\ t.hook = s.hook /\ t.type = IF s.type = "NONE" THEN kind ELSE s.type
         /\ Ranged(t)
<1>1. v \in Int /\ (kind = "INT" => v \in Ints) /\ (kind = "INT64" => v \in Longs)
  BY ValuesAreNumbers
<1>2. Truncated(v) \in Ints
  BY NumberTypes DEF Truncated
<1>3. Cut(v, Ints) \subseteq Ints /\ Cut(v, Longs) \subseteq Longs
  BY DEF Cut
<1>4. ToFloat(v) \in Int
  BY <1>1, RoundedIs, NumberTypes DEF ToFloat
<1> DEFINE Held == CASE kind = "INT64" /\ s.type = "INT" -> {Truncated(v)}
                     [] kind # "FLOAT" /\ s.type = "FLOAT" -> {ToFloat(v)}
                     [] kind = "FLOAT" /\ s.type = "INT" -> Cut(v, Ints)
                     [] kind = "FLOAT" /\ s.type = "INT64" -> Cut(v, Longs)
                     [] OTHER -> {v}
           type == IF s.type = "NONE" THEN kind ELSE s.type
<1>5. PICK x \in Held : t = [s EXCEPT !.type = IF @ = "NONE" THEN kind ELSE @, !.val = x]
  BY DEF SetResults
<1>6. x \in Values
  <2>1. CASE kind = "INT64" /\ s.type = "INT"
    BY <1>2, <2>1, NumberTypes DEF Values
  <2>2. CASE kind # "FLOAT" /\ s.type = "FLOAT"
    BY <1>4, <2>2 DEF Values
  <2>3. CASE kind = "FLOAT" /\ s.type = "INT"
    BY <1>3, <2>3, NumberTypes DEF Values
  <2>4. CASE kind = "FLOAT" /\ s.type = "INT64"
    BY <1>3, <2>4, NumberTypes DEF Values
  <2>5. CASE /\ ~(kind = "INT64" /\ s.type = "INT") /\ ~(kind # "FLOAT" /\ s.type = "FLOAT")
             /\ ~(kind = "FLOAT" /\ s.type = "INT") /\ ~(kind = "FLOAT" /\ s.type = "INT64")
    BY <1>1, <2>5 DEF Values
  <2> QED
    BY <2>1, <2>2, <2>3, <2>4, <2>5
<1>7. (type = "INT" => x \in Ints) /\ (type = "INT64" => x \in Longs)
  <2>1. CASE kind = "INT64" /\ s.type = "INT"
    BY <1>2, <2>1
  <2>2. CASE kind # "FLOAT" /\ s.type = "FLOAT"
    BY <2>2
  <2>3. CASE kind = "FLOAT" /\ s.type = "INT"
    BY <1>3, <2>3
  <2>4. CASE kind = "FLOAT" /\ s.type = "INT64"
    BY <1>3, <2>4
  <2>5. CASE /\ ~(kind = "INT64" /\ s.type = "INT") /\ ~(kind # "FLOAT" /\ s.type = "FLOAT")
             /\ ~(kind = "FLOAT" /\ s.type = "INT") /\ ~(kind = "FLOAT" /\ s.type = "INT64")
    <3>1. x = v
      BY <2>5
    <3>2. (type = "INT" => kind = "INT") /\ (type = "INT64" => kind = "INT64")
      <4>1. CASE s.type = "NONE"
        BY <4>1
      <4>2. CASE s.type # "NONE"
        BY <2>5, <4>2 DEF SetAccepts, Numbers
      <4> QED
        BY <4>1, <4>2
    <3> QED
      BY <1>1, <3>1, <3>2
  <2> QED
    BY <2>1, <2>2, <2>3, <2>4, <2>5
<1> HIDE DEF Held
<1>8. type \in Types \cup {"FREE"}
  BY DEF Setting, Types
<1>9. t = [s EXCEPT !.type = type, !.val = x]
  BY <1>5
<1> HIDE DEF type
<1>10. t \in Setting /\ t.parent = s.parent /\ t.name = s.name /\ t.kids = s.kids
       /\ t.room = s.room /\ t.hook = s.hook /\ t.type = type /\ t.val = x
  BY <1>6, <1>8, <1>9 DEF Setting
<1> QED
  BY <1>7, <1>10 DEF type, Ranged

\* A setting more: no object is there for it yet.
LEMMA CreateSound ==
  ASSUME NEW a, NEW h, NEW ob, Sound(a, h, ob), NEW p \in Live(h), HasRoom(h),
         h[p].type \in Aggregates, NEW name \in Names \cup {NoName}, NEW type \in Types,
         MayBeNamed(h, p, name),
         a = "C++" /\ h[p].type = "ARRAY" =>
           type \in Scalars /\ \A m \in Kids(h, p) : h[m].type = type
  PROVE  /\ Sound(a, SettingCreate(h, p, name, type), ob)
         /\ Address(h) \in Live(SettingCreate(h, p, name, type))
<1> USE DEF Sound
<1> DEFINE n == Address(h)
           g == SettingCreate(h, p, name, type)
<1>1. h \in Heaps /\ p \in Settings /\ Live(h) \subseteq Settings
  BY DEF TreeInv, Live
<1>2. /\ g \in Heaps
      /\ n \in Settings \ Live(h) /\ n # p
      /\ g[n] = NewSetting(type, name, p)
      /\ \A m \in Settings \ {p, n} : g[m] = h[m]
      /\ Alike(g[p], h[p]) /\ g[p].hook = h[p].hook /\ g[p].val = h[p].val
      /\ g[p].file = h[p].file
      /\ g[p].kids = Append(h[p].kids, n)
      /\ g[p].room = IF Len(h[p].kids) % CHUNK_SIZE = 0 THEN Len(h[p].kids) + CHUNK_SIZE
                     ELSE h[p].room
      /\ Live(g) = Live(h) \cup {n}
      /\ Kids(g, p) = Kids(h, p) \cup {n} /\ Kids(g, n) = {}
      /\ \A m \in Settings \ {p, n} : Kids(g, m) = Kids(h, m)
  BY <1>1, CreateIs
<1>3. TreeInv(g)
  BY CreateTree
<1> HIDE DEF n, g
<1>4. g[n].type = type /\ g[n].hook = Null /\ g[n].val = 0
  BY <1>1, <1>2, NewSettingIs
<1>5. \A m \in Live(h) : g[m].type = h[m].type /\ g[m].hook = h[m].hook /\ g[m].val = h[m].val
  BY <1>1, <1>2 DEF Alike
<1>6. NumbersInv(g)
  <2>1. 0 \in Ints /\ 0 \in Longs
    BY NumberTypes
  <2> QED
    BY <1>2, <1>4, <1>5, <2>1 DEF NumbersInv, Ranged
<1>7. WrapInv(a, g, ob)
  BY <1>2, <1>4, <1>5 DEF WrapInv
<1>8. ASSUME a = "C++" PROVE ArraysInv(g)
  <2> SUFFICES ASSUME NEW q \in Live(g), g[q].type = "ARRAY", NEW x \in Kids(g, q), NEW y \in Kids(g, q)
               PROVE  g[x].type \in Scalars /\ g[x].type = g[y].type
    BY DEF ArraysInv
  <2>1. q # n /\ q \in Live(h) /\ h[q].type = "ARRAY"
    BY <1>2, <1>5
  <2>2. \A m \in Kids(h, q) : m \in Live(h)
    BY <1>1, <2>1 DEF TreeInv, FamilyInv
  <2>3. \A m, z \in Kids(h, q) : g[m].type \in Scalars /\ g[m].type = g[z].type
    BY <1>5, <1>8, <2>1, <2>2 DEF ArraysInv
  <2>4. CASE q # p
    BY <1>1, <1>2, <2>1, <2>3, <2>4
  <2>5. CASE q = p
    <3>1. \A m \in Kids(h, q) : g[m].type = type
      BY <1>5, <1>8, <2>1, <2>2, <2>5
    <3> QED
      BY <1>2, <1>4, <1>8, <2>1, <2>3, <2>5, <3>1
  <2> QED
    BY <2>4, <2>5
<1> QED
  BY <1>2, <1>3, <1>6, <1>7, <1>8 DEF n, g

\* A setting and what is below it less, and the objects for them.
LEMMA RemoveSound ==
  ASSUME Inv, NEW p \in Live(heap), NEW i \in 1 .. Len(heap[p].kids)
  PROVE  LET e == heap[p].kids[i] IN
         Sound(api, SettingDestroy(ListRemove(heap, p, i), e), Released(heap, Subtree(heap, e)))
<1> DEFINE e == heap[p].kids[i]
           D == Subtree(heap, e)
           g == SettingDestroy(ListRemove(heap, p, i), e)
           ob == Released(heap, D)
<1>1. TreeInv(heap) /\ NumbersInv(heap) /\ WrapInv(api, heap, objs)
      /\ (api = "C++" => ArraysInv(heap)) /\ destructor = TRUE
  BY DEF Inv, Sound
<1>2. /\ e \in D /\ D \subseteq Live(heap) /\ Closed(heap, D)
      /\ Root \notin D /\ p \notin D
      /\ \A m \in D : m = e \/ heap[m].parent \in D
      /\ Subtree(ListRemove(heap, p, i), e) = D
  BY <1>1, BelowIsApart
<1>3. /\ g \in Heaps /\ Live(g) = Live(heap) \ D
      /\ \A m \in D : g[m] = FreeMemory /\ Kids(g, m) = {}
      /\ \A m \in Settings \ D :
           /\ Alike(g[m], heap[m]) /\ g[m].hook = heap[m].hook /\ g[m].val = heap[m].val
           /\ g[m].room = heap[m].room /\ g[m].file = heap[m].file
      /\ \A m \in Settings \ (D \cup {p}) : g[m] = heap[m] /\ Kids(g, m) = Kids(heap, m)
      /\ Kids(g, p) = Kids(heap, p) \ {e} /\ Len(g[p].kids) = Len(heap[p].kids) - 1
      /\ \A x, y \in 1 .. Len(g[p].kids) : g[p].kids[x] = g[p].kids[y] => x = y
  BY <1>1, DestroyIs
<1>4. TreeInv(g)
  BY <1>1, DestroyTree
<1>5. ob = [o \in 1 .. Objects |-> IF o \in Hooks(heap, D) THEN NoObject ELSE objs[o]]
  BY <1>1 DEF Released
<1> HIDE DEF e, D, g, ob
<1>6. Live(heap) \subseteq Settings /\ p \in Settings
  BY DEF Live
<1>7. \A m \in Live(g) : /\ m \in Settings /\ m \in Live(heap) /\ m \notin D
                         /\ g[m].type = heap[m].type /\ g[m].hook = heap[m].hook
                         /\ g[m].val = heap[m].val
  BY <1>3, <1>6 DEF Alike
<1>8. NumbersInv(g)
  BY <1>1, <1>7 DEF NumbersInv, Ranged
<1>9. WrapInv(api, g, ob)
  <2>1. ob \in [1 .. Objects -> Object]
    <3>1. objs \in [1 .. Objects -> Object]
      BY <1>1 DEF WrapInv
    <3> QED
      BY <1>5, <3>1, Addresses
  <2>2. ASSUME NEW m \in Live(g) PROVE g[m].hook = Null \/ (g[m].hook = m /\ ob[m].setting = m)
    <3> SUFFICES ASSUME g[m].hook # Null PROVE g[m].hook = m /\ ob[m].setting = m
      OBVIOUS
    <3>1. g[m].hook = m /\ objs[m].setting = m /\ m \in 1 .. Objects
      BY <1>1, <1>7, Addresses DEF WrapInv
    <3>2. m \notin Hooks(heap, D)
      <4>1. ASSUME NEW x \in D, heap[x].hook = m PROVE FALSE
        <5>1. x = m
          BY <1>1, <1>2, <1>7, <3>1, <4>1, Addresses DEF WrapInv
        <5> QED
          BY <1>7, <5>1
      <4> QED
        BY <4>1 DEF Hooks
    <3> QED
      BY <1>5, <3>1, <3>2
  <2>3. ASSUME NEW o \in 1 .. Objects, ob[o] # NoObject
        PROVE  /\ o \in Live(g) /\ ob[o].setting = o /\ g[o].hook = o
               /\ api = "C++" => ob[o].type = g[o].type
    <3>1. o \notin Hooks(heap, D) /\ ob[o] = objs[o]
      BY <1>5, <2>3
    <3>2. /\ o \in Live(heap) /\ objs[o].setting = o /\ heap[o].hook = o
          /\ api = "C++" => objs[o].type = heap[o].type
      BY <1>1, <2>3, <3>1 DEF WrapInv
    <3>3. o \notin D
      BY <1>6, <3>1, <3>2, Addresses DEF Hooks
    <3>4. o \in Live(g)
      BY <1>3, <3>2, <3>3
    <3> QED
      BY <1>7, <3>1, <3>2, <3>4
  <2> QED
    BY <2>1, <2>2, <2>3 DEF WrapInv
<1>10. ASSUME api = "C++" PROVE ArraysInv(g)
  <2> SUFFICES ASSUME NEW q \in Live(g), g[q].type = "ARRAY", NEW x \in Kids(g, q), NEW y \in Kids(g, q)
               PROVE  g[x].type \in Scalars /\ g[x].type = g[y].type
    BY DEF ArraysInv
  <2>1. x \in Live(g) /\ y \in Live(g)
    BY <1>4, <1>7 DEF TreeInv, FamilyInv
  <2>2. x \in Kids(heap, q) /\ y \in Kids(heap, q)
    BY <1>3, <1>7
  <2> QED
    BY <1>1, <1>7, <1>10, <2>1, <2>2 DEF ArraysInv
<1> QED
  BY <1>4, <1>8, <1>9, <1>10 DEF Sound, e, D, g, ob

\* A configuration that was just made.
LEMMA EmptyIs ==
  /\ TreeInv(EmptyHeap) /\ NumbersInv(EmptyHeap) /\ ArraysInv(EmptyHeap)
  /\ Live(EmptyHeap) = {Root} /\ EmptyHeap[Root].hook = Null
<1> DEFINE g == EmptyHeap
           root == NewSetting("GROUP", NoName, Null)
<1>0. Root \in Settings /\ Null = 0 /\ "GROUP" \in Types /\ "GROUP" \in Aggregates
  BY Addresses DEF Types, Aggregates
<1>1. /\ root \in Setting /\ root.type = "GROUP" /\ root.parent = Null /\ root.hook = Null
      /\ root.name = NoName
      /\ root.kids = <<>> /\ root.room = 0 /\ root.val = 0
  BY <1>0, NewSettingIs
<1>2. /\ FreeMemory \in Setting /\ FreeMemory.type = "FREE" /\ FreeMemory.kids = <<>>
      /\ FreeMemory.room = 0 /\ FreeMemory.val = 0
  BY NewSettingIs DEF FreeMemory
<1> HIDE DEF root
<1>3. g \in Heaps /\ g[Root] = root /\ \A m \in Settings : m # Root => g[m] = FreeMemory
  BY <1>0, <1>1, <1>2 DEF EmptyHeap, Heaps, root
<1> HIDE DEF g
<1>4. Live(g) = {Root}
  BY <1>0, <1>1, <1>2, <1>3 DEF Live
<1>5. \A m \in Settings : g[m].room = 0 /\ Len(g[m].kids) = 0 /\ Kids(g, m) = {}
  <2> TAKE m \in Settings
  <2>1. g[m].kids = <<>> /\ g[m].room = 0
    BY <1>1, <1>2, <1>3
  <2>2. Len(g[m].kids) = 0
    BY <2>1, EmptySeq
  <2>3. Kids(g, m) = {}
    BY <1>3, <2>2, KidsOf
  <2> QED
    BY <2>1, <2>2, <2>3
<1>6. FamilyInv(g)
  BY <1>1, <1>3, <1>4, <1>5 DEF FamilyInv
<1>7. ListsInv(g)
  <2>1. 0 <= 0 * CHUNK_SIZE /\ 0 * CHUNK_SIZE <= 0
    BY SettingsAssumption DEF SettingsAssumption
  <2> QED
    BY <1>5, <2>1 DEF ListsInv, Roomy
<1>8. NamesInv(g)
  BY <1>5 DEF NamesInv
<1>9. NumbersInv(g) /\ ArraysInv(g)
  BY <1>1, <1>3, <1>4 DEF NumbersInv, Ranged, ArraysInv
<1> QED
  BY <1>1, <1>3, <1>4, <1>6, <1>7, <1>8, <1>9 DEF TreeInv, g

\* When every setting goes, so does every object.
LEMMA EmptySound ==
  ASSUME Inv
  PROVE  Sound(api, EmptyHeap, Released(heap, Live(heap)))
<1> DEFINE ob == Released(heap, Live(heap))
<1>1. WrapInv(api, heap, objs) /\ destructor = TRUE
  BY DEF Inv, Sound
<1>2. ob = [o \in 1 .. Objects |-> IF o \in Hooks(heap, Live(heap)) THEN NoObject ELSE objs[o]]
  BY <1>1 DEF Released
<1>3. \A o \in 1 .. Objects : ob[o] = NoObject
  <2> TAKE o \in 1 .. Objects
  <2>1. CASE o \in Hooks(heap, Live(heap))
    BY <1>2, <2>1
  <2>2. CASE o \notin Hooks(heap, Live(heap))
    <3>1. ob[o] = objs[o]
      BY <1>2, <2>2
    <3>2. objs[o] # NoObject => o \in Live(heap) /\ heap[o].hook = o
      BY <1>1 DEF WrapInv
    <3> QED
      BY <2>2, <3>1, <3>2, Addresses DEF Hooks
  <2> QED
    BY <2>1, <2>2
<1>4. ob \in [1 .. Objects -> Object]
  BY <1>2, <1>3, Addresses
<1> HIDE DEF ob
<1>5. WrapInv(api, EmptyHeap, ob)
  BY <1>3, <1>4, EmptyIs DEF WrapInv
<1> QED
  BY <1>5, EmptyIs DEF Sound, ob
-----------------------------------------------------------------------------
(* The copy of a setting and of what is below it.                          *)

Once(list) == \A x, y \in 1 .. Len(list) : list[x] = list[y] => x = y

\* What is copied of the elements of a setting.
LEMMA SiftedIs ==
  ASSUME TreeInv(heap), NEW m \in Settings
  PROVE  /\ CopiedKids(m) \in Seq(Settings) /\ Once(CopiedKids(m))
         /\ Sifted[m].kids = CopiedKids(m)
         /\ Sifted[m].type = heap[m].type /\ Sifted[m].name = heap[m].name
         /\ Sifted[m].parent = heap[m].parent
         /\ Sifted[m].val = heap[m].val /\ Sifted[m].fmt = heap[m].fmt
         /\ Kids(Sifted, m) \subseteq Kids(heap, m)
<1> DEFINE list == heap[m].kids
           typed == {e \in Settings : heap[e].type # "NONE"}
           same == {e \in Settings : heap[e].type \in Aggregates \cup {heap[Typed(m)[1]].type}}
           Members(s) == {s[x] : x \in DOMAIN s}
<1>1. list \in Seq(Settings) /\ Once(list)
  BY KidsOf DEF TreeInv, FamilyInv, Once
<1>2. /\ Typed(m) = Only(list, typed)
      /\ CopiedKids(m) = CASE heap[m].type = "LIST" -> Typed(m)
                           [] heap[m].type = "ARRAY" -> Only(Typed(m), same)
                           [] OTHER -> list
  BY DEF Typed, CopiedKids
<1> HIDE DEF list, typed, same
<1>3. \A s \in Seq(Settings) : \A ms :
        /\ Only(s, ms) \in Seq(Settings)
        /\ Members(Only(s, ms)) = Members(s) \cap ms
        /\ Once(s) => Once(Only(s, ms))
  BY OnlyProperties DEF Once
<1> HIDE DEF Members
<1>4. Typed(m) \in Seq(Settings) /\ Once(Typed(m)) /\ Members(Typed(m)) \subseteq Members(list)
  BY <1>1, <1>2, <1>3
<1> DEFINE fewer == Only(Typed(m), same)
<1>5. fewer \in Seq(Settings) /\ Once(fewer) /\ Members(fewer) \subseteq Members(list)
  BY <1>3, <1>4
<1> HIDE DEF fewer
<1>6. /\ CopiedKids(m) \in Seq(Settings) /\ Once(CopiedKids(m))
      /\ Members(CopiedKids(m)) \subseteq Members(list)
  <2>1. CopiedKids(m) \in {Typed(m), fewer, list}
    BY <1>2 DEF fewer
  <2> QED
    BY <1>1, <1>4, <1>5, <2>1
<1>7. heap[m] \in Setting
  BY DEF TreeInv, Heaps
<1>8. /\ Sifted[m].kids = CopiedKids(m)
      /\ Sifted[m].type = heap[m].type /\ Sifted[m].name = heap[m].name
      /\ Sifted[m].parent = heap[m].parent
      /\ Sifted[m].val = heap[m].val /\ Sifted[m].fmt = heap[m].fmt
  <2>1. Sifted[m] = [heap[m] EXCEPT !.kids = CopiedKids(m)]
    BY DEF Sifted
  <2> QED
    BY <1>7, <2>1 DEF Setting
<1>9. Members(Sifted[m].kids) \subseteq Members(heap[m].kids)
  BY <1>6, <1>8 DEF list
<1> QED
  BY <1>6, <1>8, <1>9 DEF Kids, Members

\* Which settings are copied: none that is above.
LEMMA SiftedBelow ==
  ASSUME TreeInv(heap), NEW n \in Live(heap)
  PROVE  LET ms == Subtree(Sifted, n) IN
         /\ n \in ms /\ ms \subseteq Live(heap) /\ ms \subseteq Subtree(heap, n)
         /\ Closed(Sifted, ms)
         /\ \A S : n \in S /\ Closed(Sifted, S) => ms \subseteq S
         /\ \A m \in ms : m = n \/ (heap[m].parent \in ms /\ m \in Kids(Sifted, heap[m].parent))
         /\ \A m \in ms : n \notin Kids(Sifted, m)
<1> USE DEF TreeInv
<1> DEFINE ms == Subtree(Sifted, n)
           D == Subtree(heap, n)
<1>0. n \in Settings /\ Live(heap) \subseteq Settings /\ Null \notin Settings
  BY Addresses DEF Live
<1>1. \A m \in Settings : /\ Kids(heap, m) \subseteq Settings /\ Kids(heap, m) \subseteq Live(heap)
                          /\ Kids(Sifted, m) \subseteq Kids(heap, m)
  BY KidsOf, SiftedIs DEF FamilyInv
<1>2. /\ n \in ms /\ ms \subseteq Settings /\ Closed(Sifted, ms)
      /\ \A S : n \in S /\ Closed(Sifted, S) => ms \subseteq S
  <2>1. \A m \in Settings : Kids(Sifted, m) \subseteq Settings
    BY <1>1
  <2> QED
    BY <1>0, <2>1, SubtreeLeast
<1>3. /\ n \in D /\ D \subseteq Settings /\ Closed(heap, D)
      /\ \A S : n \in S /\ Closed(heap, S) => D \subseteq S
  BY <1>0, <1>1, SubtreeLeast
<1>4. ms \subseteq Live(heap)
  <2>1. Closed(Sifted, Live(heap))
    BY <1>0, <1>1 DEF Closed
  <2> QED
    BY <1>2, <2>1
<1>5. ms \subseteq D
  <2>1. Closed(Sifted, D)
    BY <1>1, <1>3 DEF Closed
  <2> QED
    BY <1>2, <1>3, <2>1
<1>6. \A m \in ms : m = n \/ (heap[m].parent \in ms /\ m \in Kids(Sifted, heap[m].parent))
  <2> DEFINE V == {m \in ms : m = n \/ (heap[m].parent \in ms /\ m \in Kids(Sifted, heap[m].parent))}
  <2>1. ASSUME NEW m \in V, NEW x \in Kids(Sifted, m) PROVE x \in V
    <3>1. m \in ms /\ m \in Settings /\ x \in ms /\ x \in Kids(heap, m)
      BY <1>1, <1>2 DEF Closed
    <3>2. heap[x].parent = m
      BY <3>1 DEF FamilyInv
    <3> QED
      BY <2>1, <3>1, <3>2
  <2>2. n \in V /\ Closed(Sifted, V)
    BY <1>2, <2>1 DEF Closed
  <2>3. ms \subseteq V
    BY <1>2, <2>2
  <2> QED
    BY <2>3
<1>7. ASSUME NEW m \in ms, n \in Kids(Sifted, m) PROVE FALSE
  <2>1. m \in D /\ m \in Settings /\ n \in Kids(heap, m) /\ m \in Live(heap)
    BY <1>1, <1>2, <1>4, <1>5, <1>7
  <2>2. PICK i \in 1 .. Len(heap[m].kids) : heap[m].kids[i] = n
    BY <2>1, KidsOf
  <2>3. m \notin Subtree(heap, heap[m].kids[i])
    BY <2>1, BelowIsApart
  <2> QED
    BY <2>1, <2>2, <2>3
<1> QED
  BY <1>2, <1>4, <1>5, <1>6, <1>7

PlaceOf(n) == CHOOSE f \in Places(Subtree(Sifted, n)) : TRUE
CopiesOf(n) == {PlaceOf(n)[m] : m \in Subtree(Sifted, n)}
CopyOf(p, n, m) ==
  [NewSetting(Sifted[m].type,
              AddedName(heap, IF m = n THEN p ELSE Sifted[m].parent, Sifted[m].name),
              IF m = n THEN p ELSE PlaceOf(n)[Sifted[m].parent])
   EXCEPT !.val = Sifted[m].val, !.fmt = Sifted[m].fmt,
          !.kids = [i \in DOMAIN Sifted[m].kids |-> PlaceOf(n)[Sifted[m].kids[i]]],
          !.room = CHUNK_SIZE * ((Len(Sifted[m].kids) + CHUNK_SIZE - 1) \div CHUNK_SIZE)]

\* The copies are at free addresses, each at one of its own.
LEMMA PlacesAre ==
  ASSUME NEW n, Places(Subtree(Sifted, n)) # {}
  PROVE  /\ PlaceOf(n) \in [Subtree(Sifted, n) -> Settings \ Live(heap)]
         /\ \A x, y \in Subtree(Sifted, n) : PlaceOf(n)[x] = PlaceOf(n)[y] => x = y
<1> DEFINE ms == Subtree(Sifted, n)
           f == PlaceOf(n)
<1>1. f \in Places(ms)
  BY DEF PlaceOf
<1> HIDE DEF f, ms
<1>2. f \in [ms -> Settings \ Live(heap)] /\ \A x, y \in ms : f[x] = f[y] => x = y
  BY <1>1 DEF Places, Injection, IsInjective
<1> QED
  BY <1>2 DEF f, ms

\* Memory for the elements of a copy: as many chunks as they need.
LEMMA ChunksFit ==
  ASSUME NEW len \in Nat
  PROVE  LET d == (len + CHUNK_SIZE - 1) \div CHUNK_SIZE IN
         /\ d \in Nat /\ CHUNK_SIZE * d \in Nat /\ len <= d * CHUNK_SIZE
         /\ d * CHUNK_SIZE = CHUNK_SIZE * d /\ (len = 0 => CHUNK_SIZE * d = 0)
<1> DEFINE top == len + CHUNK_SIZE - 1
           d == top \div CHUNK_SIZE
<1>1. CHUNK_SIZE \in Nat /\ CHUNK_SIZE > 0
  BY SettingsAssumption DEF SettingsAssumption
<1>2. top \in Nat
  BY <1>1
<1> HIDE DEF top
<1>3. d \in Nat /\ top = CHUNK_SIZE * d + (top % CHUNK_SIZE) /\ top % CHUNK_SIZE \in 0 .. CHUNK_SIZE - 1
  BY <1>1, <1>2
<1> HIDE DEF d
<1>4. d * CHUNK_SIZE = CHUNK_SIZE * d /\ CHUNK_SIZE * d \in Nat
  BY <1>1, <1>3
<1>5. len <= CHUNK_SIZE * d
  <2> DEFINE c == CHUNK_SIZE * d  r == top % CHUNK_SIZE
  <2>1. c \in Nat /\ r \in Int /\ r <= CHUNK_SIZE - 1 /\ top = c + r
    BY <1>1, <1>3, <1>4
  <2> HIDE DEF c, r
  <2>2. len <= c
    BY <1>1, <2>1 DEF top
  <2> QED
    BY <2>2 DEF c
<1>6. len = 0 => d = 0
  <2> SUFFICES ASSUME len = 0, d >= 1 PROVE FALSE
    BY <1>3
  <2>1. CHUNK_SIZE * d >= CHUNK_SIZE
    BY <1>1, <1>3
  <2>2. top = CHUNK_SIZE - 1
    BY <1>1 DEF top
  <2> DEFINE c == CHUNK_SIZE * d  r == top % CHUNK_SIZE
  <2>3. c >= CHUNK_SIZE /\ c \in Nat /\ r \in Int /\ r >= 0 /\ top = c + r
    BY <1>1, <1>3, <1>4, <2>1
  <2> HIDE DEF c, r
  <2> QED
    BY <1>1, <2>2, <2>3
<1> QED
  BY <1>1, <1>3, <1>4, <1>5, <1>6 DEF d, top
\* What the program may copy, and where to.
MayCopy(p, n) ==
  /\ p \in Live(heap) /\ n \in Live(heap)
  /\ heap[p].type \in {"GROUP", "LIST"}
  /\ heap[p].type = "GROUP" => heap[n].name # NoName
  /\ CanAdd(heap, p, heap[n].name)
  /\ p \notin Subtree(heap, n)
  /\ Places(Subtree(Sifted, n)) # {}

\* What a copy is.
LEMMA CopyOfIs ==
  ASSUME TreeInv(heap), NEW p, NEW n, MayCopy(p, n), NEW m \in Subtree(Sifted, n)
  PROVE  LET s == CopyOf(p, n, m)
             place == PlaceOf(n)
             len == Len(CopiedKids(m))
         IN  /\ s \in Setting
             /\ s.type = heap[m].type /\ s.val = heap[m].val /\ s.hook = Null
             /\ s.name = AddedName(heap, IF m = n THEN p ELSE heap[m].parent, heap[m].name)
             /\ s.parent = IF m = n THEN p ELSE place[heap[m].parent]
             /\ Len(s.kids) = len /\ \A i \in 1 .. len : s.kids[i] = place[CopiedKids(m)[i]]
             /\ s.room = CHUNK_SIZE * ((len + CHUNK_SIZE - 1) \div CHUNK_SIZE)
<1> DEFINE ms == Subtree(Sifted, n)
           place == PlaceOf(n)
           list == CopiedKids(m)
           len == Len(list)
           into == IF m = n THEN p ELSE heap[m].parent
           called == AddedName(heap, into, heap[m].name)
           above == IF m = n THEN p ELSE place[heap[m].parent]
           kids == [i \in DOMAIN list |-> place[list[i]]]
           room == CHUNK_SIZE * ((len + CHUNK_SIZE - 1) \div CHUNK_SIZE)
           new == NewSetting(heap[m].type, called, above)
           s == CopyOf(p, n, m)
<1>0. /\ p \in Live(heap) /\ n \in Live(heap) /\ p \in Settings /\ n \in Settings
      /\ Places(ms) # {} /\ heap \in Heaps /\ Live(heap) \subseteq Settings
  BY DEF MayCopy, TreeInv, Live
<1>1. /\ n \in ms /\ ms \subseteq Live(heap) /\ ms \subseteq Subtree(heap, n)
      /\ Closed(Sifted, ms)
      /\ \A S : n \in S /\ Closed(Sifted, S) => ms \subseteq S
      /\ \A x \in ms : x = n \/ (heap[x].parent \in ms /\ x \in Kids(Sifted, heap[x].parent))
      /\ \A x \in ms : n \notin Kids(Sifted, x)
  BY <1>0, SiftedBelow
<1>2. place \in [ms -> Settings \ Live(heap)]
  BY <1>0, PlacesAre
<1> HIDE DEF ms, place
<1>3. m \in ms /\ m \in Settings /\ m \in Live(heap) /\ heap[m] \in Setting
  BY <1>0, <1>1 DEF ms, Heaps
<1>4. /\ list \in Seq(Settings)
      /\ Sifted[m].kids = list
      /\ Sifted[m].type = heap[m].type /\ Sifted[m].name = heap[m].name
      /\ Sifted[m].parent = heap[m].parent
      /\ Sifted[m].val = heap[m].val /\ Sifted[m].fmt = heap[m].fmt
  BY <1>3, SiftedIs
<1> HIDE DEF list
<1>5. len \in Nat /\ DOMAIN list = 1 .. len
  BY <1>4, LenProperties
<1>6. \A i \in 1 .. len : list[i] \in ms
  BY <1>1, <1>3, <1>4, <1>5 DEF Closed, Kids
<1>7. kids \in Seq(Settings) /\ Len(kids) = len /\ \A i \in 1 .. len : kids[i] = place[list[i]]
  <2>1. kids = [i \in 1 .. len |-> place[list[i]]]
    BY <1>5
  <2>2. \A i \in 1 .. len : place[list[i]] \in Settings
    BY <1>2, <1>6
  <2> HIDE DEF len
  <2> QED
    BY <1>5, <2>1, <2>2
<1>8. room \in Nat
  <2> HIDE DEF len
  <2> QED
    BY <1>5, ChunksFit
<1>9. called \in Names \cup {NoName} /\ above \in Settings \cup {Null} /\ heap[m].type \in Types \cup {"FREE"}
  <2>1. called \in Names \cup {NoName}
    BY <1>3 DEF AddedName, Setting
  <2>2. m # n => heap[m].parent \in ms
    BY <1>1, <1>3
  <2>3. above \in Settings \cup {Null}
    BY <1>0, <1>2, <2>2
  <2> QED
    BY <1>3, <2>1, <2>3 DEF Setting
<1>10. s = [new EXCEPT !.val = heap[m].val, !.fmt = heap[m].fmt, !.kids = kids, !.room = room]
  BY <1>4, Zenon DEF CopyOf, place
<1>11. new \in Setting /\ new.type = heap[m].type /\ new.name = called /\ new.parent = above
       /\ new.hook = Null
  <2>1. \A t \in Types \cup {"FREE"}, x \in Names \cup {NoName}, q \in Settings \cup {Null} :
          /\ NewSetting(t, x, q) \in Setting /\ NewSetting(t, x, q).type = t
          /\ NewSetting(t, x, q).name = x /\ NewSetting(t, x, q).parent = q
          /\ NewSetting(t, x, q).hook = Null
    BY NewSettings
  <2>2. PICK t, x, q : t = heap[m].type /\ x = called /\ q = above
    BY Zenon
  <2>3. t \in Types \cup {"FREE"} /\ x \in Names \cup {NoName} /\ q \in Settings \cup {Null}
    BY <1>9, <2>2
  <2>4. new = NewSetting(t, x, q)
    BY <2>2, Zenon
  <2> HIDE DEF new, called, above
  <2>5. /\ NewSetting(t, x, q) \in Setting /\ NewSetting(t, x, q).type = t
        /\ NewSetting(t, x, q).name = x /\ NewSetting(t, x, q).parent = q
        /\ NewSetting(t, x, q).hook = Null
    BY <2>1, <2>3
  <2> QED
    BY <2>2, <2>4, <2>5
<1> HIDE DEF s, called, above, kids, room, len, new
<1>12. heap[m].val \in Values /\ heap[m].fmt \in Formats
  BY <1>3 DEF Setting
<1>13. /\ s \in Setting /\ s.type = heap[m].type /\ s.val = heap[m].val /\ s.hook = Null
       /\ s.name = called /\ s.parent = above /\ s.kids = kids /\ s.room = room
  BY <1>7, <1>8, <1>10, <1>11, <1>12 DEF Setting
<1> QED
  BY <1>7, <1>13, Zenon DEF s, called, into, above, place, room, len, list

\* What is there after a copy.
LEMMA CopiedIs ==
  ASSUME TreeInv(heap), NEW p, NEW n, MayCopy(p, n)
  PROVE  LET r == Copied(p, n)
             ms == Subtree(Sifted, n)
             place == PlaceOf(n)
             copies == CopiesOf(n)
         IN  /\ r \in Heaps /\ Live(r) = Live(heap) \cup copies
             /\ copies \subseteq Settings \ Live(heap)
             /\ \A m \in ms : /\ r[place[m]] = CopyOf(p, n, m)
                              /\ Kids(r, place[m]) = {place[x] : x \in Kids(Sifted, m)}
             /\ \A a \in Settings \ (copies \cup {p}) : r[a] = heap[a] /\ Kids(r, a) = Kids(heap, a)
             /\ Alike(r[p], heap[p]) /\ r[p].hook = heap[p].hook /\ r[p].val = heap[p].val
             /\ r[p].kids = Append(heap[p].kids, place[n])
             /\ r[p].room = IF Len(heap[p].kids) % CHUNK_SIZE = 0
                            THEN Len(heap[p].kids) + CHUNK_SIZE ELSE heap[p].room
             /\ Kids(r, p) = Kids(heap, p) \cup {place[n]}
<1> DEFINE ms == Subtree(Sifted, n)
           place == PlaceOf(n)
           copies == CopiesOf(n)
           added == ListAdd(heap, p, place[n])
           r == Copied(p, n)
<1>0. /\ p \in Live(heap) /\ n \in Live(heap) /\ p \in Settings /\ n \in Settings
      /\ Places(ms) # {} /\ heap \in Heaps /\ Live(heap) \subseteq Settings
  BY DEF MayCopy, TreeInv, Live
<1>1. /\ n \in ms /\ ms \subseteq Live(heap) /\ ms \subseteq Subtree(heap, n)
      /\ Closed(Sifted, ms)
      /\ \A S : n \in S /\ Closed(Sifted, S) => ms \subseteq S
      /\ \A x \in ms : x = n \/ (heap[x].parent \in ms /\ x \in Kids(Sifted, heap[x].parent))
      /\ \A x \in ms : n \notin Kids(Sifted, x)
  BY <1>0, SiftedBelow
<1>2. place \in [ms -> Settings \ Live(heap)] /\ \A x, y \in ms : place[x] = place[y] => x = y
  BY <1>0, PlacesAre
<1>3. copies = {place[m] : m \in ms}
  BY DEF CopiesOf
<1>4. r = [a \in Settings |->
             IF \E m \in ms : place[m] = a THEN CopyOf(p, n, CHOOSE m \in ms : place[m] = a)
             ELSE added[a]]
  BY Zenon DEF Copied, CopyOf, PlaceOf
<1>5. ASSUME NEW m \in ms
      PROVE  LET s == CopyOf(p, n, m)
                 len == Len(CopiedKids(m))
             IN  /\ s \in Setting
                 /\ s.type = heap[m].type /\ s.val = heap[m].val /\ s.hook = Null
                 /\ s.name = AddedName(heap, IF m = n THEN p ELSE heap[m].parent, heap[m].name)
                 /\ s.parent = IF m = n THEN p ELSE place[heap[m].parent]
                 /\ Len(s.kids) = len /\ \A i \in 1 .. len : s.kids[i] = place[CopiedKids(m)[i]]
                 /\ s.room = CHUNK_SIZE * ((len + CHUNK_SIZE - 1) \div CHUNK_SIZE)
  BY CopyOfIs
<1> HIDE DEF ms, place, copies, r, added
<1>6. place[n] \in Settings \ Live(heap) /\ place[n] \in copies /\ copies \subseteq Settings \ Live(heap)
  BY <1>1, <1>2, <1>3
<1>7. /\ added \in Heaps
      /\ \A m \in Settings \ {p} : added[m] = heap[m]
      /\ Alike(added[p], heap[p])
      /\ added[p].hook = heap[p].hook
      /\ added[p].val = heap[p].val
      /\ added[p].file = heap[p].file
      /\ added[p].kids = Append(heap[p].kids, place[n])
      /\ added[p].room = IF Len(heap[p].kids) % CHUNK_SIZE = 0
                         THEN Len(heap[p].kids) + CHUNK_SIZE ELSE heap[p].room
  BY <1>0, <1>6, ListAddIs DEF added
<1>8. \A m \in ms : r[place[m]] = CopyOf(p, n, m)
  <2> TAKE m \in ms
  <2>1. (CHOOSE x \in ms : place[x] = place[m]) = m
    BY <1>2
  <2>2. place[m] \in Settings
    BY <1>2
  <2> QED
    BY <1>4, <2>1, <2>2
<1>9. \A a \in Settings \ copies : r[a] = added[a]
  BY <1>3, <1>4
<1>10. r \in Heaps
  <2>1. \A m \in ms : CopyOf(p, n, m) \in Setting
    BY <1>5
  <2>2. \A a \in Settings : r[a] \in Setting
    <3> TAKE a \in Settings
    <3>1. CASE a \in copies
      BY <1>3, <1>8, <2>1, <3>1
    <3>2. CASE a \notin copies
      BY <1>7, <1>9, <3>2 DEF Heaps
    <3> QED
      BY <3>1, <3>2
  <2>3. r = [a \in Settings |-> r[a]]
    BY <1>4
  <2> QED
    BY <2>2, <2>3 DEF Heaps
<1>11. p \in Settings \ copies
  BY <1>0, <1>6
<1>12. r[p] = added[p] /\ \A a \in Settings \ (copies \cup {p}) : r[a] = heap[a]
  BY <1>7, <1>9, <1>11
<1>13. Live(r) = Live(heap) \cup copies
  <2>1. \A m \in ms : r[place[m]].type # "FREE"
    <3> TAKE m \in ms
    <3>1. r[place[m]].type = heap[m].type
      BY <1>5, <1>8
    <3> QED
      BY <1>1, <3>1 DEF Live
  <2>2. \A a \in Settings \ copies : r[a].type = heap[a].type
    BY <1>7, <1>12 DEF Alike
  <2> QED
    BY <1>3, <1>6, <2>1, <2>2 DEF Live
<1>14. ASSUME NEW m \in ms PROVE Kids(r, place[m]) = {place[x] : x \in Kids(Sifted, m)}
  <2> DEFINE list == CopiedKids(m)
             kids == r[place[m]].kids
  <2>1. m \in Settings /\ place[m] \in Settings
    BY <1>0, <1>1, <1>2
  <2>2. list \in Seq(Settings) /\ Sifted[m].kids = list
    BY <2>1, SiftedIs
  <2>3. Len(kids) = Len(list) /\ \A i \in 1 .. Len(list) : kids[i] = place[list[i]]
    BY <1>5, <1>8
  <2>4. Kids(r, place[m]) = {kids[i] : i \in 1 .. Len(kids)}
    BY <1>10, <2>1, KidsOf
  <2> HIDE DEF list
  <2>5. DOMAIN list = 1 .. Len(list)
    BY <2>2, LenProperties
  <2>6. Kids(Sifted, m) = {list[i] : i \in 1 .. Len(list)}
    BY <2>2, <2>5 DEF Kids
  <2>7. Kids(r, place[m]) = {place[list[i]] : i \in 1 .. Len(list)}
    BY <2>3, <2>4
  <2> HIDE DEF kids
  <2> QED
    BY <2>6, <2>7
<1>15. \A a \in Settings \ (copies \cup {p}) : Kids(r, a) = Kids(heap, a)
  BY <1>12 DEF Kids
<1>16. Kids(r, p) = Kids(heap, p) \cup {place[n]}
  <2>1. heap[p].kids \in Seq(Settings)
    BY <1>0, KidsOf
  <2>2. {Append(heap[p].kids, place[n])[i] : i \in DOMAIN Append(heap[p].kids, place[n])}
          = Kids(heap, p) \cup {place[n]}
    BY <1>6, <2>1, AppendKids DEF Kids
  <2>3. r[p].kids = Append(heap[p].kids, place[n])
    BY <1>7, <1>12
  <2> QED
    BY <2>2, <2>3, Zenon DEF Kids
<1> QED
  BY <1>6, <1>7, <1>8, <1>10, <1>12, <1>13, <1>14, <1>15, <1>16 DEF ms, place, copies, r
\* A setting that may be added has a name of its own.
LEMMA MayAdd ==
  ASSUME NEW h, TreeInv(h), NEW p \in Live(h), NEW name, CanAdd(h, p, name),
         h[p].type = "GROUP" => name # NoName
  PROVE  /\ MayBeNamed(h, p, AddedName(h, p, name))
         /\ AddedName(h, p, name) \in Names \cup {NoName}
         /\ h[p].type \in Aggregates
<1> DEFINE called == AddedName(h, p, name)
<1>1. h[p].type \in Aggregates /\ called \in Names \cup {NoName} /\ GetMember(h, p, called) = Null
  BY DEF CanAdd
<1>2. h[p].type = "GROUP" => called = name
  BY DEF AddedName
<1>3. h[p].type # "GROUP" => called = NoName
  BY <1>1 DEF AddedName, Aggregates
<1> HIDE DEF called
<1>4. h[p].type = "GROUP" /\ called # NoName => \A x \in Kids(h, p) : h[x].name # called
  BY <1>1, GetMemberIs
<1>5. MayBeNamed(h, p, called)
  BY <1>2, <1>3, <1>4 DEF MayBeNamed
<1> QED
  BY <1>1, <1>5 DEF called

\* A copy hangs from where it was put, and the tree is as sound as it was.
LEMMA CopyTree ==
  ASSUME TreeInv(heap), NEW p, NEW n, MayCopy(p, n)
  PROVE  TreeInv(Copied(p, n))
<1> DEFINE ms == Subtree(Sifted, n)
           place == PlaceOf(n)
           copies == CopiesOf(n)
           r == Copied(p, n)
           called == AddedName(heap, p, heap[n].name)
<1>0. /\ p \in Live(heap) /\ n \in Live(heap) /\ p \in Settings /\ n \in Settings
      /\ Places(ms) # {} /\ heap \in Heaps /\ Live(heap) \subseteq Settings
      /\ p \notin Subtree(heap, n)
      /\ FamilyInv(heap) /\ ListsInv(heap) /\ NamesInv(heap)
  BY DEF MayCopy, TreeInv, Live
<1>1. /\ n \in ms /\ ms \subseteq Live(heap) /\ ms \subseteq Subtree(heap, n)
      /\ Closed(Sifted, ms)
      /\ \A S : n \in S /\ Closed(Sifted, S) => ms \subseteq S
      /\ \A x \in ms : x = n \/ (heap[x].parent \in ms /\ x \in Kids(Sifted, heap[x].parent))
      /\ \A x \in ms : n \notin Kids(Sifted, x)
  BY <1>0, SiftedBelow
<1>2. place \in [ms -> Settings \ Live(heap)] /\ \A x, y \in ms : place[x] = place[y] => x = y
  BY <1>0, PlacesAre
<1>3. copies = {place[m] : m \in ms}
  BY DEF CopiesOf
<1>4. /\ r \in Heaps /\ Live(r) = Live(heap) \cup copies
      /\ copies \subseteq Settings \ Live(heap)
      /\ \A m \in ms : /\ r[place[m]] = CopyOf(p, n, m)
                       /\ Kids(r, place[m]) = {place[x] : x \in Kids(Sifted, m)}
      /\ \A a \in Settings \ (copies \cup {p}) : r[a] = heap[a] /\ Kids(r, a) = Kids(heap, a)
      /\ Alike(r[p], heap[p]) /\ r[p].hook = heap[p].hook /\ r[p].val = heap[p].val
      /\ r[p].kids = Append(heap[p].kids, place[n])
      /\ r[p].room = IF Len(heap[p].kids) % CHUNK_SIZE = 0
                     THEN Len(heap[p].kids) + CHUNK_SIZE ELSE heap[p].room
      /\ Kids(r, p) = Kids(heap, p) \cup {place[n]}
  BY CopiedIs
<1>5. ASSUME NEW m \in ms
      PROVE  LET s == r[place[m]]
                 len == Len(CopiedKids(m))
             IN  /\ s.type = heap[m].type /\ s.val = heap[m].val /\ s.hook = Null
                 /\ s.name = AddedName(heap, IF m = n THEN p ELSE heap[m].parent, heap[m].name)
                 /\ s.parent = IF m = n THEN p ELSE place[heap[m].parent]
                 /\ Len(s.kids) = len /\ \A i \in 1 .. len : s.kids[i] = place[CopiedKids(m)[i]]
                 /\ s.room = CHUNK_SIZE * ((len + CHUNK_SIZE - 1) \div CHUNK_SIZE)
  <2>1. r[place[m]] = CopyOf(p, n, m)
    BY <1>4
  <2> DEFINE s == CopyOf(p, n, m)
             len == Len(CopiedKids(m))
  <2>2. /\ s \in Setting
        /\ s.type = heap[m].type /\ s.val = heap[m].val /\ s.hook = Null
        /\ s.name = AddedName(heap, IF m = n THEN p ELSE heap[m].parent, heap[m].name)
        /\ s.parent = IF m = n THEN p ELSE place[heap[m].parent]
        /\ Len(s.kids) = len /\ \A i \in 1 .. len : s.kids[i] = place[CopiedKids(m)[i]]
        /\ s.room = CHUNK_SIZE * ((len + CHUNK_SIZE - 1) \div CHUNK_SIZE)
    BY CopyOfIs
  <2> QED
    BY <2>1, <2>2, Zenon
<1>6. /\ MayBeNamed(heap, p, called) /\ called \in Names \cup {NoName}
      /\ heap[p].type \in Aggregates
  <2>1. CanAdd(heap, p, heap[n].name) /\ (heap[p].type = "GROUP" => heap[n].name # NoName)
    BY DEF MayCopy
  <2> QED
    BY <1>0, <2>1, MayAdd
<1> HIDE DEF ms, place, copies, r, called
<1>7. p \notin ms /\ p \notin copies /\ place[n] \in copies /\ place[n] \notin Live(heap)
  BY <1>0, <1>1, <1>2, <1>3, <1>4
<1>8. \A a \in Live(heap) : Alike(r[a], heap[a]) /\ Kids(heap, a) \subseteq Kids(r, a)
  <2> TAKE a \in Live(heap)
  <2>1. CASE a = p
    BY <1>4, <2>1
  <2>2. CASE a # p
    BY <1>0, <1>4, <2>2 DEF Alike
  <2> QED
    BY <2>1, <2>2
<1>9. \A q \in Settings : Kids(heap, q) \subseteq Live(heap) /\ \A x \in Kids(heap, q) : heap[x].parent = q
  BY <1>0 DEF FamilyInv
<1>10. \A m \in ms : m \in Settings /\ Kids(Sifted, m) \subseteq Kids(heap, m) /\ Kids(Sifted, m) \subseteq ms
  <2> TAKE m \in ms
  <2>1. m \in Settings
    BY <1>0, <1>1
  <2>2. Kids(Sifted, m) \subseteq Kids(heap, m)
    BY <2>1, SiftedIs
  <2> QED
    BY <1>1, <2>1, <2>2 DEF Closed
\* What is below a copy are the copies of what is below the original.
<1>11. ASSUME NEW m \in ms, NEW x \in Kids(r, place[m])
       PROVE  \E y \in Kids(Sifted, m) : /\ x = place[y] /\ y \in ms /\ y # n /\ y \in Kids(heap, m)
                                         /\ heap[y].parent = m
  <2>1. PICK y \in Kids(Sifted, m) : x = place[y]
    BY <1>4, <1>11
  <2>2. y \in ms /\ y # n /\ y \in Kids(heap, m) /\ heap[y].parent = m
    BY <1>1, <1>9, <1>10
  <2> QED
    BY <2>1, <2>2
<1>12. FamilyInv(r)
  <2>1. r[Root].type = "GROUP" /\ r[Root].parent = Null /\ r[Root].name = NoName
    <3>1. Root \in Live(heap) /\ heap[Root].type = "GROUP" /\ heap[Root].parent = Null /\ heap[Root].name = NoName
      BY <1>0, Addresses DEF FamilyInv, Live
    <3> QED
      BY <1>8, <3>1 DEF Alike
  <2>2. ASSUME NEW a \in Live(r) \ {Root} PROVE r[a].parent \in Live(r) /\ a \in Kids(r, r[a].parent)
    <3>1. CASE a \in Live(heap)
      <4>1. heap[a].parent \in Live(heap) /\ a \in Kids(heap, heap[a].parent)
        BY <1>0, <2>2, <3>1 DEF FamilyInv
      <4>2. r[a].parent = heap[a].parent
        BY <1>8, <3>1 DEF Alike
      <4> QED
        BY <1>4, <1>8, <4>1, <4>2
    <3>2. CASE a \in copies
      <4>1. PICK m \in ms : a = place[m]
        BY <1>3, <3>2
      <4>2. CASE m = n
        <5>1. r[a].parent = p
          BY <1>5, <4>1, <4>2
        <5> QED
          BY <1>0, <1>4, <4>1, <4>2, <5>1
      <4>3. CASE m # n
        <5>1. r[a].parent = place[heap[m].parent]
          BY <1>5, <4>1, <4>3
        <5>2. heap[m].parent \in ms /\ m \in Kids(Sifted, heap[m].parent)
          BY <1>1, <4>3
        <5>3. a \in Kids(r, place[heap[m].parent])
          BY <1>4, <4>1, <5>2
        <5>4. place[heap[m].parent] \in Live(r)
          BY <1>3, <1>4, <5>2
        <5> QED
          BY <5>1, <5>3, <5>4
      <4> QED
        BY <4>2, <4>3
    <3> QED
      BY <1>4, <2>2, <3>1, <3>2
  <2>3. ASSUME NEW q \in Settings, NEW x \in Kids(r, q) PROVE x \in Live(r) /\ r[x].parent = q
    <3>1. CASE q \in copies
      <4>1. PICK m \in ms : q = place[m]
        BY <1>3, <3>1
      <4>2. PICK y \in ms : x = place[y] /\ y # n /\ heap[y].parent = m
        BY <1>11, <2>3, <4>1
      <4>3. x \in Live(r)
        BY <1>3, <1>4, <4>2
      <4>4. r[x].parent = place[heap[y].parent]
        BY <1>5, <4>2
      <4> QED
        BY <4>1, <4>2, <4>3, <4>4
    <3>2. CASE q \notin copies /\ x \in Kids(heap, q)
      <4>1. x \in Live(heap) /\ heap[x].parent = q
        BY <1>9, <3>2
      <4> QED
        BY <1>4, <1>8, <4>1 DEF Alike
    <3>3. CASE q = p /\ x = place[n]
      BY <1>1, <1>4, <1>5, <1>7, <3>3
    <3> QED
      BY <1>4, <2>3, <3>1, <3>2, <3>3
  <2>4. ASSUME NEW q \in Settings, NEW i \in 1 .. Len(r[q].kids), NEW j \in 1 .. Len(r[q].kids),
               r[q].kids[i] = r[q].kids[j]
        PROVE  i = j
    <3>1. CASE q \in copies
      <4>1. PICK m \in ms : q = place[m]
        BY <1>3, <3>1
      <4> DEFINE list == CopiedKids(m)
      <4>2. /\ Len(r[q].kids) = Len(list)
            /\ r[q].kids[i] = place[list[i]] /\ r[q].kids[j] = place[list[j]]
        BY <1>5, <2>4, <4>1
      <4>3. list \in Seq(Settings) /\ Once(list) /\ Sifted[m].kids = list
        BY <1>10, SiftedIs
      <4> HIDE DEF list
      <4>4. Len(list) \in Nat /\ DOMAIN list = 1 .. Len(list)
        BY <4>3, LenProperties
      <4>5. list[i] \in ms /\ list[j] \in ms
        <5>1. list[i] \in Kids(Sifted, m) /\ list[j] \in Kids(Sifted, m)
          BY <2>4, <4>2, <4>3, <4>4 DEF Kids
        <5> QED
          BY <1>10, <5>1
      <4>6. list[i] = list[j]
        BY <1>2, <2>4, <4>2, <4>5
      <4> QED
        BY <2>4, <4>2, <4>3, <4>6 DEF Once
    <3>2. CASE q = p
      <4> DEFINE list == heap[p].kids  len == Len(list)
      <4>1. list \in Seq(Settings) /\ len \in Nat /\ place[n] \in Settings
        BY <1>0, <1>4, <1>7, KidsOf
      <4>2. \A x, y \in 1 .. len : list[x] = list[y] => x = y
        BY <1>0 DEF FamilyInv
      <4>3. \A x \in 1 .. len : list[x] # place[n]
        <5>1. \A x \in 1 .. len : list[x] \in Kids(heap, p)
          BY <1>0, KidsOf
        <5> QED
          BY <1>0, <1>7, <1>9, <5>1
      <4>4. r[q].kids = Append(list, place[n])
        BY <1>4, <3>2
      <4> HIDE DEF list
      <4>5. /\ Len(Append(list, place[n])) = len + 1
            /\ \A x \in 1 .. len : Append(list, place[n])[x] = list[x]
            /\ Append(list, place[n])[len + 1] = place[n]
        BY <4>1, AppendKids
      <4>6. i \in 1 .. len + 1 /\ j \in 1 .. len + 1
            /\ Append(list, place[n])[i] = Append(list, place[n])[j]
        BY <2>4, <4>4, <4>5
      <4>7. (i \in 1 .. len \/ i = len + 1) /\ (j \in 1 .. len \/ j = len + 1)
        BY <4>1, <4>6
      <4> QED
        BY <4>2, <4>3, <4>5, <4>6, <4>7
    <3>3. CASE q \notin copies /\ q # p
      <4>1. r[q] = heap[q]
        BY <1>4, <3>3
      <4> QED
        BY <1>0, <2>4, <4>1 DEF FamilyInv
    <3> QED
      BY <3>1, <3>2, <3>3
  <2>5. ASSUME NEW S \in SUBSET Settings, Root \in S, Closed(r, S) PROVE Live(r) \subseteq S
    <3> DEFINE L == S \cap Live(heap)
               V == {m \in ms : place[m] \in S}
    <3>1. Root \in L
      <4>1. Root \in Live(heap)
        BY <1>0, Addresses DEF FamilyInv, Live
      <4> QED
        BY <2>5, <4>1
    <3>2. Closed(heap, L)
      <4> SUFFICES ASSUME NEW m \in L PROVE Kids(heap, m) \subseteq L
        BY DEF Closed
      <4>1. m \in Live(heap) /\ m \in Settings /\ Kids(r, m) \subseteq S
        BY <1>0, <2>5 DEF Closed
      <4> QED
        BY <1>8, <1>9, <4>1
    <3>3. L \in SUBSET Settings
      BY <1>0
    <3>4. Live(heap) \subseteq S
      <4> HIDE DEF L
      <4>1. Live(heap) \subseteq L
        BY <1>0, <3>1, <3>2, <3>3 DEF FamilyInv
      <4> QED
        BY <4>1 DEF L
    <3>5. place[n] \in S
      <4>1. Kids(r, p) \subseteq S
        BY <1>0, <2>5, <3>4 DEF Closed
      <4> QED
        BY <1>4, <4>1
    <3>6. Closed(Sifted, V)
      <4> SUFFICES ASSUME NEW m \in V, NEW y \in Kids(Sifted, m) PROVE y \in V
        BY DEF Closed
      <4>1. m \in ms /\ Kids(r, place[m]) \subseteq S /\ y \in ms
        BY <1>10, <2>5 DEF Closed
      <4>2. place[y] \in Kids(r, place[m])
        BY <1>4, <4>1
      <4> QED
        BY <4>1, <4>2
    <3>7. ms \subseteq V
      <4>1. n \in V
        BY <1>1, <3>5
      <4> HIDE DEF V
      <4> QED
        BY <1>1, <3>6, <4>1
    <3> QED
      BY <1>3, <1>4, <3>4, <3>7
  <2> QED
    BY <2>1, <2>2, <2>3, <2>4, <2>5 DEF FamilyInv
<1>13. ListsInv(r)
  <2> SUFFICES ASSUME NEW q \in Settings
               PROVE  Roomy(r[q]) /\ (r[q].room > 0 => r[q].type \in Aggregates)
    BY DEF ListsInv
  <2>1. CASE q \in copies
    <3>1. PICK m \in ms : q = place[m]
      BY <1>3, <2>1
    <3> DEFINE list == CopiedKids(m)
               len == Len(list)
               d == (len + CHUNK_SIZE - 1) \div CHUNK_SIZE
    <3>2. list \in Seq(Settings) /\ Sifted[m].kids = list /\ len \in Nat
      BY <1>10, SiftedIs, LenProperties
    <3>3. Len(r[q].kids) = len /\ r[q].room = CHUNK_SIZE * d /\ r[q].type = heap[m].type
      BY <1>5, <3>1
    <3>4. /\ d \in Nat /\ CHUNK_SIZE * d \in Nat /\ len <= d * CHUNK_SIZE
          /\ d * CHUNK_SIZE = CHUNK_SIZE * d /\ (len = 0 => CHUNK_SIZE * d = 0)
      BY <3>2, ChunksFit
    <3> HIDE DEF d, len, list
    <3>5. Roomy(r[q])
      <4>1. Len(r[q].kids) <= d * CHUNK_SIZE /\ d * CHUNK_SIZE <= r[q].room
        BY <3>3, <3>4
      <4> QED
        BY <3>4, <4>1 DEF Roomy
    <3>6. ASSUME r[q].room > 0 PROVE heap[m].type \in Aggregates
      <4>1. len # 0 /\ len \in Nat
        BY <3>2, <3>3, <3>4, <3>6
      <4>2. DOMAIN list = 1 .. len /\ 1 \in 1 .. len
        BY <3>2, <4>1, LenProperties DEF len
      <4>3. list[1] \in Kids(Sifted, m)
        BY <3>2, <4>2 DEF Kids
      <4>4. list[1] \in Kids(heap, m) /\ m \in Settings
        BY <1>10, <4>3
      <4> QED
        BY <1>0, <4>4, NoRoom
    <3> QED
      BY <3>3, <3>5, <3>6
  <2>2. CASE q = p
    <3> DEFINE len == Len(heap[p].kids)  room == heap[p].room
    <3>1. len \in Nat
      BY <1>0, KidsOf
    <3>2. room \in Nat
      <4>1. heap[p] \in Setting
        BY <1>0 DEF Heaps
      <4> QED
        BY <4>1 DEF Setting
    <3>3. \E k \in Nat : len <= k * CHUNK_SIZE /\ k * CHUNK_SIZE <= room
      BY <1>0 DEF ListsInv, Roomy
    <3>4. r[p].room = (IF len % CHUNK_SIZE = 0 THEN len + CHUNK_SIZE ELSE room)
      BY <1>4
    <3>5. Len(r[p].kids) = len + 1
      <4>1. heap[p].kids \in Seq(Settings) /\ place[n] \in Settings
        BY <1>0, <1>4, <1>7, KidsOf
      <4> QED
        BY <1>4, <4>1, AppendKids
    <3> HIDE DEF len, room
    <3>6. \A more : more = (IF len % CHUNK_SIZE = 0 THEN len + CHUNK_SIZE ELSE room) =>
            \E k \in Nat : len + 1 <= k * CHUNK_SIZE /\ k * CHUNK_SIZE <= more
      BY <3>1, <3>2, <3>3, NextRoom
    <3>7. \E k \in Nat : len + 1 <= k * CHUNK_SIZE /\ k * CHUNK_SIZE <= r[p].room
      BY <3>4, <3>6, Zenon
    <3>8. Roomy(r[p])
      BY <3>5, <3>7 DEF Roomy
    <3>9. r[p].type \in Aggregates
      BY <1>4, <1>6 DEF Alike
    <3> QED
      BY <2>2, <3>8, <3>9
  <2>3. CASE q \notin copies /\ q # p
    <3>1. r[q] = heap[q]
      BY <1>4, <2>3
    <3> QED
      BY <1>0, <3>1 DEF ListsInv
  <2> QED
    BY <2>1, <2>2, <2>3
<1>14. NamesInv(r)
  <2> SUFFICES ASSUME NEW q \in Settings, NEW x \in Kids(r, q)
               PROVE  /\ r[q].type = "GROUP" <=> r[x].name # NoName
                      /\ \A z \in Kids(r, q) : x # z /\ r[x].name # NoName => r[x].name # r[z].name
    BY DEF NamesInv
  <2>1. CASE q \in copies
    <3>1. PICK m \in ms : q = place[m]
      BY <1>3, <2>1
    <3>2. r[q].type = heap[m].type /\ m \in Settings
      BY <1>5, <1>10, <3>1
    <3>3. ASSUME NEW y \in ms, y # n, y \in Kids(heap, m), heap[y].parent = m
          PROVE  r[place[y]].name = heap[y].name
      <4>1. r[place[y]].name = AddedName(heap, m, heap[y].name)
        BY <1>5, <3>3
      <4>2. heap[m].type = "GROUP" <=> heap[y].name # NoName
        BY <1>0, <3>2, <3>3 DEF NamesInv
      <4> QED
        BY <4>1, <4>2 DEF AddedName
    <3>4. PICK y \in ms : x = place[y] /\ y # n /\ y \in Kids(heap, m) /\ heap[y].parent = m
      BY <1>11, <3>1
    <3>5. r[x].name = heap[y].name /\ (heap[m].type = "GROUP" <=> heap[y].name # NoName)
      BY <1>0, <3>2, <3>3, <3>4 DEF NamesInv
    <3>6. ASSUME NEW z \in Kids(r, q), x # z, r[x].name # NoName PROVE r[x].name # r[z].name
      <4>1. PICK u \in ms : z = place[u] /\ u # n /\ u \in Kids(heap, m) /\ heap[u].parent = m
        BY <1>11, <3>1, <3>6
      <4>2. r[z].name = heap[u].name /\ u # y
        BY <3>3, <3>4, <3>6, <4>1
      <4> QED
        BY <1>0, <3>2, <3>4, <3>5, <3>6, <4>1, <4>2 DEF NamesInv
    <3> QED
      BY <3>2, <3>5, <3>6
  <2>2. CASE q \notin copies
    <3>1. \A y \in Kids(heap, q) : y \in Live(heap) /\ r[y].name = heap[y].name /\ y # place[n]
      BY <1>7, <1>8, <1>9, <2>2 DEF Alike
    <3>2. r[q].type = heap[q].type
      BY <1>4, <2>2 DEF Alike
    <3>3. \A y \in Kids(heap, q) :
            /\ heap[q].type = "GROUP" <=> heap[y].name # NoName
            /\ \A z \in Kids(heap, q) : y # z /\ heap[y].name # NoName => heap[y].name # heap[z].name
      BY <1>0 DEF NamesInv
    <3>4. CASE q # p
      <4>1. Kids(r, q) = Kids(heap, q)
        BY <1>4, <2>2, <3>4
      <4> QED
        BY <3>1, <3>2, <3>3, <4>1
    <3>5. CASE q = p
      <4>1. r[place[n]].name = called
        BY <1>1, <1>5 DEF called
      <4>2. Kids(r, q) = Kids(heap, q) \cup {place[n]}
        BY <1>4, <3>5
      <4>3. /\ heap[q].type = "GROUP" <=> called # NoName
            /\ \A y \in Kids(heap, q) : called # NoName => heap[y].name # called
        BY <1>6, <3>5 DEF MayBeNamed
      <4> QED
        BY <3>1, <3>2, <3>3, <4>1, <4>2, <4>3
    <3> QED
      BY <3>4, <3>5
  <2> QED
    BY <2>1, <2>2
<1> QED
  BY <1>4, <1>12, <1>13, <1>14 DEF TreeInv, r

\* A copy has no objects, and numbers that fit as they did.
LEMMA CopySound ==
  ASSUME Inv, InC, NEW p, NEW n, MayCopy(p, n)
  PROVE  Sound(api, Copied(p, n), objs)
<1> DEFINE ms == Subtree(Sifted, n)
           place == PlaceOf(n)
           copies == CopiesOf(n)
           r == Copied(p, n)
<1>0. /\ TreeInv(heap) /\ NumbersInv(heap) /\ WrapInv(api, heap, objs) /\ api = "C"
      /\ p \in Live(heap) /\ n \in Live(heap) /\ Live(heap) \subseteq Settings /\ "C" # "C++"
  BY DEF Inv, Sound, InC, MayCopy, Live
<1>1. TreeInv(r)
  BY <1>0, CopyTree
<1>2. /\ r \in Heaps /\ Live(r) = Live(heap) \cup copies
      /\ copies \subseteq Settings \ Live(heap)
      /\ \A m \in ms : /\ r[place[m]] = CopyOf(p, n, m)
                       /\ Kids(r, place[m]) = {place[x] : x \in Kids(Sifted, m)}
      /\ \A a \in Settings \ (copies \cup {p}) : r[a] = heap[a] /\ Kids(r, a) = Kids(heap, a)
      /\ Alike(r[p], heap[p]) /\ r[p].hook = heap[p].hook /\ r[p].val = heap[p].val
      /\ r[p].kids = Append(heap[p].kids, place[n])
      /\ r[p].room = IF Len(heap[p].kids) % CHUNK_SIZE = 0
                     THEN Len(heap[p].kids) + CHUNK_SIZE ELSE heap[p].room
      /\ Kids(r, p) = Kids(heap, p) \cup {place[n]}
  BY <1>0, CopiedIs
<1>3. copies = {place[m] : m \in ms} /\ ms \subseteq Live(heap)
  BY <1>0, SiftedBelow DEF CopiesOf
<1>4. ASSUME NEW m \in ms
      PROVE  LET s == CopyOf(p, n, m) IN
             s.type = heap[m].type /\ s.val = heap[m].val /\ s.hook = Null
  <2> DEFINE s == CopyOf(p, n, m)
             len == Len(CopiedKids(m))
  <2>1. /\ s \in Setting
        /\ s.type = heap[m].type /\ s.val = heap[m].val /\ s.hook = Null
        /\ s.name = AddedName(heap, IF m = n THEN p ELSE heap[m].parent, heap[m].name)
        /\ s.parent = IF m = n THEN p ELSE place[heap[m].parent]
        /\ Len(s.kids) = len /\ \A i \in 1 .. len : s.kids[i] = place[CopiedKids(m)[i]]
        /\ s.room = CHUNK_SIZE * ((len + CHUNK_SIZE - 1) \div CHUNK_SIZE)
    BY <1>0, CopyOfIs
  <2> QED
    BY <2>1, Zenon
<1> HIDE DEF ms, place, copies, r
<1>5. \A a \in Live(heap) : /\ r[a].type = heap[a].type /\ r[a].hook = heap[a].hook
                            /\ r[a].val = heap[a].val
  BY <1>0, <1>2 DEF Alike
<1>6. \A a \in copies : r[a].hook = Null
  BY <1>2, <1>3, <1>4
<1>7. NumbersInv(r)
  <2> SUFFICES ASSUME NEW a \in Live(r) PROVE Ranged(r[a])
    BY DEF NumbersInv
  <2>1. CASE a \in Live(heap)
    BY <1>0, <1>5, <2>1 DEF NumbersInv, Ranged
  <2>2. CASE a \in copies
    <3>1. PICK m \in ms : a = place[m]
      BY <1>3, <2>2
    <3>2. m \in Live(heap) /\ r[a].type = heap[m].type /\ r[a].val = heap[m].val
      BY <1>2, <1>3, <1>4, <3>1
    <3> QED
      BY <1>0, <3>2 DEF NumbersInv, Ranged
  <2> QED
    BY <1>2, <2>1, <2>2
<1>8. WrapInv(api, r, objs)
  <2>1. \A a \in Live(r) : r[a].hook = Null \/ (r[a].hook = a /\ objs[a].setting = a)
    BY <1>0, <1>2, <1>5, <1>6 DEF WrapInv
  <2>2. ASSUME NEW o \in 1 .. Objects, objs[o] # NoObject
        PROVE  /\ o \in Live(r) /\ objs[o].setting = o /\ r[o].hook = o
               /\ api = "C++" => objs[o].type = r[o].type
    BY <1>0, <1>2, <1>5, <2>2 DEF WrapInv
  <2> QED
    BY <1>0, <2>1, <2>2 DEF WrapInv
<1> QED
  BY <1>0, <1>1, <1>7, <1>8 DEF Sound, r
-----------------------------------------------------------------------------
(* The calls.                                                              *)

\* A call that leaves the tree as it was and makes objects.
LEMMA BecomesWorld ==
  ASSUME Inv, NEW w \in Worlds(api, heap), Become(w)
  PROVE  Inv'
<1>1. Sound(api, w.heap, w.objs)
  BY DEF Worlds
<1> QED
  BY <1>1, Becomes

\* What a call may reach from a setting.
LEMMA ReachesLive ==
  ASSUME Inv, NEW n \in Live(heap)
  PROVE  /\ \A m \in Kids(heap, n) : m \in Live(heap)
         /\ heap[n].parent # Null => heap[n].parent \in Live(heap)
         /\ \A name : GetMember(heap, n, name) # Null => GetMember(heap, n, name) \in Live(heap)
         /\ \A i : GetElem(heap, n, i) # Null => GetElem(heap, n, i) \in Live(heap)
<1>0. TreeInv(heap) /\ n \in Settings
  BY DEF Inv, Sound, Live
<1>1. \A m \in Kids(heap, n) : m \in Live(heap)
  BY <1>0 DEF TreeInv, FamilyInv
<1>2. heap[n].parent # Null => heap[n].parent \in Live(heap)
  BY <1>0 DEF TreeInv, FamilyInv
<1>3. ASSUME NEW name, GetMember(heap, n, name) # Null PROVE GetMember(heap, n, name) \in Live(heap)
  BY <1>0, <1>1, <1>3, GetMemberIs
<1>4. ASSUME NEW i, GetElem(heap, n, i) # Null PROVE GetElem(heap, n, i) \in Live(heap)
  BY <1>0, <1>1, <1>4, GetElemIs
<1> QED
  BY <1>1, <1>2, <1>3, <1>4

\* The worlds a call that looks, or that throws, may lead to.
LEMMA LookWorlds ==
  ASSUME Inv, NEW n \in Live(heap)
  PROVE  /\ Wrapped(World, n) \in Worlds(api, heap)
         /\ Thrown(World, n) \in Worlds(api, heap)
         /\ \A kind : Converted(Wrapped(World, n), n, kind) \in Worlds(api, heap)
<1>1. TreeInv(heap) /\ World \in Worlds(api, heap)
  BY WorldIs DEF Inv, Sound
<1>2. Wrapped(World, n) \in Worlds(api, heap)
  BY <1>1, WrappedWorld
<1>3. Thrown(World, n) \in Worlds(api, heap)
  BY <1>1, ThrownWorld
<1>4. Thrown(Wrapped(World, n), n) \in Worlds(api, heap)
  BY <1>1, <1>2, ThrownWorld
<1> QED
  BY <1>2, <1>3, <1>4 DEF Converted

\* A setting is given another content.
LEMMA Touched ==
  ASSUME Inv, NEW n \in Live(heap), NEW s \in Setting,
         s.parent = heap[n].parent, s.name = heap[n].name, s.kids = heap[n].kids,
         s.room = heap[n].room, s.hook = heap[n].hook,
         s.type = heap[n].type \/ (InC /\ heap[n].type = "NONE" /\ s.type \in Types),
         Ranged(s),
         Become([World EXCEPT !.heap[n] = s])
  PROVE  Inv'
<1> DEFINE w == [World EXCEPT !.heap[n] = s]
<1>1. w.heap = [heap EXCEPT ![n] = s] /\ w.objs = objs
  BY DEF World
<1>2. Sound(api, heap, objs)
  BY DEF Inv
<1>3. Sound(api, [heap EXCEPT ![n] = s], objs)
  BY <1>2, TouchedSound DEF InC
<1> HIDE DEF w
<1>4. Sound(api, w.heap, w.objs)
  BY <1>1, <1>3
<1>5. Become(w)
  BY DEF w
<1> QED
  BY <1>4, <1>5, Becomes

\* A setting is set, by a setter that accepts the value.
LEMMA SetTouches ==
  ASSUME Inv, NEW n \in Live(heap), NEW kind \in Scalars, NEW v \in ValuesOf(kind),
         SetAccepts(heap[n].type, kind, auto), InC \/ heap[n].type # "NONE",
         NEW s \in SetResults(heap[n], kind, v), Become([World EXCEPT !.heap[n] = s])
  PROVE  Inv'
<1>1. heap[n] \in Setting /\ auto \in BOOLEAN
  BY DEF Inv, Sound, TreeInv, Heaps, Live
<1>2. /\ s \in Setting
      /\ s.parent = heap[n].parent /\ s.name = heap[n].name /\ s.kids = heap[n].kids
      /\ s.room = heap[n].room
      /\ s.hook = heap[n].hook /\ s.type = IF heap[n].type = "NONE" THEN kind ELSE heap[n].type
      /\ Ranged(s)
  BY <1>1, SetResultsFit
<1>3. kind \in Types
  BY DEF Types
<1> QED
  BY <1>2, <1>3, Touched

\* The format of a setting is set.
LEMMA FormatTouches ==
  ASSUME Inv, NEW n \in Live(heap), NEW f \in Formats,
         Become([World EXCEPT !.heap[n].fmt = f])
  PROVE  Inv'
<1> DEFINE s == [heap[n] EXCEPT !.fmt = f]
<1>1. heap[n] \in Setting /\ heap \in Heaps /\ n \in Settings /\ NumbersInv(heap)
  BY DEF Inv, Sound, TreeInv, Heaps, Live
<1>2. /\ s \in Setting /\ s.parent = heap[n].parent /\ s.name = heap[n].name
      /\ s.kids = heap[n].kids /\ s.room = heap[n].room /\ s.hook = heap[n].hook
      /\ s.type = heap[n].type /\ s.val = heap[n].val
  BY <1>1 DEF Setting
<1>3. Ranged(s)
  BY <1>1, <1>2 DEF NumbersInv, Ranged
<1>4. Become([World EXCEPT !.heap[n] = s])
  <2>1. [World EXCEPT !.heap[n].fmt = f] = [World EXCEPT !.heap[n] = s]
    BY <1>1 DEF World, Heaps
  <2> QED
    BY <2>1, Zenon
<1> HIDE DEF s
<1> QED
  BY <1>2, <1>3, <1>4, Touched

\* An element or a member is removed.
LEMMA Removed ==
  ASSUME Inv, NEW p \in Live(heap)
  PROVE  /\ \A name : CanRemove(heap, p, name) =>
              Sound(api, RemoveNamed(heap, p, name),
                    Released(heap, Subtree(heap, GetMember(heap, p, name))))
         /\ \A i : CanRemoveElem(heap, p, i) =>
              Sound(api, RemoveElem(heap, p, i),
                    Released(heap, Subtree(heap, GetElem(heap, p, i))))
<1>0. TreeInv(heap)
  BY DEF Inv, Sound
<1>1. ASSUME NEW name, CanRemove(heap, p, name)
      PROVE  Sound(api, RemoveNamed(heap, p, name),
                   Released(heap, Subtree(heap, GetMember(heap, p, name))))
  <2> DEFINE m == GetMember(heap, p, name)
             i == ListSearch(heap, p, name)
  <2>1. i \in 1 .. Len(heap[p].kids) /\ heap[p].kids[i] = m
    BY <1>0, <1>1, GetMemberIs DEF CanRemove
  <2>2. RemoveNamed(heap, p, name) = SettingDestroy(ListRemove(heap, p, i), m)
    BY DEF RemoveNamed
  <2> HIDE DEF m, i
  <2>3. Sound(api, SettingDestroy(ListRemove(heap, p, i), m), Released(heap, Subtree(heap, m)))
    BY <2>1, RemoveSound
  <2> QED
    BY <2>2, <2>3 DEF m
<1>2. ASSUME NEW i, CanRemoveElem(heap, p, i)
      PROVE  Sound(api, RemoveElem(heap, p, i),
                   Released(heap, Subtree(heap, GetElem(heap, p, i))))
  <2> DEFINE m == GetElem(heap, p, i)
  <2>1. i \in 1 .. Len(heap[p].kids) /\ heap[p].kids[i] = m
    BY <1>0, <1>2, GetElemIs DEF CanRemoveElem
  <2>2. RemoveElem(heap, p, i) = SettingDestroy(ListRemove(heap, p, i), m)
    BY DEF RemoveElem
  <2> HIDE DEF m
  <2>3. Sound(api, SettingDestroy(ListRemove(heap, p, i), m), Released(heap, Subtree(heap, m)))
    BY <2>1, RemoveSound
  <2> QED
    BY <2>2, <2>3 DEF m
<1> QED
  BY <1>1, <1>2

\* A world is given by its parts.
LEMMA BecomesParts ==
  ASSUME Inv, NEW h, NEW ob, Sound(api, h, ob), Become([heap |-> h, objs |-> ob])
  PROVE  Inv'
<1> DEFINE w == [heap |-> h, objs |-> ob]
<1>1. w.heap = h /\ w.objs = ob
  OBVIOUS
<1> HIDE DEF w
<1>2. Sound(api, w.heap, w.objs)
  BY <1>1
<1>3. Become(w)
  BY DEF w
<1> QED
  BY <1>2, <1>3, Becomes

\* An object for a setting that was just added.
LEMMA AddedSound ==
  ASSUME NEW a, NEW h, NEW ob, Sound(a, h, ob), NEW p \in Live(h), HasRoom(h),
         h[p].type \in Aggregates, NEW name \in Names \cup {NoName}, NEW type \in Types,
         MayBeNamed(h, p, name),
         a = "C++" /\ h[p].type = "ARRAY" =>
           type \in Scalars /\ \A m \in Kids(h, p) : h[m].type = type
  PROVE  LET v == Wrapped([heap |-> SettingCreate(h, p, name, type), objs |-> ob], Address(h))
         IN  Sound(a, v.heap, v.objs)
<1> DEFINE g == SettingCreate(h, p, name, type)
           n == Address(h)
           v == Wrapped([heap |-> g, objs |-> ob], n)
<1>1. Sound(a, g, ob) /\ n \in Live(g)
  BY CreateSound
<1> HIDE DEF g, n
<1>2. /\ v = [heap |-> v.heap, objs |-> v.objs]
      /\ Sound(a, v.heap, v.objs) /\ SameTree(v.heap, g) /\ Live(v.heap) = Live(g)
  BY <1>1, WrappedSound
<1> QED
  BY <1>2 DEF g, n
\* The calls of the C++ interface that look, convert or set.
LEMMA LookSteps ==
  ASSUME Inv, InCpp
  PROVE  /\ \A path \in Paths : /\ ConfigLookup(path) => Inv'
                                /\ \A kind : ConfigLookupValue(path, kind) => Inv'
         /\ \A n \in Live(heap) :
              /\ \A name, kind : SettingLookupValue(n, name, kind) => Inv'
              /\ SettingGetParent(n) => Inv'
              /\ \A i : SettingAt(n, i) => Inv'
              /\ \A name : SettingNamed(n, name) => Inv'
              /\ \A kind : SettingGet(n, kind) => Inv'
<1>1. \A w \in Worlds(api, heap) : Become(w) => Inv'
  BY BecomesWorld
<1>2. \A n \in Live(heap) :
        /\ Wrapped(World, n) \in Worlds(api, heap)
        /\ Thrown(World, n) \in Worlds(api, heap)
        /\ \A kind : Converted(Wrapped(World, n), n, kind) \in Worlds(api, heap)
  BY LookWorlds
<1>3. \A n \in Live(heap) :
        /\ heap[n].parent # Null => heap[n].parent \in Live(heap)
        /\ \A name : GetMember(heap, n, name) # Null => GetMember(heap, n, name) \in Live(heap)
        /\ \A i : GetElem(heap, n, i) # Null => GetElem(heap, n, i) \in Live(heap)
  BY ReachesLive
<1>4. ASSUME NEW path \in Paths PROVE LookupFrom(heap, Root, path) \in Live(heap)
  <2>1. PICK m \in Live(heap) : path = ConstructPath(heap, m)
    BY DEF Paths
  <2>2. LookupFrom(heap, Root, path) = m
    BY <2>1, PathLeadsHome DEF Inv, Sound
  <2> QED
    BY <2>2
<1>5. ASSUME NEW path \in Paths, ConfigLookup(path) PROVE Inv'
  BY <1>1, <1>2, <1>4, <1>5 DEF ConfigLookup
<1>6. ASSUME NEW path \in Paths, NEW kind, ConfigLookupValue(path, kind) PROVE Inv'
  BY <1>1, <1>2, <1>4, <1>6 DEF ConfigLookupValue
<1>7. ASSUME NEW n \in Live(heap), NEW name, NEW kind, SettingLookupValue(n, name, kind) PROVE Inv'
  <2> DEFINE m == GetMember(heap, n, name)
  <2>1. CASE TypeIs(n, "GROUP") /\ m # Null
    BY <1>1, <1>2, <1>3, <1>7, <2>1 DEF SettingLookupValue
  <2>2. CASE ~(TypeIs(n, "GROUP") /\ m # Null)
    BY <1>1, <1>2, <1>7, <2>2 DEF SettingLookupValue
  <2> QED
    BY <2>1, <2>2
<1>8. ASSUME NEW n \in Live(heap), SettingGetParent(n) PROVE Inv'
  BY <1>1, <1>2, <1>3, <1>8 DEF SettingGetParent
<1>9. ASSUME NEW n \in Live(heap), NEW i, SettingAt(n, i) PROVE Inv'
  <2>1. CASE TypeOf(n) \in Aggregates /\ GetElem(heap, n, i) # Null
    BY <1>1, <1>2, <1>3, <1>9, <2>1 DEF SettingAt
  <2>2. CASE ~(TypeOf(n) \in Aggregates /\ GetElem(heap, n, i) # Null)
    BY <1>1, <1>2, <1>9, <2>2 DEF SettingAt
  <2> QED
    BY <2>1, <2>2
<1>10. ASSUME NEW n \in Live(heap), NEW name, SettingNamed(n, name) PROVE Inv'
  <2>1. CASE TypeIs(n, "GROUP") /\ GetMember(heap, n, name) # Null
    BY <1>1, <1>2, <1>3, <1>10, <2>1 DEF SettingNamed
  <2>2. CASE ~(TypeIs(n, "GROUP") /\ GetMember(heap, n, name) # Null)
    BY <1>1, <1>2, <1>10, <2>2 DEF SettingNamed
  <2> QED
    BY <2>1, <2>2
<1>11. ASSUME NEW n \in Live(heap), NEW kind, SettingGet(n, kind) PROVE Inv'
  BY <1>1, <1>2, <1>11 DEF SettingGet
<1> QED
  BY <1>5, <1>6, <1>7, <1>8, <1>9, <1>10, <1>11

\* What assertType accepts.
LEMMA TypeIsThen ==
  ASSUME Inv, InCpp, NEW n \in Live(heap), Handle(n), NEW kind, TypeIs(n, kind)
  PROVE  /\ kind \in Scalars => heap[n].type # "NONE"
         /\ kind = "GROUP" => heap[n].type = "GROUP"
<1>1. TypeOf(n) = heap[n].type
  BY HandleKnows
<1> QED
  BY <1>1 DEF TypeIs, Admits, Scalars, Numbers

\* The calls of the C++ interface that change a setting, or remove one.
LEMMA ChangeSteps ==
  ASSUME Inv, InCpp, NEW n \in Live(heap)
  PROVE  /\ \A kind \in Scalars : \A v \in ValuesOf(kind) : SettingAssign(n, kind, v) => Inv'
         /\ \A f \in FormatsTried : SettingSetFormat(n, f) => Inv'
         /\ \A name : SettingRemove(n, name) => Inv'
         /\ \A i : SettingRemoveAt(n, i) => Inv'
<1>1. Become(Thrown(World, n)) => Inv'
  BY LookWorlds, BecomesWorld
<1>2. ASSUME NEW kind \in Scalars, NEW v \in ValuesOf(kind), SettingAssign(n, kind, v) PROVE Inv'
  <2>1. CASE ~TypeIs(n, kind)
    BY <1>1, <1>2, <2>1 DEF SettingAssign
  <2>2. CASE TypeIs(n, kind)
    <3>1. Handle(n) /\ SetAccepts(heap[n].type, kind, auto)
      BY <1>2, <2>2 DEF SettingAssign
    <3>2. PICK s \in SetResults(heap[n], kind, v) : Become([World EXCEPT !.heap[n] = s])
      BY <1>2, <2>2 DEF SettingAssign
    <3>3. heap[n].type # "NONE"
      BY <2>2, <3>1, TypeIsThen
    <3> QED
      BY <3>1, <3>2, <3>3, SetTouches
  <2> QED
    BY <2>1, <2>2
<1>3. ASSUME NEW f \in FormatsTried, SettingSetFormat(n, f) PROVE Inv'
  <2>1. PICK x \in Formats : Become([World EXCEPT !.heap[n].fmt = x])
    <3>1. f \in Formats /\ "DEFAULT" \in Formats
      BY ClientsAssumption DEF ClientsAssumption, Formats
    <3> DEFINE x == IF TypeOf(n) \in {"INT", "INT64"} THEN f ELSE "DEFAULT"
    <3>2. x \in Formats
      BY <3>1
    <3>3. Become([World EXCEPT !.heap[n].fmt = x])
      BY <1>3 DEF SettingSetFormat
    <3> HIDE DEF x
    <3> QED
      BY <3>2, <3>3
  <2> QED
    BY <2>1, FormatTouches
<1>4. ASSUME NEW name, SettingRemove(n, name) PROVE Inv'
  <2> DEFINE h == RemoveNamed(heap, n, name)
             ob == Released(heap, Subtree(heap, GetMember(heap, n, name)))
  <2>1. CASE TypeIs(n, "GROUP") /\ CanRemove(heap, n, name)
    <3>1. Become([heap |-> h, objs |-> ob])
      BY <1>4, <2>1 DEF SettingRemove
    <3>2. Sound(api, h, ob)
      BY <2>1, Removed
    <3> HIDE DEF h, ob
    <3> QED
      BY <3>1, <3>2, BecomesParts
  <2>2. CASE ~(TypeIs(n, "GROUP") /\ CanRemove(heap, n, name))
    BY <1>1, <1>4, <2>2 DEF SettingRemove
  <2> QED
    BY <2>1, <2>2
<1>5. ASSUME NEW i, SettingRemoveAt(n, i) PROVE Inv'
  <2> DEFINE h == RemoveElem(heap, n, i)
             ob == Released(heap, Subtree(heap, GetElem(heap, n, i)))
  <2>1. CASE TypeOf(n) \in Aggregates /\ CanRemoveElem(heap, n, i)
    <3>1. Become([heap |-> h, objs |-> ob])
      BY <1>5, <2>1 DEF SettingRemoveAt
    <3>2. Sound(api, h, ob)
      BY <2>1, Removed
    <3> HIDE DEF h, ob
    <3> QED
      BY <3>1, <3>2, BecomesParts
  <2>2. CASE ~(TypeOf(n) \in Aggregates /\ CanRemoveElem(heap, n, i))
    BY <1>1, <1>5, <2>2 DEF SettingRemoveAt
  <2> QED
    BY <2>1, <2>2
<1> QED
  BY <1>2, <1>3, <1>4, <1>5

\* Setting::add with a name.
LEMMA AddStep ==
  ASSUME Inv, InCpp, NEW n \in Live(heap), NEW type \in TypesTried,
         NEW name \in Names \cup {BadName}, SettingAdd(n, name, type)
  PROVE  Inv'
<1>1. CASE ~(TypeIs(n, "GROUP") /\ type # "NONE" /\ CanAdd(heap, n, name))
  <2>1. Become(Thrown(World, n))
    BY <1>1 DEF SettingAdd
  <2> QED
    BY <2>1, LookWorlds, BecomesWorld
<1>2. CASE TypeIs(n, "GROUP") /\ type # "NONE" /\ CanAdd(heap, n, name)
  <2> DEFINE called == AddedName(heap, n, name)
             h == SettingCreate(heap, n, called, type)
             v == Wrapped([heap |-> h, objs |-> objs], Address(heap))
  <2>1. HasRoom(heap) /\ Handle(n) /\ heap[n].type = "GROUP" /\ name # NoName /\ type \in Types
        /\ Sound(api, heap, objs) /\ TreeInv(heap)
    <3>1. HasRoom(heap) /\ Handle(n)
      BY DEF SettingAdd
    <3>2. name # NoName /\ type \in Types
      BY SettingsAssumption, ClientsAssumption DEF SettingsAssumption, ClientsAssumption
    <3> QED
      BY <1>2, <3>1, <3>2, TypeIsThen DEF Inv, Sound
  <2>2. MayBeNamed(heap, n, called) /\ called \in Names \cup {NoName}
        /\ heap[n].type \in Aggregates
    BY <1>2, <2>1, MayAdd
  <2>3. Sound(api, v.heap, v.objs)
    <3> HIDE DEF called
    <3> QED
      BY <2>1, <2>2, AddedSound
  <2>4. Become(v)
    <3>1. [World EXCEPT !.heap = Add(heap, n, name, type)] = [heap |-> h, objs |-> objs]
      BY DEF World, Add
    <3> QED
      BY <1>2, <3>1 DEF SettingAdd
  <2> HIDE DEF v
  <2> QED
    BY <2>3, <2>4, Becomes
<1> QED
  BY <1>1, <1>2

\* Setting::add without a name.
LEMMA AppendStep ==
  ASSUME Inv, InCpp, NEW n \in Live(heap), NEW type \in TypesTried, SettingAppend(n, type)
  PROVE  Inv'
<1> DEFINE w == Looked(n)
<1>0. /\ HasRoom(heap) /\ Handle(n) /\ TypeOf(n) = heap[n].type /\ type \in Types
      /\ Sound(api, heap, objs) /\ TreeInv(heap) /\ heap \in Heaps /\ n \in Settings
      /\ ArraysInv(heap) /\ api = "C++"
  <2>1. HasRoom(heap) /\ Handle(n)
    BY DEF SettingAppend
  <2>2. type \in Types
    BY ClientsAssumption DEF ClientsAssumption
  <2> QED
    BY <2>1, <2>2, HandleKnows DEF Inv, InCpp, Sound, TreeInv, Live
<1>1. heap[n].kids # <<>> => heap[n].kids[1] \in Kids(heap, n)
  <2>1. heap[n].kids \in Seq(Settings)
    BY <1>0, KidsOf
  <2>2. heap[n].kids # <<>> => 1 \in DOMAIN heap[n].kids
    BY <2>1
  <2> QED
    BY <2>2 DEF Kids
<1>2. w \in Worlds(api, heap)
  <2>1. World \in Worlds(api, heap)
    BY WorldIs
  <2>2. ASSUME heap[n].kids # <<>> PROVE Wrapped(World, heap[n].kids[1]) \in Worlds(api, heap)
    <3>1. heap[n].kids[1] \in Live(heap)
      BY <1>1, <2>2, ReachesLive
    <3> QED
      BY <3>1, LookWorlds
  <2> QED
    BY <2>1, <2>2 DEF Looked
<1> HIDE DEF w
<1>3. CASE ~AppendAccepts(n, type)
  <2> DEFINE up == Ancestors(heap, n)
             last == LET To[k \in 1 .. Len(up)] == IF k = 1 THEN w ELSE Wrapped(To[k - 1], up[k])
                     IN  To[Len(up)]
  <2>1. WayUp(up, heap, n)
    BY <1>0, AncestorsProperties
  <2>2. Become(last)
    BY <1>3 DEF SettingAppend, w
  <2> HIDE DEF up
  <2>3. up \in Seq(Live(heap)) /\ Len(up) \in Nat /\ Len(up) >= 1
    BY <2>1 DEF WayUp
  <2>4. \A x : x = last => x \in Worlds(api, heap)
    BY <1>0, <1>2, <2>3, ClimbSound, Zenon
  <2> HIDE DEF last
  <2> QED
    BY <2>2, <2>4, BecomesWorld
<1>4. CASE AppendAccepts(n, type)
  <2> DEFINE h == w.heap
             ob == w.objs
             g == SettingCreate(h, n, NoName, type)
             v == Wrapped([heap |-> g, objs |-> ob], Address(heap))
  <2>1. /\ Sound(api, h, ob) /\ SameTree(h, heap) /\ Live(h) = Live(heap)
        /\ w = [heap |-> h, objs |-> ob]
    BY <1>2 DEF Worlds
  <2> HIDE DEF h, ob
  <2>2. /\ TreeInv(h) /\ (\A m \in Settings : Kids(h, m) = Kids(heap, m))
        /\ HasRoom(h) /\ Address(h) = Address(heap) /\ n \in Live(h)
    BY <1>0, <2>1, SameTreeIs
  <2>3. \A m \in Settings : h[m].type = heap[m].type
    BY <2>1 DEF SameTree, Alike
  <2>4. h[n].type \in {"ARRAY", "LIST"}
    BY <1>0, <1>4, <2>3 DEF AppendAccepts
  <2>5. MayBeNamed(h, n, NoName) /\ h[n].type \in Aggregates
    BY <2>4 DEF MayBeNamed, Aggregates
  <2>6. ASSUME h[n].type = "ARRAY"
        PROVE  type \in Scalars /\ \A m \in Kids(h, n) : h[m].type = type
    <3>1. TypeOf(n) = "ARRAY" /\ heap[n].type = "ARRAY"
      BY <1>0, <2>3, <2>6
    <3>2. IF heap[n].kids = <<>> THEN type \in Scalars ELSE type = heap[heap[n].kids[1]].type
      BY <1>4, <3>1 DEF AppendAccepts
    <3>3. CASE heap[n].kids = <<>>
      <4>1. Kids(heap, n) = {}
        <5>1. DOMAIN heap[n].kids = {}
          BY <3>3
        <5> QED
          BY <5>1 DEF Kids
      <4> QED
        BY <1>0, <2>2, <3>2, <3>3, <4>1
    <3>4. CASE heap[n].kids # <<>>
      <4>1. \A m \in Kids(heap, n) : heap[m].type \in Scalars /\ heap[m].type = type
        BY <1>0, <1>1, <3>1, <3>2, <3>4 DEF ArraysInv
      <4>2. type \in Scalars
        BY <1>1, <3>2, <3>4, <4>1
      <4>3. \A m \in Kids(h, n) : m \in Settings /\ m \in Kids(heap, n)
        BY <1>0, <2>2, KidsOf
      <4> QED
        BY <2>3, <4>1, <4>2, <4>3
    <3> QED
      BY <3>3, <3>4
  <2>7. Sound(api, v.heap, v.objs)
    <3> DEFINE u == Wrapped([heap |-> g, objs |-> ob], Address(h))
    <3>1. NoName \in Names \cup {NoName}
      OBVIOUS
    <3>2. Sound(api, u.heap, u.objs)
      BY <1>0, <2>1, <2>2, <2>5, <2>6, <3>1, AddedSound
    <3> QED
      BY <2>2, <3>2
  <2>8. Become(v)
    <3>1. [Looked(n) EXCEPT !.heap = Add(@, n, NoName, type)] = [heap |-> g, objs |-> ob]
      <4>1. AddedName(h, n, NoName) = NoName
        BY DEF AddedName
      <4>2. Looked(n) = [heap |-> h, objs |-> ob]
        BY <2>1 DEF w
      <4>3. [Looked(n) EXCEPT !.heap = Add(@, n, NoName, type)] = [heap |-> Add(h, n, NoName, type), objs |-> ob]
        BY <4>2
      <4> QED
        BY <4>1, <4>3 DEF Add
    <3> QED
      BY <1>4, <3>1 DEF SettingAppend
  <2> HIDE DEF v
  <2> QED
    BY <2>7, <2>8, Becomes
<1> QED
  BY <1>3, <1>4
\* The calls of the C interface.
LEMMA CSteps ==
  ASSUME Inv, InC, NEW n \in Live(heap)
  PROVE  /\ \A i : CRemoveElem(n, i) => Inv'
         /\ \A name : CRemove(n, name) => Inv'
         /\ \A kind \in Scalars : \A v \in ValuesOf(kind) :
              /\ CSet(n, kind, v) => Inv'
              /\ \A i : CSetElem(n, i, kind, v) => Inv'
         /\ \A f \in FormatsTried : CSetFormat(n, f) => Inv'
         /\ \A type \in TypesTried, name \in Names \cup {BadName, NoName} :
              CAdd(n, name, type) => Inv'
         /\ CSetHook(n) => Inv'
         /\ \A m \in Live(heap) : CCopy(m, n) => Inv'
<1>0. TreeInv(heap) /\ Sound(api, heap, objs) /\ api = "C" /\ "C" # "C++" /\ heap \in Heaps
      /\ n \in Settings /\ auto \in BOOLEAN
  BY DEF Inv, Sound, InC, TreeInv, Live
<1>1. ASSUME NEW i, CRemoveElem(n, i) PROVE Inv'
  <2> DEFINE h == RemoveElem(heap, n, i)
             ob == Released(heap, Subtree(heap, GetElem(heap, n, i)))
  <2>1. Become([heap |-> h, objs |-> ob]) /\ CanRemoveElem(heap, n, i)
    BY <1>1 DEF CRemoveElem
  <2>2. Sound(api, h, ob)
    BY <2>1, Removed
  <2> HIDE DEF h, ob
  <2> QED
    BY <2>1, <2>2, BecomesParts
<1>2. ASSUME NEW name, CRemove(n, name) PROVE Inv'
  <2> DEFINE h == RemoveNamed(heap, n, name)
             ob == Released(heap, Subtree(heap, GetMember(heap, n, name)))
  <2>1. Become([heap |-> h, objs |-> ob]) /\ CanRemove(heap, n, name)
    BY <1>2 DEF CRemove
  <2>2. Sound(api, h, ob)
    BY <2>1, Removed
  <2> HIDE DEF h, ob
  <2> QED
    BY <2>1, <2>2, BecomesParts
<1>3. ASSUME NEW kind \in Scalars, NEW v \in ValuesOf(kind), CSet(n, kind, v) PROVE Inv'
  <2>1. SetAccepts(heap[n].type, kind, auto)
    BY <1>3 DEF CSet
  <2>2. PICK s \in SetResults(heap[n], kind, v) : Become([World EXCEPT !.heap[n] = s])
    BY <1>3 DEF CSet
  <2> QED
    BY <2>1, <2>2, SetTouches
<1>4. ASSUME NEW kind \in Scalars, NEW v \in ValuesOf(kind), NEW i, CSetElem(n, i, kind, v)
      PROVE  Inv'
  <2>1. CanSetElem(heap, n, i, kind, auto)
    BY <1>4 DEF CSetElem
  <2>2. CASE i # 0
    <3> DEFINE e == GetElem(heap, n, i)
    <3>1. e \in Live(heap) /\ SetAccepts(heap[e].type, kind, auto)
      BY <2>1, <2>2, ReachesLive DEF CanSetElem
    <3>2. PICK h \in SetElemResults(heap, n, i, kind, v) : Become([World EXCEPT !.heap = h])
      BY <1>4 DEF CSetElem
    <3>3. PICK s \in SetResults(heap[e], kind, v) : h = [heap EXCEPT ![e] = s]
      BY <2>2, <3>2 DEF SetElemResults
    <3>4. Become([World EXCEPT !.heap[e] = s])
      <4>1. [World EXCEPT !.heap = h] = [World EXCEPT !.heap[e] = s]
        BY <3>3 DEF World
      <4> QED
        BY <3>2, <4>1, Zenon
    <3> HIDE DEF e
    <3> QED
      BY <3>1, <3>3, <3>4, SetTouches
  <2>3. CASE i = 0
    <3> DEFINE g == SettingCreate(heap, n, NoName, kind)
               e == Address(heap)
    <3>1. HasRoom(heap) /\ heap[n].type \in {"ARRAY", "LIST"} /\ kind \in Types
          /\ NoName \in Names \cup {NoName}
      BY <1>4, <2>1, <2>3 DEF CSetElem, CanSetElem, Types
    <3>2. MayBeNamed(heap, n, NoName) /\ heap[n].type \in Aggregates
      BY <3>1 DEF MayBeNamed, Aggregates
    <3>3. Sound(api, g, objs) /\ e \in Live(g)
      BY <1>0, <3>1, <3>2, CreateSound
    <3>4. g[e] = NewSetting(kind, NoName, n)
      <4>1. /\ g \in Heaps
            /\ e \in Settings \ Live(heap) /\ e # n
            /\ g[e] = NewSetting(kind, NoName, n)
            /\ \A m \in Settings \ {n, e} : g[m] = heap[m]
            /\ Alike(g[n], heap[n]) /\ g[n].hook = heap[n].hook /\ g[n].val = heap[n].val
            /\ g[n].file = heap[n].file
            /\ g[n].kids = Append(heap[n].kids, e)
            /\ g[n].room = IF Len(heap[n].kids) % CHUNK_SIZE = 0
                           THEN Len(heap[n].kids) + CHUNK_SIZE ELSE heap[n].room
            /\ Live(g) = Live(heap) \cup {e}
            /\ Kids(g, n) = Kids(heap, n) \cup {e} /\ Kids(g, e) = {}
            /\ \A m \in Settings \ {n, e} : Kids(g, m) = Kids(heap, m)
        BY <1>0, <3>1, CreateIs
      <4> QED
        BY <4>1
    <3>5. PICK h \in SetElemResults(heap, n, i, kind, v) : Become([World EXCEPT !.heap = h])
      BY <1>4 DEF CSetElem
    <3>6. PICK s \in SetResults(g[e], kind, v) : h = [g EXCEPT ![e] = s]
      BY <2>3, <3>5 DEF SetElemResults
    <3> HIDE DEF g, e
    <3>7. g[e].type = kind
      BY <3>4 DEF NewSetting
    <3>8. SetAccepts(g[e].type, kind, auto) /\ g[e] \in Setting
      BY <3>3, <3>7 DEF SetAccepts, Sound, TreeInv, Heaps, Live
    <3>9. /\ s \in Setting
          /\ s.parent = g[e].parent /\ s.name = g[e].name /\ s.kids = g[e].kids
          /\ s.room = g[e].room
          /\ s.hook = g[e].hook /\ s.type = IF g[e].type = "NONE" THEN kind ELSE g[e].type
          /\ Ranged(s)
      BY <1>0, <3>8, SetResultsFit
    <3>10. s.type = g[e].type
      BY <3>7, <3>9
    <3>11. Sound(api, [g EXCEPT ![e] = s], objs)
      BY <3>3, <3>9, <3>10, TouchedSound
    <3>12. [World EXCEPT !.heap = h] = [heap |-> [g EXCEPT ![e] = s], objs |-> objs]
      BY <3>6 DEF World
    <3> QED
      BY <3>5, <3>11, <3>12, BecomesParts
  <2> QED
    BY <2>2, <2>3
<1>5. ASSUME NEW f \in FormatsTried, CSetFormat(n, f) PROVE Inv'
  <2>1. f \in Formats
    BY ClientsAssumption DEF ClientsAssumption
  <2> QED
    BY <1>5, <2>1, FormatTouches DEF CSetFormat
<1>6. ASSUME NEW type \in TypesTried, NEW name \in Names \cup {BadName, NoName}, CAdd(n, name, type)
      PROVE  Inv'
  <2> DEFINE called == AddedName(heap, n, name)
             h == SettingCreate(heap, n, called, type)
  <2>1. HasRoom(heap) /\ CanAdd(heap, n, name) /\ (heap[n].type = "GROUP" => name # NoName)
        /\ type \in Types
    BY <1>6, ClientsAssumption DEF CAdd, ClientsAssumption
  <2>2. MayBeNamed(heap, n, called) /\ called \in Names \cup {NoName}
        /\ heap[n].type \in Aggregates
    BY <1>0, <2>1, MayAdd
  <2>3. Sound(api, h, objs)
    <3> HIDE DEF called
    <3> QED
      BY <1>0, <2>1, <2>2, CreateSound
  <2>4. Become([heap |-> h, objs |-> objs])
    <3>1. [World EXCEPT !.heap = Add(@, n, name, type)] = [heap |-> h, objs |-> objs]
      BY DEF World, Add
    <3> QED
      BY <1>6, <3>1 DEF CAdd
  <2> HIDE DEF h
  <2> QED
    BY <2>3, <2>4, BecomesParts
<1>7. ASSUME CSetHook(n) PROVE Inv'
  BY <1>7, LookWorlds, BecomesWorld DEF CSetHook
<1>8. ASSUME NEW p \in Live(heap), CCopy(p, n) PROVE Inv'
  <2>1. MayCopy(p, n) /\ Become([World EXCEPT !.heap = Copied(p, n)])
    BY <1>8 DEF CCopy, MayCopy
  <2>2. Sound(api, Copied(p, n), objs)
    BY <2>1, CopySound
  <2>3. [World EXCEPT !.heap = Copied(p, n)] = [heap |-> Copied(p, n), objs |-> objs]
    BY DEF World
  <2> QED
    BY <2>1, <2>2, <2>3, BecomesParts
<1> QED
  BY <1>1, <1>2, <1>3, <1>4, <1>5, <1>6, <1>7, <1>8

\* Every configuration starts sound.
LEMMA InitSound ==
  Init => Inv
<1> SUFFICES ASSUME Init PROVE Inv
  OBVIOUS
<1>1. /\ api \in {"C", "C++"} /\ auto \in BOOLEAN /\ destructor = TRUE
      /\ heap = EmptyHeap /\ objs = [o \in 1 .. Objects |-> NoObject]
  BY DEF Init
<1>2. WrapInv(api, heap, objs)
  BY <1>1, EmptyIs, Addresses DEF WrapInv
<1> QED
  BY <1>1, <1>2, EmptyIs DEF Inv, Sound

\* Whatever is called, through either interface, the invariant stays.
LEMMA NextSound ==
  Inv /\ [Next]_vars => Inv'
<1> SUFFICES ASSUME Inv, [Next]_vars PROVE Inv'
  OBVIOUS
<1>1. ASSUME InCpp, CppNext PROVE Inv'
  <2>1. /\ \A path \in Paths : /\ ConfigLookup(path) => Inv'
                               /\ \A kind : ConfigLookupValue(path, kind) => Inv'
        /\ \A n \in Live(heap) :
             /\ \A name, kind : SettingLookupValue(n, name, kind) => Inv'
             /\ SettingGetParent(n) => Inv'
             /\ \A i : SettingAt(n, i) => Inv'
             /\ \A name : SettingNamed(n, name) => Inv'
             /\ \A kind : SettingGet(n, kind) => Inv'
    BY <1>1, LookSteps
  <2>2. \A n \in Live(heap) :
          /\ \A kind \in Scalars : \A v \in ValuesOf(kind) : SettingAssign(n, kind, v) => Inv'
          /\ \A f \in FormatsTried : SettingSetFormat(n, f) => Inv'
          /\ \A name : SettingRemove(n, name) => Inv'
          /\ \A i : SettingRemoveAt(n, i) => Inv'
    BY <1>1, ChangeSteps
  <2>3. \A n \in Live(heap) : \A type \in TypesTried :
          /\ \A name \in Names \cup {BadName} : SettingAdd(n, name, type) => Inv'
          /\ SettingAppend(n, type) => Inv'
    BY <1>1, AddStep, AppendStep
  <2> QED
    BY <1>1, <2>1, <2>2, <2>3 DEF CppNext
<1>2. ASSUME InC, CNext PROVE Inv'
  <2>1. \A n \in Live(heap) :
          /\ \A i : CRemoveElem(n, i) => Inv'
          /\ \A name : CRemove(n, name) => Inv'
          /\ \A kind \in Scalars : \A v \in ValuesOf(kind) :
               /\ CSet(n, kind, v) => Inv'
               /\ \A i : CSetElem(n, i, kind, v) => Inv'
          /\ \A f \in FormatsTried : CSetFormat(n, f) => Inv'
          /\ \A type \in TypesTried, name \in Names \cup {BadName, NoName} :
               CAdd(n, name, type) => Inv'
          /\ CSetHook(n) => Inv'
          /\ \A m \in Live(heap) : CCopy(m, n) => Inv'
    BY <1>2, CSteps
  <2> QED
    BY <1>2, <2>1 DEF CNext
<1>3. ASSUME NEW b \in BOOLEAN, SetAutoConvert(b) PROVE Inv'
  BY <1>3 DEF SetAutoConvert, Inv
<1>4. ASSUME NEW f \in FormatsTried, SetDefaultFormat(f) PROVE Inv'
  BY <1>4 DEF SetDefaultFormat, Inv
<1>5. ASSUME ReadEmptyFile \/ Renew PROVE Inv'
  <2>1. Sound(api, EmptyHeap, Released(heap, Live(heap)))
    BY EmptySound
  <2>2. /\ heap' = EmptyHeap /\ objs' = Released(heap, Live(heap)) /\ api' = api
        /\ auto' \in BOOLEAN /\ destructor' = TRUE
    BY <1>5 DEF ReadEmptyFile, Renew, Inv
  <2> QED
    BY <2>1, <2>2 DEF Inv
<1>6. CASE UNCHANGED vars
  BY <1>6 DEF vars, Inv
<1> QED
  BY <1>1, <1>2, <1>3, <1>4, <1>5, <1>6 DEF Next

\* The settings are a tree, an object has the address of its setting, an integer fits:
\* what every call of lib/libconfig.c, lib/libconfigcpp.c++ and contrib/copy_setting.c
\* keeps, for any number of settings and objects.
THEOREM Configured == Spec => []Inv
<1>1. Init => Inv
  BY InitSound
<1>2. Inv /\ [Next]_vars => Inv'
  BY NextSound
<1> QED
  BY <1>1, <1>2, PTL DEF Spec

\* Whatever a program does through either interface, removals, copies and refused calls
\* included, parents and lists agree, every setting hangs from the root, no list outgrows
\* its memory, names are unique in a group, and through C++ an array has one type.
THEOREM TreeStaysSound == Spec => []TreeIsSound
<1>1. Inv => TreeIsSound
  <2> SUFFICES ASSUME Inv PROVE TreeIsSound
    OBVIOUS
  <2>1. FamilyAgrees(heap) /\ ListsFit(heap) /\ NamesAreUnique(heap)
    BY TreeIsSoundThen DEF Inv, Sound
  <2>2. ASSUME InCpp PROVE ArraysAreHomogeneous(heap)
    <3>1. ArraysInv(heap) /\ heap \in Heaps
      BY <2>2 DEF Inv, Sound, TreeInv, InCpp
    <3> SUFFICES ASSUME NEW p \in Live(heap), heap[p].type = "ARRAY",
                        NEW i \in DOMAIN heap[p].kids, NEW j \in DOMAIN heap[p].kids
                 PROVE  /\ heap[heap[p].kids[i]].type \in Scalars
                        /\ heap[heap[p].kids[i]].type = heap[heap[p].kids[j]].type
      BY DEF ArraysAreHomogeneous
    <3>2. heap[p].kids[i] \in Kids(heap, p) /\ heap[p].kids[j] \in Kids(heap, p)
      BY DEF Kids
    <3> QED
      BY <3>1, <3>2 DEF ArraysInv
  <2> QED
    BY <2>1, <2>2 DEF TreeIsSound
<1> QED
  BY <1>1, Configured, PTL

\* A C++ Setting lives as long as its setting and agrees with it on its type: the hook of
\* wrapSetting and ConfigDestructor, over every removal, exception and re-read.
THEOREM WrappersStayRight == Spec => []WrappersMatchSettings
<1>1. Inv => WrappersMatchSettings
  <2> SUFFICES ASSUME Inv PROVE WrappersMatchSettings
    OBVIOUS
  <2>1. WrapInv(api, heap, objs) /\ Live(heap) \subseteq Settings
    BY DEF Inv, Sound, Live
  <2>2. \A o \in 1 .. Objects : objs[o] # NoObject =>
          /\ objs[o].setting \in Live(heap)
          /\ heap[objs[o].setting].hook = o
          /\ InCpp => objs[o].type = heap[objs[o].setting].type
    BY <2>1 DEF WrapInv, InCpp
  <2>3. \A n \in Live(heap) : Handle(n) => objs[heap[n].hook].setting = n
    BY <2>1 DEF WrapInv, Handle
  <2> QED
    BY <2>2, <2>3 DEF WrappersMatchSettings
<1> QED
  BY <1>1, Configured, PTL

\* What a double is without its fraction, a double can hold.
LEMMA WholeIsExact ==
  ASSUME NEW v \in Int, IsDouble(v)
  PROVE  Rounded(Whole(v), DoubleExact) = Whole(v)
<1>1. Whole(v) \in Int /\ DoubleExact \in Nat
      /\ IF v >= 0 THEN 2 * Whole(v) \in {v - 1, v} ELSE 2 * Whole(v) \in {v, v + 1}
  BY WholeIs, NumberTypes
<1>2. CASE v % 2 = 0
  BY <1>2 DEF IsDouble
<1>3. CASE v % 2 # 0
  <2>1. Fits(v, DoubleExact)
    BY <1>1, <1>3 DEF IsDouble, Rounded
  <2>2. Fits(Whole(v), DoubleExact)
    BY <1>1, <2>1 DEF Fits
  <2> QED
    BY <1>1, <2>2, RoundedIs
<1> QED
  BY <1>2, <1>3

\* A setter and the getter of the same kind (config_setting_set_int and _get_int, and so on).
LEMMA GivesBack ==
  ASSUME NEW s \in Setting, NEW convert \in BOOLEAN, NEW kind \in Numbers,
         SetAccepts(s.type, kind, convert), NEW v \in RangeOf[kind],
         NEW t \in SetResults(s, kind, v)
  PROVE  /\ Get(t, kind, convert) # {}
         /\ \A back \in Get(t, kind, convert) : GivenBack(kind, t.type, v, back)
<1> DEFINE range == IF kind = "INT" THEN Ints ELSE Longs
<1>0. /\ Ints # {} /\ Longs # {} /\ Ints \subseteq Int /\ Longs \subseteq Int
      /\ FloatExact \in Nat /\ DoubleExact \in Nat
  BY NumberTypes
<1>1. /\ v \in Int /\ (kind # "FLOAT" => v \in range /\ RangeOf[kind] = range)
      /\ (kind = "FLOAT" => IsDouble(v))
      /\ RangeOf["INT"] = Ints /\ RangeOf["INT64"] = Longs
  <2>1. CASE kind = "FLOAT"
    BY <2>1, NumberTypes DEF RangeOf
  <2>2. CASE kind # "FLOAT"
    BY <1>0, <2>2 DEF RangeOf, Numbers
  <2> QED
    BY <2>1, <2>2
<1>2. CASE s.type \in {"NONE", kind}
  <2>1. t = [s EXCEPT !.type = kind, !.val = v]
    BY <1>2 DEF SetResults, Numbers
  <2>2. t.type = kind /\ t.val = v
    BY <2>1 DEF Setting
  <2>3. Get(t, kind, convert) = {v}
    BY <2>2 DEF Get, GetInt, GetInt64, GetFloat, Numbers
  <2> QED
    BY <2>2, <2>3 DEF GivenBack, Numbers
<1>3. CASE kind = "INT64" /\ s.type = "INT"
  <2>1. t.type = "INT" /\ t.val = Truncated(v)
    BY <1>3 DEF SetResults, Setting
  <2>2. Get(t, kind, convert) = {Truncated(v)}
    BY <1>3, <2>1 DEF Get, GetInt64
  <2> QED
    BY <1>3, <2>1, <2>2 DEF GivenBack, Truncated
<1>4. CASE convert /\ kind # "FLOAT" /\ s.type = "FLOAT"
  <2> DEFINE w == Rounded(v, FloatExact)
  <2>1. t.type = "FLOAT" /\ t.val = 2 * w
    BY <1>4 DEF SetResults, Setting, ToFloat
  <2>2. w \in Int /\ w \in {v - 1, v, v + 1} /\ (Fits(v, FloatExact) => w = v)
    BY <1>0, <1>1, RoundedIs
  <2> HIDE DEF w
  <2>3. Whole(2 * w) = w
    BY <2>2, WholeIs
  <2>4. Get(t, kind, convert) = IF w \in range THEN {w} ELSE range
    BY <1>4, <2>1, <2>3 DEF Get, GetInt, GetInt64, Cut, Numbers
  <2>5. \A back \in Get(t, kind, convert) :
          /\ Fits(v, FloatExact) => back = v
          /\ {v - 1, v + 1} \subseteq range => back \in v - 1 .. v + 1
    <3>1. v \in range /\ v \in Int
      BY <1>1, <1>4
    <3>2. Fits(v, FloatExact) => Get(t, kind, convert) = {v}
      BY <2>2, <2>4, <3>1
    <3>3. ASSUME {v - 1, v + 1} \subseteq range PROVE Get(t, kind, convert) = {w}
      BY <2>2, <2>4, <3>1, <3>3
    <3>4. w \in v - 1 .. v + 1
      BY <2>2, <3>1
    <3> QED
      BY <3>2, <3>3, <3>4
  <2>6. Get(t, kind, convert) # {}
    BY <1>0, <2>4
  <2> QED
    BY <1>1, <1>4, <2>1, <2>5, <2>6 DEF GivenBack
<1>5. CASE convert /\ kind = "FLOAT" /\ s.type \in {"INT", "INT64"}
  <2> DEFINE r == IF s.type = "INT" THEN Ints ELSE Longs
  <2>1. t.type = s.type /\ t.val \in Cut(v, r)
    BY <1>5 DEF SetResults, Setting
  <2>2. Get(t, kind, convert) = {ToDouble(t.val)} /\ r = RangeOf[s.type]
    BY <1>1, <1>5, <2>1 DEF Get, GetFloat
  <2>3. Whole(v) \in r => t.val = Whole(v)
    BY <2>1 DEF Cut
  <2>4. Whole(v) \in r =>
          IF v >= 0 THEN ToDouble(t.val) \in {v - 1, v} ELSE ToDouble(t.val) \in {v, v + 1}
    BY <1>1, <1>5, <2>3, WholeIs, WholeIsExact DEF ToDouble
  <2> HIDE DEF r
  <2> QED
    BY <1>5, <2>1, <2>2, <2>4 DEF GivenBack
<1> QED
  BY <1>2, <1>3, <1>4, <1>5 DEF SetAccepts, Numbers

\* The getters of a setting among themselves (config_setting_get_int, _int64, _float).
LEMMA GettersAgree ==
  ASSUME NEW s \in Setting, Ranged(s), NEW convert \in BOOLEAN
  PROVE  /\ \A narrow \in GetInt(s, convert), wide \in GetInt64(s, convert) :
              IF s.type = "FLOAT" THEN Whole(s.val) \in Ints => narrow = wide
                                  ELSE narrow = IF wide \in Ints THEN wide ELSE 0
         /\ \A wide \in GetInt64(s, convert), float \in GetFloat(s, convert) :
              Fits(wide, DoubleExact) /\ Whole(float) \in Longs => Whole(float) = wide
<1>0. s.val \in Int /\ DoubleExact \in Nat /\ Ints \subseteq Longs
  BY NumberTypes DEF Setting, Values
<1>1. CASE s.type = "INT"
  <2>1. /\ GetInt(s, convert) = {s.val} /\ GetInt64(s, convert) = {s.val} /\ s.val \in Ints
        /\ GetFloat(s, convert) \subseteq {ToDouble(s.val)}
    BY <1>1 DEF GetInt, GetInt64, GetFloat, Ranged
  <2>2. Fits(s.val, DoubleExact) => Whole(ToDouble(s.val)) = s.val
    BY <1>0, RoundedIs, WholeIs DEF ToDouble
  <2> QED
    BY <1>1, <2>1, <2>2
<1>2. CASE s.type = "INT64"
  <2>1. /\ GetInt(s, convert) = {Truncated(s.val)} /\ GetInt64(s, convert) = {s.val}
        /\ GetFloat(s, convert) \subseteq {ToDouble(s.val)}
    BY <1>2 DEF GetInt, GetInt64, GetFloat
  <2>2. Fits(s.val, DoubleExact) => Whole(ToDouble(s.val)) = s.val
    BY <1>0, RoundedIs, WholeIs DEF ToDouble
  <2> QED
    BY <1>2, <2>1, <2>2 DEF Truncated
<1>3. CASE s.type = "FLOAT"
  <2>1. /\ GetInt(s, convert) \subseteq Cut(s.val, Ints)
        /\ GetInt64(s, convert) \subseteq Cut(s.val, Longs) /\ GetFloat(s, convert) = {s.val}
    BY <1>3 DEF GetInt, GetInt64, GetFloat
  <2> QED
    BY <1>0, <1>3, <2>1 DEF Cut
<1>4. CASE s.type \notin Numbers
  <2>1. GetInt64(s, convert) = {}
    BY <1>4 DEF GetInt64, Numbers
  <2> QED
    BY <2>1
<1> QED
  BY <1>1, <1>2, <1>3, <1>4 DEF Numbers

\* Every integer fits its type, what the setters accept the getters give back, and the
\* getters agree (config_setting_set_int, _get_int and those of the other kinds).
THEOREM NumbersStayRight == Spec => []NumbersSurvive
<1>1. Inv => NumbersSurvive
  <2> SUFFICES ASSUME Inv, NEW n \in Live(heap)
               PROVE  LET s == heap[n] IN
                      /\ s.type = "INT" => s.val \in Ints
                      /\ s.type = "INT64" => s.val \in Longs
                      /\ \A kind \in {k \in Numbers : SetAccepts(s.type, k, auto)} :
                           \A v \in RangeOf[kind] : \A t \in SetResults(s, kind, v) :
                               /\ Get(t, kind, auto) # {}
                               /\ \A back \in Get(t, kind, auto) :
                                    GivenBack(kind, t.type, v, back)
                      /\ \A narrow \in GetInt(s, auto), wide \in GetInt64(s, auto) :
                           IF s.type = "FLOAT" THEN Whole(s.val) \in Ints => narrow = wide
                                               ELSE narrow = IF wide \in Ints THEN wide ELSE 0
                      /\ \A wide \in GetInt64(s, auto), float \in GetFloat(s, auto) :
                           Fits(wide, DoubleExact) /\ Whole(float) \in Longs =>
                             Whole(float) = wide
    BY DEF NumbersSurvive
  <2>1. heap[n] \in Setting /\ Ranged(heap[n]) /\ auto \in BOOLEAN
    BY DEF Inv, Sound, NumbersInv, TreeInv, Heaps, Live
  <2>2. ASSUME NEW kind \in {k \in Numbers : SetAccepts(heap[n].type, k, auto)},
               NEW v \in RangeOf[kind], NEW t \in SetResults(heap[n], kind, v)
        PROVE  /\ Get(t, kind, auto) # {}
               /\ \A back \in Get(t, kind, auto) : GivenBack(kind, t.type, v, back)
    BY <2>1, <2>2, GivesBack
  <2>3. /\ \A narrow \in GetInt(heap[n], auto), wide \in GetInt64(heap[n], auto) :
             IF heap[n].type = "FLOAT" THEN Whole(heap[n].val) \in Ints => narrow = wide
                                       ELSE narrow = IF wide \in Ints THEN wide ELSE 0
        /\ \A wide \in GetInt64(heap[n], auto), float \in GetFloat(heap[n], auto) :
             Fits(wide, DoubleExact) /\ Whole(float) \in Longs => Whole(float) = wide
    BY <2>1, GettersAgree
  <2> QED
    BY <2>1, <2>2, <2>3 DEF Ranged
<1> QED
  BY <1>1, Configured, PTL

\* __constructPath against config_lookup, and the typed lookups by path, by name and by
\* index against the getters.
THEOREM PathsStayRight == Spec => []PathsLeadHome
<1>1. Inv => PathsLeadHome
  <2> SUFFICES ASSUME Inv, NEW n \in Live(heap)
               PROVE  LET path == ConstructPath(heap, n)  p == heap[n].parent IN
                      /\ LookupFrom(heap, Root, path) = n
                      /\ \A kind \in KindsAsked :
                           LET own == Get(heap[n], kind, auto) IN
                           /\ LookupValue(heap, path, kind, auto) = own
                           /\ p # Null => ElemValue(heap, p, SettingIndex(heap, n), kind, auto) = own
                           /\ heap[n].name # NoName =>
                                MemberValue(heap, p, heap[n].name, kind, auto) = own
    BY DEF PathsLeadHome
  <2> DEFINE path == ConstructPath(heap, n)
             p == heap[n].parent
  <2>1. TreeInv(heap) /\ n \in Settings /\ n # Null
    BY Addresses DEF Inv, Sound, Live
  <2>2. LookupFrom(heap, Root, path) = n
    BY <2>1, PathLeadsHome
  <2>3. n # Root => p \in Live(heap) /\ n \in Kids(heap, p)
    BY <2>1 DEF TreeInv, FamilyInv
  <2>4. n = Root => p = Null
    BY <2>1 DEF TreeInv, FamilyInv
  <2>5. n # Root => GetElem(heap, p, SettingIndex(heap, n)) = n
    BY <2>1, <2>3, FoundAgain
  <2>6. n # Root /\ heap[n].name # NoName => GetMember(heap, p, heap[n].name) = n
    BY <2>1, <2>3, FoundAgain
  <2> HIDE DEF path, p
  <2>7. ASSUME NEW kind
        PROVE  /\ LookupValue(heap, path, kind, auto) = Get(heap[n], kind, auto)
               /\ p # Null => ElemValue(heap, p, SettingIndex(heap, n), kind, auto)
                                = Get(heap[n], kind, auto)
               /\ n # Root /\ heap[n].name # NoName =>
                    MemberValue(heap, p, heap[n].name, kind, auto) = Get(heap[n], kind, auto)
    BY <2>1, <2>2, <2>4, <2>5, <2>6 DEF LookupValue, ElemValue, MemberValue
  <2>8. n = Root => heap[n].name = NoName
    BY <2>1 DEF TreeInv, FamilyInv
  <2> QED
    BY <2>2, <2>7, <2>8 DEF path, p
<1> QED
  BY <1>1, Configured, PTL

-----------------------------------------------------------------------------
(***************************************************************************)
(* What config_write writes are words the scanner knows how to hand over.  *)
(***************************************************************************)

LEMMA MakesASeq ==
  ASSUME NEW S, NEW n \in Nat, NEW f \in [1 .. n -> S]
  PROVE  f \in Seq(S)
BY SeqDef

\* A sequence that is joined from sequences over T is one over T.
LEMMA FlattenIsASeq ==
  ASSUME NEW T, NEW seqs \in Seq(Seq(T))
  PROVE  FlattenSeq(seqs) \in Seq(T)
<1> DEFINE N == Len(seqs)
           Flat(f) == [i \in 1 .. N |-> IF i = 1 THEN seqs[i] ELSE f[i - 1] \o seqs[i]]
           next(i, s) == IF i = 1 THEN seqs[i] ELSE s \o seqs[i]
           steps == {t \in Nat \X Seq(T) \X Seq(T) : t[3] = next(t[1], t[2])}
           flatten == CHOOSE f : f = Flat(f)
<1>0. N \in Nat /\ \A i \in 1 .. N : seqs[i] \in Seq(T)
  BY LenProperties, ElementOfSeq
<1>1. CASE N = 0
  <2>1. FlattenSeq(seqs) = seqs /\ seqs = <<>>
    BY <1>1, EmptySeq DEF FlattenSeq
  <2> QED
    BY <2>1, EmptySeq
<1>2. CASE N # 0
  <2>1. \A i \in 1 .. N, s \in Seq(T) : next(i, s) \in Seq(T)
    BY <1>0, ConcatProperties
  <2>2. \A i \in 1 .. N, s \in Seq(T) : \E t \in Seq(T) : <<i, s, t>> \in steps
    <3> HIDE DEF N, next
    <3> SUFFICES ASSUME NEW i \in 1 .. N, NEW s \in Seq(T)
                 PROVE  <<i, s, next(i, s)>> \in steps
      BY <2>1
    <3>1. i \in Nat
      BY <1>0
    <3> QED
      BY <2>1, <3>1
  <2>3. PICK f \in [0 .. N -> Seq(T)] :
          f[0] = <<>> /\ \A i \in 1 .. N : <<i, f[i - 1], f[i]>> \in steps
    <3> HIDE DEF steps, N
    <3>1. <<>> \in Seq(T)
      BY EmptySeq
    <3>2. PICK f : Recurs(f, N, Seq(T), <<>>, steps)
      BY <1>0, <2>2, <3>1, Recursion
    <3> QED
      BY <3>2 DEF Recurs
  <2> HIDE DEF N
  <2>4. \A i \in 1 .. N : f[i] = next(i, f[i - 1])
    <3> TAKE i \in 1 .. N
    <3> HIDE DEF next
    <3>1. <<i, f[i - 1], f[i]>> \in steps
      BY <2>3
    <3> QED
      BY <3>1
  <2> DEFINE g == [i \in 1 .. N |-> f[i]]
  <2>5. g = Flat(g)
    <3>1. \A i \in 1 .. N : i # 1 => i - 1 \in 1 .. N
      BY <1>0
    <3>2. \A i \in 1 .. N : f[i] = IF i = 1 THEN seqs[i] ELSE g[i - 1] \o seqs[i]
      BY <2>4, <3>1
    <3> QED
      BY <3>2
  <2>6. flatten = Flat(flatten)
    <3>1. \E x : x = Flat(x)
      BY <2>5
    <3> HIDE DEF Flat
    <3> QED
      BY <3>1
  <2>7. FlattenSeq(seqs) = flatten[N]
    BY <1>2 DEF FlattenSeq, N
  <2> HIDE DEF flatten
  <2>8. \A i \in 1 .. N : flatten[i] = next(i, flatten[i - 1])
    <3> TAKE i \in 1 .. N
    <3>1. flatten[i] = Flat(flatten)[i]
      BY <2>6, Zenon
    <3>2. Flat(flatten)[i] = next(i, flatten[i - 1])
      BY Zenon
    <3> QED
      BY <3>1, <3>2
  <2> DEFINE holds == {i \in 0 .. N : i = 0 \/ flatten[i] \in Seq(T)}
  <2>9. 0 \in holds
    BY <1>0
  <2>10. \A i \in 1 .. N : i - 1 \in holds => i \in holds
    <3> TAKE i \in 1 .. N
    <3>1. i \in 0 .. N /\ (i - 1 = 0 => i = 1)
      BY <1>0
    <3>2. CASE i = 1
      BY <1>0, <2>8, <3>1, <3>2
    <3>3. CASE i # 1 /\ flatten[i - 1] \in Seq(T)
      <4> HIDE DEF next
      <4> QED
        BY <2>1, <2>8, <3>1, <3>3
    <3> QED
      BY <3>1, <3>2, <3>3
  <2>11. 0 .. N \subseteq holds
    <3> HIDE DEF holds
    <3> QED
      BY <1>0, <2>9, <2>10, Stepwise
  <2> QED
    BY <1>0, <1>2, <2>7, <2>11
<1> QED
  BY <1>1, <1>2

\* The same with a separator between the sequences.
LEMMA BetweenIsASeq ==
  ASSUME NEW T, NEW seqs \in Seq(Seq(T)), NEW sep \in Seq(T)
  PROVE  Between(seqs, sep) \in Seq(T)
<1> DEFINE parts == [i \in DOMAIN seqs |-> IF i = Len(seqs) THEN seqs[i] ELSE seqs[i] \o sep]
<1>1. Len(seqs) \in Nat /\ DOMAIN seqs = 1 .. Len(seqs) /\ \A i \in 1 .. Len(seqs) : seqs[i] \in Seq(T)
  BY LenProperties, ElementOfSeq
<1>2. \A i \in 1 .. Len(seqs) : seqs[i] \o sep \in Seq(T)
  BY <1>1, ConcatProperties
<1>3. parts \in [1 .. Len(seqs) -> Seq(T)]
  BY <1>1, <1>2
<1>4. parts \in Seq(Seq(T))
  BY <1>1, <1>3, SeqDef
<1> QED
  BY <1>4, FlattenIsASeq DEF Between

SeenTypes == Recognised \cup {"FREE", "any", "none", "ERROR"}
Words == {w \in [t : SeenTypes, v : Values, name : Names \cup {NoName}] :
            w.t = "NAME" => w.name \in Names}

LEMMA WordsAre ==
  /\ \A t \in SeenTypes \ {"NAME"} : Token(t) \in Words
  /\ \A name \in Names : NameToken(name) \in Words
  /\ AnyText \in Seq(Words)
<1>1. 0 \in Values
  BY DEF Values
<1>2. \A t \in SeenTypes \ {"NAME"} : Token(t) \in Words
  BY <1>1 DEF Token, Words
<1>3. \A name \in Names : NameToken(name) \in Words
  <2>1. "NAME" \in SeenTypes
    BY DEF SeenTypes, Recognised
  <2> QED
    BY <1>1, <2>1 DEF Token, NameToken, Words
<1>4. Token("any") \in Words
  BY <1>2 DEF SeenTypes
<1>5. AnyText \in Seq(Words)
  BY <1>4 DEF AnyText
<1> QED
  BY <1>2, <1>3, <1>5
\* A scalar is written as one word.
LEMMA ScalarTokenIs ==
  ASSUME NEW s \in Setting, s.type \notin Aggregates, NEW f
  PROVE  ScalarToken(s, f) \in Words
<1> DEFINE t == TokenOf(s.type, f)
<1>1. s.type \in {"BOOL", "INT", "INT64", "NONE", "FLOAT", "STRING", "FREE"} /\ s.val \in Int
  BY DEF Setting, Types, Scalars, Numbers, Aggregates, Values
<1>2. t \in {"BOOLEAN", "INTEGER", "HEX", "INTEGER64", "HEX64", "GARBAGE", "FLOAT", "STRING", "FREE"}
  BY <1>1 DEF TokenOf, LongToken
<1>3. t \in SeenTypes \ {"NAME"}
  BY <1>2 DEF SeenTypes, Recognised, ScalarTokens
<1>4. Printed(s) \in Values
  <2>1. Rounded(s.val, PrintExact) \in Int
    BY <1>1, RoundedIs, ReaderAssumption DEF ReaderAssumption
  <2> QED
    BY <1>1, <2>1 DEF Printed, Values
<1> HIDE DEF t
<1>5. ScalarToken(s, f) = [t |-> t, v |-> Printed(s), name |-> NoName]
  BY DEF ScalarToken, Token, t
<1> QED
  BY <1>3, <1>4, <1>5 DEF Words

\* What is written of a setting, given words for what is below it.
LEMMA WriteValueIs ==
  ASSUME NEW h, TreeInv(h), NEW def, NEW n \in Settings, NEW below \in [Settings -> Seq(Words)]
  PROVE  WriteValue(h, def, n, below) \in Seq(Words)
<1> DEFINE s == h[n]
           Elements == [i \in DOMAIN s.kids |-> below[s.kids[i]]]
           Name(i) == <<NameToken(h[s.kids[i]].name), Token("EQUALS")>>
           Member(i) == Name(i) \o below[s.kids[i]] \o <<Token("SEMICOLON")>>
           Members == [i \in DOMAIN s.kids |-> Member(i)]
<1>0. h \in Heaps /\ NamesInv(h) /\ s \in Setting
  BY DEF TreeInv, Heaps
<1>1. /\ Len(s.kids) \in Nat /\ DOMAIN s.kids = 1 .. Len(s.kids)
      /\ \A i \in 1 .. Len(s.kids) : s.kids[i] \in Settings /\ s.kids[i] \in Kids(h, n)
  BY <1>0, KidsOf
<1>2. /\ <<Token("SEMICOLON")>> \in Seq(Words) /\ <<Token("COMMA")>> \in Seq(Words)
      /\ <<Token("LIST_START")>> \in Seq(Words) /\ <<Token("LIST_END")>> \in Seq(Words)
      /\ <<Token("ARRAY_START")>> \in Seq(Words) /\ <<Token("ARRAY_END")>> \in Seq(Words)
      /\ <<Token("GROUP_START")>> \in Seq(Words) /\ <<Token("GROUP_END")>> \in Seq(Words)
      /\ Token("EQUALS") \in Words
  <2>1. {"SEMICOLON", "COMMA", "LIST_START", "LIST_END", "ARRAY_START", "ARRAY_END",
         "GROUP_START", "GROUP_END", "EQUALS"} \subseteq SeenTypes \ {"NAME"}
    BY DEF SeenTypes, Recognised
  <2> QED
    BY <2>1, WordsAre
<1>3. Elements \in Seq(Seq(Words))
  <2>1. Elements \in [1 .. Len(s.kids) -> Seq(Words)]
    BY <1>1
  <2> QED
    BY <1>1, <2>1, SeqDef
<1>4. Between(Elements, <<Token("COMMA")>>) \in Seq(Words)
  <2> HIDE DEF Elements
  <2> QED
    BY <1>2, <1>3, BetweenIsASeq
<1>5. ASSUME s.type = "GROUP" PROVE FlattenSeq(Members) \in Seq(Words)
  <2>1. ASSUME NEW i \in 1 .. Len(s.kids) PROVE Member(i) \in Seq(Words)
    <3>1. h[s.kids[i]].name \in Names
      BY <1>0, <1>1, <1>5 DEF NamesInv, Heaps, Setting
    <3>2. Name(i) \in Seq(Words)
      BY <1>2, <3>1, WordsAre
    <3>3. below[s.kids[i]] \in Seq(Words)
      BY <1>1
    <3> HIDE DEF Name
    <3> QED
      BY <1>2, <3>2, <3>3, ConcatProperties
  <2>2. Members \in [1 .. Len(s.kids) -> Seq(Words)]
    <3> HIDE DEF Member
    <3> QED
      BY <1>1, <2>1
  <2>3. Members \in Seq(Seq(Words))
    <3> HIDE DEF Members
    <3> QED
      BY <1>1, <2>2, MakesASeq
  <2> HIDE DEF Members
  <2> QED
    BY <2>3, FlattenIsASeq
<1>6. WriteValue(h, def, n, below) =
        CASE s.type = "LIST" -> <<Token("LIST_START")>> \o
                 Between(Elements, <<Token("COMMA")>>) \o <<Token("LIST_END")>>
          [] s.type = "ARRAY" -> <<Token("ARRAY_START")>> \o
                 Between(Elements, <<Token("COMMA")>>) \o <<Token("ARRAY_END")>>
          [] s.type = "GROUP" ->
                 IF n = Root THEN FlattenSeq(Members)
                 ELSE <<Token("GROUP_START")>> \o FlattenSeq(Members) \o <<Token("GROUP_END")>>
          [] OTHER -> <<ScalarToken(s, GetFormat(s, def))>>
  BY Zenon DEF WriteValue
<1> HIDE DEF Elements, Members
<1>7. CASE s.type = "LIST"
  BY <1>2, <1>4, <1>6, <1>7, ConcatProperties
<1>8. CASE s.type = "ARRAY"
  BY <1>2, <1>4, <1>6, <1>8, ConcatProperties
<1>9. CASE s.type = "GROUP"
  BY <1>2, <1>5, <1>6, <1>9, ConcatProperties
<1>10. CASE s.type \notin Aggregates
  <2>1. ScalarToken(s, GetFormat(s, def)) \in Words
    BY <1>0, <1>10, ScalarTokenIs
  <2>2. WriteValue(h, def, n, below) = <<ScalarToken(s, GetFormat(s, def))>>
    BY <1>6, <1>10 DEF Aggregates
  <2> QED
    BY <2>1, <2>2
<1> QED
  BY <1>7, <1>8, <1>9, <1>10 DEF Aggregates

\* What is written of a configuration.
LEMMA WrittenIsWords ==
  ASSUME NEW h, TreeInv(h), NEW def
  PROVE  WriteSettings(h, def) \in Seq(Words)
<1> DEFINE T == [Settings -> Seq(Words)]
           start == [n \in Settings |-> <<>>]
           next(x) == [n \in Settings |-> WriteValue(h, def, n, x)]
           Down(f) == [k \in 0 .. MaxSettings |->
                         IF k = 0 THEN start
                         ELSE [n \in Settings |-> WriteValue(h, def, n, f[k - 1])]]
           steps == {t \in Nat \X T \X T : t[3] = next(t[2])}
           Value == CHOOSE f : f = Down(f)
<1>0. MaxSettings \in Nat /\ Root \in Settings
  BY SettingsAssumption DEF SettingsAssumption, Root, Settings
<1>1. start \in T
  BY EmptySeq
<1>2. \A x \in T : next(x) \in T
  BY WriteValueIs
<1> HIDE DEF T, next, start
<1>3. \A k \in 1 .. MaxSettings, x \in T : \E y \in T : <<k, x, y>> \in steps
  <2> SUFFICES ASSUME NEW k \in 1 .. MaxSettings, NEW x \in T
               PROVE  <<k, x, next(x)>> \in steps
    BY <1>2
  <2> QED
    BY <1>0, <1>2
<1>4. PICK f \in [0 .. MaxSettings -> T] :
        f[0] = start /\ \A k \in 1 .. MaxSettings : <<k, f[k - 1], f[k]>> \in steps
  <2> HIDE DEF steps
  <2>1. PICK f : Recurs(f, MaxSettings, T, start, steps)
    BY <1>0, <1>1, <1>3, Recursion
  <2> QED
    BY <2>1 DEF Recurs
<1>5. \A k \in 1 .. MaxSettings : f[k] = next(f[k - 1])
  <2> TAKE k \in 1 .. MaxSettings
  <2>1. <<k, f[k - 1], f[k]>> \in steps
    BY <1>4
  <2> QED
    BY <2>1
<1>6. \A k \in 0 .. MaxSettings : k # 0 => k \in 1 .. MaxSettings
  BY <1>0
<1>7. f = Down(f)
  <2>1. \A k \in 0 .. MaxSettings :
          f[k] = IF k = 0 THEN start ELSE [n \in Settings |-> WriteValue(h, def, n, f[k - 1])]
    BY <1>4, <1>5, <1>6, Zenon DEF next
  <2> QED
    BY <1>4, <2>1
<1>8. Value = Down(Value)
  <2>1. \E g : g = Down(g)
    BY <1>7
  <2> HIDE DEF Down
  <2> QED
    BY <2>1
<1>9. WriteSettings(h, def) = Value[MaxSettings][Root]
  BY Zenon DEF WriteSettings, start
<1> HIDE DEF Value
<1>10. 0 \in 0 .. MaxSettings
       /\ \A k \in 1 .. MaxSettings : k - 1 \in 0 .. MaxSettings /\ k \in 0 .. MaxSettings /\ k # 0
  BY <1>0
<1>11. Value[0] = start
  BY <1>8, <1>10
<1>12. \A k \in 1 .. MaxSettings : Value[k] = next(Value[k - 1])
  <2> TAKE k \in 1 .. MaxSettings
  <2>1. Value[k] = Down(Value)[k]
    BY <1>8, Zenon
  <2>2. Down(Value)[k] = next(Value[k - 1])
    BY <1>10, Zenon DEF next
  <2> QED
    BY <2>1, <2>2
<1> DEFINE holds == {k \in 0 .. MaxSettings : Value[k] \in T}
<1>13. 0 \in holds
  BY <1>1, <1>10, <1>11
<1>14. \A k \in 1 .. MaxSettings : k - 1 \in holds => k \in holds
  BY <1>2, <1>10, <1>12
<1>15. 0 .. MaxSettings \subseteq holds
  <2> HIDE DEF holds
  <2> QED
    BY <1>0, <1>13, <1>14, Stepwise
<1>16. Value[MaxSettings] \in T
  BY <1>0, <1>15
<1> QED
  BY <1>0, <1>9, <1>16 DEF T
-----------------------------------------------------------------------------
(***************************************************************************)
(* The parser's stack: the types on the way from ctx->parent up to the     *)
(* root are the open aggregates, the innermost first.                      *)
(***************************************************************************)

\* There is one way up.
LEMMA OneWayUp ==
  ASSUME NEW h, NEW n, NEW up, WayUp(up, h, n), NEW on, WayUp(on, h, n)
  PROVE  up = on
<1>0. /\ up \in Seq(Live(h)) /\ Len(up) \in Nat /\ Len(up) >= 1
      /\ on \in Seq(Live(h)) /\ Len(on) \in Nat /\ Len(on) >= 1
  BY DEF WayUp
<1>1. ASSUME NEW a, WayUp(a, h, n), NEW b, WayUp(b, h, n), Len(a) <= Len(b)
      PROVE  /\ \A k \in 1 .. Len(a) : a[k] = b[k]
             /\ Len(a) = Len(b)
  <2>1. Len(a) \in Nat /\ Len(a) >= 1 /\ Len(b) \in Nat
    BY <1>1 DEF WayUp
  <2> DEFINE holds == {k \in 0 .. Len(a) : k = 0 \/ a[k] = b[k]}
  <2>2. 0 \in holds
    BY <2>1
  <2>3. \A k \in 1 .. Len(a) : k - 1 \in holds => k \in holds
    <3> SUFFICES ASSUME NEW k \in 1 .. Len(a), k - 1 \in holds PROVE a[k] = b[k]
      BY <2>1
    <3>1. CASE k = 1
      BY <1>1, <3>1 DEF WayUp
    <3>2. CASE k # 1
      <4>1. a[k - 1] = b[k - 1] /\ k - 1 \in 1 .. Len(a) - 1 /\ k - 1 \in 1 .. Len(b) - 1
            /\ k - 1 + 1 = k
        BY <1>1, <2>1, <3>2
      <4>2. h[a[k - 1]].parent = a[k] /\ h[b[k - 1]].parent = b[k]
        BY <1>1, <4>1 DEF WayUp
      <4> QED
        BY <4>1, <4>2
    <3> QED
      BY <3>1, <3>2
  <2>4. 0 .. Len(a) \subseteq holds
    <3> HIDE DEF holds
    <3> QED
      BY <2>1, <2>2, <2>3, Stepwise
  <2>5. \A k \in 1 .. Len(a) : a[k] = b[k]
    <3>1. \A k \in 1 .. Len(a) : k \in 0 .. Len(a) /\ k # 0
      BY <2>1
    <3> QED
      BY <2>4, <3>1
  <2>6. b[Len(a)] = Root
    BY <1>1, <2>1, <2>5 DEF WayUp
  <2>7. ~(Len(a) \in 1 .. Len(b) - 1)
    BY <1>1, <2>6 DEF WayUp
  <2> QED
    BY <1>1, <2>1, <2>5, <2>7
<1>2. CASE Len(up) <= Len(on)
  <2>1. Len(up) = Len(on) /\ \A k \in 1 .. Len(up) : up[k] = on[k]
    BY <1>1, <1>2
  <2> QED
    BY <1>0, <2>1, SeqEqual
<1>3. CASE Len(on) <= Len(up)
  <2>1. Len(up) = Len(on) /\ \A k \in 1 .. Len(on) : on[k] = up[k]
    BY <1>1, <1>3
  <2>2. on = up
    BY <1>0, <2>1, SeqEqual
  <2> QED
    BY <2>2
<1> QED
  BY <1>0, <1>2, <1>3

\* The types from p up to the root are those of fs.
Follows(h, p, fs) ==
  \E up : /\ WayUp(up, h, p) /\ Len(up) = Len(fs)
          /\ \A k \in 1 .. Len(fs) : h[up[k]].type = fs[Len(fs) - k + 1]

LEMMA FollowsTop ==
  ASSUME NEW h, NEW p, NEW fs, Follows(h, p, fs)
  PROVE  /\ p \in Live(h) /\ p \in Settings
         /\ Len(fs) \in Nat /\ Len(fs) >= 1
         /\ h[p].type = fs[Len(fs)]
         /\ Len(fs) > 1 => p # Root
<1>1. PICK up : /\ WayUp(up, h, p) /\ Len(up) = Len(fs)
                /\ \A k \in 1 .. Len(fs) : h[up[k]].type = fs[Len(fs) - k + 1]
  BY DEF Follows
<1>2. /\ up \in Seq(Live(h)) /\ Len(fs) \in Nat /\ Len(fs) >= 1 /\ up[1] = p
      /\ \A k \in 1 .. Len(fs) - 1 : up[k] # Root
  BY <1>1 DEF WayUp
<1>3. 1 \in 1 .. Len(fs) /\ Len(fs) - 1 + 1 = Len(fs) /\ (Len(fs) > 1 => 1 \in 1 .. Len(fs) - 1)
  BY <1>2
<1>4. up[1] \in Live(h)
  BY <1>1, <1>2, <1>3, ElementOfSeq
<1> QED
  BY <1>1, <1>2, <1>3, <1>4 DEF Live

\* Nothing changes on the way when settings are added or a setting gets a type.
LEMMA FollowsStays ==
  ASSUME NEW h, NEW p, NEW fs \in Seq(Aggregates), Follows(h, p, fs),
         NEW g, Live(h) \subseteq Live(g),
         \A m \in Live(h) : /\ g[m].parent = h[m].parent
                            /\ h[m].type \in Aggregates => g[m].type = h[m].type
  PROVE  Follows(g, p, fs)
<1>1. PICK up : /\ WayUp(up, h, p) /\ Len(up) = Len(fs)
                /\ \A k \in 1 .. Len(fs) : h[up[k]].type = fs[Len(fs) - k + 1]
  BY DEF Follows
<1>2. /\ up \in Seq(Live(h)) /\ Len(fs) \in Nat /\ Len(fs) >= 1
      /\ \A k \in 1 .. Len(fs) : up[k] \in Live(h)
  BY <1>1, ElementOfSeq DEF WayUp
<1>3. up \in Seq(Live(g))
  BY <1>2, SeqMonotonic
<1>4. \A k \in 1 .. Len(up) - 1 : g[up[k]].parent = h[up[k]].parent
  BY <1>1, <1>2
<1>5. WayUp(up, g, p)
  BY <1>1, <1>3, <1>4 DEF WayUp
<1>6. ASSUME NEW k \in 1 .. Len(fs) PROVE g[up[k]].type = fs[Len(fs) - k + 1]
  <2>1. Len(fs) - k + 1 \in 1 .. Len(fs)
    BY <1>2
  <2>2. fs[Len(fs) - k + 1] \in Aggregates
    BY <2>1, ElementOfSeq
  <2> QED
    BY <1>1, <1>2, <2>2
<1> QED
  BY <1>1, <1>5, <1>6 DEF Follows

\* Into a setting of p.
LEMMA FollowsInto ==
  ASSUME NEW h, NEW p, NEW fs \in Seq(Aggregates), Follows(h, p, fs),
         NEW n \in Live(h), n # Root, h[n].parent = p, h[n].type \in Aggregates
  PROVE  Follows(h, n, Append(fs, h[n].type))
<1>1. PICK up : /\ WayUp(up, h, p) /\ Len(up) = Len(fs)
                /\ \A k \in 1 .. Len(fs) : h[up[k]].type = fs[Len(fs) - k + 1]
  BY DEF Follows
<1> DEFINE on == <<n>> \o up
           gs == Append(fs, h[n].type)
<1>2. /\ up \in Seq(Live(h)) /\ Len(fs) \in Nat /\ Len(fs) >= 1 /\ up[1] = p
      /\ <<n>> \in Seq(Live(h)) /\ Len(<<n>>) = 1 /\ <<n>>[1] = n
  BY <1>1 DEF WayUp
<1>3. /\ on \in Seq(Live(h)) /\ Len(on) = Len(fs) + 1
      /\ \A k \in 1 .. 1 + Len(up) : on[k] = IF k <= 1 THEN <<n>>[k] ELSE up[k - 1]
  BY <1>1, <1>2, ConcatProperties
<1>4. /\ Len(gs) = Len(fs) + 1 /\ gs[Len(fs) + 1] = h[n].type
      /\ \A k \in 1 .. Len(fs) : gs[k] = fs[k]
  BY AppendProperties
<1> HIDE DEF on, gs
<1>5. on[1] = n /\ \A k \in 1 .. Len(fs) : on[k + 1] = up[k] /\ k + 1 \in 1 .. Len(fs) + 1
  <2>1. on[1] = n
    BY <1>1, <1>2, <1>3
  <2>2. ASSUME NEW k \in 1 .. Len(fs) PROVE on[k + 1] = up[k] /\ k + 1 \in 1 .. Len(fs) + 1
    <3>1. k + 1 \in 1 .. 1 + Len(up) /\ ~(k + 1 <= 1) /\ k + 1 - 1 = k
      BY <1>1, <1>2
    <3> QED
      BY <1>1, <1>3, <3>1
  <2> QED
    BY <2>1, <2>2
<1>6. \A k \in 1 .. Len(fs) + 1 : k = 1 \/ (k - 1 \in 1 .. Len(fs) /\ k - 1 + 1 = k)
  BY <1>2
<1>7. WayUp(on, h, n)
  <2>1. on[Len(on)] = Root
    <3>1. Len(fs) \in 1 .. Len(fs)
      BY <1>2
    <3> QED
      BY <1>1, <1>3, <1>5, <3>1 DEF WayUp
  <2>2. ASSUME NEW k \in 1 .. Len(on) - 1 PROVE on[k] # Root /\ h[on[k]].parent = on[k + 1]
    <3>1. k \in 1 .. Len(fs) /\ k \in 1 .. Len(fs) + 1
      BY <1>2, <1>3
    <3>2. CASE k = 1
      BY <1>2, <1>5, <3>1, <3>2
    <3>3. CASE k # 1
      <4>1. k - 1 \in 1 .. Len(up) - 1 /\ k - 1 \in 1 .. Len(fs) /\ k - 1 + 1 = k
        BY <1>1, <1>2, <3>1, <3>3
      <4>2. up[k - 1] # Root /\ h[up[k - 1]].parent = up[k]
        BY <1>1, <4>1 DEF WayUp
      <4> QED
        BY <1>5, <3>1, <4>1, <4>2
    <3> QED
      BY <3>2, <3>3
  <2> QED
    BY <1>2, <1>3, <1>5, <2>1, <2>2 DEF WayUp
<1>8. ASSUME NEW k \in 1 .. Len(gs) PROVE h[on[k]].type = gs[Len(gs) - k + 1]
  <2>1. CASE k = 1
    BY <1>2, <1>4, <1>5, <2>1
  <2>2. CASE k # 1
    <3>1. k - 1 \in 1 .. Len(fs) /\ k - 1 + 1 = k /\ Len(gs) - k + 1 = Len(fs) - (k - 1) + 1
          /\ Len(fs) - (k - 1) + 1 \in 1 .. Len(fs)
      BY <1>2, <1>4, <2>2
    <3>2. on[k] = up[k - 1]
      BY <1>5, <3>1
    <3>3. h[up[k - 1]].type = fs[Len(fs) - (k - 1) + 1]
      BY <1>1, <3>1
    <3>4. gs[Len(gs) - k + 1] = fs[Len(fs) - (k - 1) + 1]
      BY <1>4, <3>1
    <3> QED
      BY <3>2, <3>3, <3>4
  <2> QED
    BY <2>1, <2>2
<1> QED
  BY <1>3, <1>4, <1>7, <1>8 DEF Follows, gs

\* And out of p.
LEMMA FollowsOut ==
  ASSUME NEW h, NEW p, NEW fs \in Seq(Aggregates), Follows(h, p, fs), Len(fs) > 1
  PROVE  /\ Follows(h, h[p].parent, SubSeq(fs, 1, Len(fs) - 1))
         /\ SubSeq(fs, 1, Len(fs) - 1) \in Seq(Aggregates)
         /\ LET gs == SubSeq(fs, 1, Len(fs) - 1) IN gs[Len(gs)] = fs[Len(fs) - 1]
<1>1. PICK up : /\ WayUp(up, h, p) /\ Len(up) = Len(fs)
                /\ \A k \in 1 .. Len(fs) : h[up[k]].type = fs[Len(fs) - k + 1]
  BY DEF Follows
<1> DEFINE on == Tail(up)
           gs == SubSeq(fs, 1, Len(fs) - 1)
<1>2. /\ up \in Seq(Live(h)) /\ Len(fs) \in Nat /\ up[1] = p /\ up # <<>>
  BY <1>1, EmptySeq DEF WayUp
<1>3. /\ on \in Seq(Live(h)) /\ Len(on) = Len(fs) - 1
      /\ \A k \in 1 .. Len(fs) - 1 : on[k] = up[k + 1]
  BY <1>1, <1>2, HeadTailProperties
<1>4. /\ gs \in Seq(Aggregates) /\ Len(gs) = Len(fs) - 1
      /\ \A k \in 1 .. Len(fs) - 1 : gs[k] = fs[k]
  <2>1. \A k \in 1 .. Len(fs) - 1 : fs[k] \in Aggregates
    BY <1>2, ElementOfSeq
  <2>2. /\ gs \in Seq(Aggregates)
        /\ Len(gs) = IF 1 <= Len(fs) - 1 THEN Len(fs) - 1 - 1 + 1 ELSE 0
        /\ \A k \in 1 .. Len(fs) - 1 - 1 + 1 : gs[k] = fs[1 + k - 1]
    BY <1>2, <2>1, SubSeqProperties
  <2>3. Len(fs) - 1 - 1 + 1 = Len(fs) - 1 /\ 1 <= Len(fs) - 1
    BY <1>2
  <2>4. \A k \in 1 .. Len(fs) - 1 : 1 + k - 1 = k
    BY <1>2
  <2> QED
    BY <2>2, <2>3, <2>4
<1> HIDE DEF on, gs
<1>5. WayUp(on, h, h[p].parent)
  <2>1. 1 \in 1 .. Len(up) - 1 /\ Len(fs) - 1 \in 1 .. Len(fs) - 1 /\ Len(fs) - 1 + 1 = Len(fs)
        /\ 1 \in 1 .. Len(fs) - 1 /\ Len(on) \in Nat /\ Len(on) >= 1
    BY <1>1, <1>2, <1>3
  <2>2. on[1] = h[p].parent
    BY <1>1, <1>2, <1>3, <2>1 DEF WayUp
  <2>3. on[Len(on)] = Root
    BY <1>1, <1>3, <2>1 DEF WayUp
  <2>4. ASSUME NEW k \in 1 .. Len(on) - 1 PROVE on[k] # Root /\ h[on[k]].parent = on[k + 1]
    <3>1. k \in 1 .. Len(fs) - 1 /\ k + 1 \in 1 .. Len(fs) - 1 /\ k + 1 \in 1 .. Len(up) - 1
      BY <1>1, <1>2, <1>3
    <3> QED
      BY <1>1, <1>3, <3>1 DEF WayUp
  <2> QED
    BY <1>3, <2>1, <2>2, <2>3, <2>4 DEF WayUp
<1>6. ASSUME NEW k \in 1 .. Len(gs) PROVE h[on[k]].type = gs[Len(gs) - k + 1]
  <2>1. k \in 1 .. Len(fs) - 1 /\ k + 1 \in 1 .. Len(fs)
        /\ Len(gs) - k + 1 = Len(fs) - (k + 1) + 1 /\ Len(gs) - k + 1 \in 1 .. Len(fs) - 1
    BY <1>2, <1>4
  <2> QED
    BY <1>1, <1>3, <1>4, <2>1
<1>7. gs[Len(gs)] = fs[Len(fs) - 1]
  BY <1>2, <1>4
<1> QED
  BY <1>3, <1>4, <1>5, <1>6, <1>7 DEF Follows, gs
-----------------------------------------------------------------------------
(***************************************************************************)
(* What the parser's actions do to the configuration.                      *)
(***************************************************************************)

\* g has what h has, and perhaps more: nothing that has a type loses it or moves.
Keeps(h, g) ==
  /\ Live(h) \subseteq Live(g)
  /\ \A m \in Live(h) : /\ g[m].parent = h[m].parent /\ g[m].name = h[m].name
                        /\ h[m].type # "NONE" => g[m].type = h[m].type

\* A setting without a type takes the kind it is given first.
LEMMA FirstValue ==
  ASSUME NEW s \in Setting, NEW kind \in Scalars, s.type \in {"NONE", kind},
         NEW v \in Values, NEW t \in SetResults(s, kind, v)
  PROVE  /\ t \in Setting /\ t.type = kind /\ t.file = s.file
         /\ t.parent = s.parent /\ t.name = s.name /\ t.kids = s.kids /\ t.room = s.room
<1> DEFINE Held == CASE kind = "INT64" /\ s.type = "INT" -> {Truncated(v)}
                     [] kind # "FLOAT" /\ s.type = "FLOAT" -> {ToFloat(v)}
                     [] kind = "FLOAT" /\ s.type = "INT" -> Cut(v, Ints)
                     [] kind = "FLOAT" /\ s.type = "INT64" -> Cut(v, Longs)
                     [] OTHER -> {v}
           type == IF s.type = "NONE" THEN kind ELSE s.type
<1>1. PICK x \in Held : t = [s EXCEPT !.type = IF @ = "NONE" THEN kind ELSE @, !.val = x]
  BY DEF SetResults
<1>2. ~(kind = "INT64" /\ s.type = "INT") /\ ~(kind # "FLOAT" /\ s.type = "FLOAT")
      /\ ~(kind = "FLOAT" /\ s.type = "INT") /\ ~(kind = "FLOAT" /\ s.type = "INT64")
  BY DEF Scalars, Numbers
<1>3. x = v
  BY <1>1, <1>2
<1> HIDE DEF Held
<1>4. type = kind /\ kind \in Types \cup {"FREE"}
  BY DEF Types
<1>5. t = [s EXCEPT !.type = kind, !.val = v]
  BY <1>1, <1>3, <1>4
<1> QED
  BY <1>4, <1>5 DEF Setting

\* The value of a setting changes, or it gets its type.
LEMMA Filled ==
  ASSUME NEW h, TreeInv(h), NEW n \in Live(h), NEW s \in Setting,
         s.parent = h[n].parent, s.name = h[n].name, s.kids = h[n].kids, s.room = h[n].room,
         s.type = h[n].type \/ (h[n].type = "NONE" /\ s.type \in Types),
         NEW g \in Heaps, g[n] = s, \A m \in Settings \ {n} : g[m] = h[m]
  PROVE  /\ TreeInv(g) /\ Keeps(h, g) /\ Live(g) = Live(h) /\ (HasRoom(g) <=> HasRoom(h))
         /\ \A m \in Settings : g[m].kids = h[m].kids /\ Kids(g, m) = Kids(h, m)
         /\ ArraysInv(h) => ArraysInv(g)
<1>0. h \in Heaps /\ n \in Settings
  BY DEF TreeInv, Live
<1>2. \A m \in Settings : /\ g[m].parent = h[m].parent /\ g[m].name = h[m].name
                          /\ g[m].kids = h[m].kids /\ g[m].room = h[m].room
                          /\ g[m].type = h[m].type \/ (h[m].type = "NONE" /\ g[m].type \in Types)
  OBVIOUS
<1>3. TreeInv(g) /\ Live(g) = Live(h) /\ \A m \in Settings : Kids(g, m) = Kids(h, m)
  BY <1>2, SameShape
<1>4. Keeps(h, g)
  BY <1>2, <1>3 DEF Keeps, Live
<1>5. ASSUME ArraysInv(h) PROVE ArraysInv(g)
  <2> SUFFICES ASSUME NEW p \in Live(g), g[p].type = "ARRAY", NEW x \in Kids(g, p), NEW y \in Kids(g, p)
               PROVE  g[x].type \in Scalars /\ g[x].type = g[y].type
    BY DEF ArraysInv
  <2>1. p \in Settings /\ p \in Live(h) /\ x \in Kids(h, p) /\ y \in Kids(h, p)
    BY <1>3 DEF Live
  <2>2. h[p].type = "ARRAY"
    <3>1. h[p].type # "NONE"
      BY <1>0, <2>1, NoRoom DEF TreeInv, Aggregates
    <3> QED
      BY <1>2, <2>1, <3>1
  <2>3. h[x].type \in Scalars /\ h[x].type = h[y].type /\ x \in Settings /\ y \in Settings
    BY <1>0, <1>5, <2>1, <2>2, KidsOf DEF ArraysInv
  <2> QED
    BY <1>2, <2>3 DEF Scalars, Numbers
<1>6. HasRoom(g) <=> HasRoom(h)
  BY <1>3 DEF HasRoom
<1> QED
  BY <1>2, <1>3, <1>4, <1>5, <1>6

\* A setting is added at the end of the list of p.
LEMMA Grown ==
  ASSUME NEW h, TreeInv(h), NEW p \in Live(h), HasRoom(h), h[p].type \in Aggregates,
         NEW name \in Names \cup {NoName}, NEW type \in Types, MayBeNamed(h, p, name),
         h[p].type = "ARRAY" => type \in Scalars /\ \A m \in Kids(h, p) : h[m].type = type
  PROVE  LET n == Address(h)
             g == SettingCreate(h, p, name, type)
         IN  /\ TreeInv(g) /\ Keeps(h, g) /\ Live(g) = Live(h) \cup {n}
             /\ n \in Settings \ Live(h) /\ n # Root /\ n \in Kids(g, p)
             /\ g[n].type = type /\ g[n].parent = p /\ g[n].file = Null
             /\ \A m \in Live(h) : g[m].type = h[m].type /\ g[m].file = h[m].file
             /\ g[p].kids = Append(h[p].kids, n) /\ g[p].kids[Len(g[p].kids)] = n
             /\ ArraysInv(h) => ArraysInv(g)
<1> DEFINE n == Address(h)
           g == SettingCreate(h, p, name, type)
<1>1. h \in Heaps /\ p \in Settings /\ Live(h) \subseteq Settings /\ Root \in Live(h)
  BY Addresses DEF TreeInv, Live, FamilyInv
<1>2. /\ g \in Heaps
      /\ n \in Settings \ Live(h) /\ n # p
      /\ g[n] = NewSetting(type, name, p)
      /\ \A m \in Settings \ {p, n} : g[m] = h[m]
      /\ Alike(g[p], h[p]) /\ g[p].file = h[p].file
      /\ g[p].kids = Append(h[p].kids, n)
      /\ Live(g) = Live(h) \cup {n}
      /\ Kids(g, p) = Kids(h, p) \cup {n} /\ Kids(g, n) = {}
      /\ \A m \in Settings \ {p, n} : Kids(g, m) = Kids(h, m)
  BY <1>1, CreateIs
<1>3. TreeInv(g)
  BY CreateTree
<1> HIDE DEF n, g
<1>4. g[n].type = type /\ g[n].parent = p /\ g[n].file = Null
  BY <1>1, <1>2, NewSettingIs
<1>5. \A m \in Live(h) : /\ g[m].type = h[m].type /\ g[m].file = h[m].file
                         /\ g[m].parent = h[m].parent /\ g[m].name = h[m].name
  BY <1>1, <1>2 DEF Alike
<1>6. Keeps(h, g)
  BY <1>2, <1>5 DEF Keeps
<1>7. g[p].kids[Len(g[p].kids)] = n
  BY <1>1, <1>2, KidsOf, AppendKids
<1>8. ASSUME ArraysInv(h) PROVE ArraysInv(g)
  <2> SUFFICES ASSUME NEW q \in Live(g), g[q].type = "ARRAY", NEW x \in Kids(g, q), NEW y \in Kids(g, q)
               PROVE  g[x].type \in Scalars /\ g[x].type = g[y].type
    BY DEF ArraysInv
  <2>1. q # n /\ q \in Live(h) /\ h[q].type = "ARRAY"
    BY <1>2, <1>5
  <2>2. \A m \in Kids(h, q) : m \in Live(h)
    BY <1>1, <2>1 DEF TreeInv, FamilyInv
  <2>3. \A m, z \in Kids(h, q) : g[m].type \in Scalars /\ g[m].type = g[z].type
    BY <1>5, <1>8, <2>1, <2>2 DEF ArraysInv
  <2>4. CASE q # p
    BY <1>1, <1>2, <2>1, <2>3, <2>4
  <2>5. CASE q = p
    <3>1. \A m \in Kids(h, q) : g[m].type = type
      BY <1>5, <2>1, <2>2, <2>5
    <3> QED
      BY <1>2, <1>4, <2>1, <2>3, <2>5, <3>1
  <2> QED
    BY <2>4, <2>5
<1>9. n # Root
  BY <1>1, <1>2
<1> QED
  BY <1>2, <1>3, <1>4, <1>5, <1>6, <1>7, <1>8, <1>9 DEF n, g

LEMMA KeepsOn ==
  ASSUME NEW h, NEW g, Keeps(h, g), NEW f, Keeps(g, f)
  PROVE  Keeps(h, f)
BY DEF Keeps

LEMMA KeepsWay ==
  ASSUME NEW h, NEW p, NEW fs \in Seq(Aggregates), Follows(h, p, fs), NEW g, Keeps(h, g)
  PROVE  Follows(g, p, fs)
<1>1. \A m \in Live(h) : /\ g[m].parent = h[m].parent
                         /\ h[m].type \in Aggregates => g[m].type = h[m].type
  BY DEF Keeps, Aggregates
<1> QED
  BY <1>1, FollowsStays DEF Keeps
\* A setting is created at n, at the end of the list of p, and becomes s; K is where the files
\* of settings come from.
Adding(h, p, n, f, name, type, K, s, g) ==
  /\ TreeInv(h) /\ p \in Live(h) /\ HasRoom(h) /\ h[p].type \in Aggregates
  /\ name \in Names \cup {NoName} /\ type \in Types /\ MayBeNamed(h, p, name)
  /\ h[p].type = "ARRAY" => type \in Scalars /\ \A m \in Kids(h, p) : h[m].type = type
  /\ \A m \in Live(h) : h[m].file \in K
  /\ n = Address(h) /\ f = SettingCreate(h, p, name, type)
  /\ s \in Setting /\ s.type = type /\ s.name = name /\ s.parent = p /\ s.kids = <<>>
  /\ s.room = 0 /\ s.file \in K
  /\ g \in Heaps /\ g[n] = s /\ \A m \in Settings \ {n} : g[m] = f[m]

LEMMA AddedIs ==
  ASSUME NEW h, NEW p, NEW n, NEW f, NEW name, NEW type, NEW K, NEW s, NEW g,
         Adding(h, p, n, f, name, type, K, s, g)
  PROVE  /\ TreeInv(g) /\ Keeps(h, g) /\ Live(g) = Live(h) \cup {n}
         /\ n # Root /\ n \in Kids(g, p) /\ g[p].kids[Len(g[p].kids)] = n
         /\ g[n].type = type /\ g[n].parent = p
         /\ ArraysInv(h) => ArraysInv(g)
         /\ \A m \in Live(g) : g[m].file \in K
<1>a. /\ TreeInv(h) /\ p \in Live(h) /\ HasRoom(h) /\ h[p].type \in Aggregates
      /\ name \in Names \cup {NoName} /\ type \in Types /\ MayBeNamed(h, p, name)
      /\ h[p].type = "ARRAY" => type \in Scalars /\ \A m \in Kids(h, p) : h[m].type = type
      /\ \A m \in Live(h) : h[m].file \in K
      /\ n = Address(h) /\ f = SettingCreate(h, p, name, type)
      /\ s \in Setting /\ s.type = type /\ s.name = name /\ s.parent = p /\ s.kids = <<>>
      /\ s.room = 0 /\ s.file \in K
      /\ g \in Heaps
  BY DEF Adding
<1>b. h[p].type = "ARRAY" => type \in Scalars /\ \A m \in Kids(h, p) : h[m].type = type
  BY DEF Adding
<1>0. h \in Heaps /\ p \in Settings
  BY <1>a DEF TreeInv, Live
<1>1. /\ TreeInv(f) /\ Keeps(h, f) /\ Live(f) = Live(h) \cup {n}
      /\ n \in Settings \ Live(h) /\ n # Root /\ n \in Kids(f, p)
      /\ f[n].type = type /\ f[n].parent = p
      /\ \A m \in Live(h) : f[m].type = h[m].type /\ f[m].file = h[m].file
      /\ f[p].kids[Len(f[p].kids)] = n
      /\ ArraysInv(h) => ArraysInv(f)
  BY <1>a, Grown
<1>2. f[n] = NewSetting(type, name, p)
  BY <1>a, <1>0, CreateIs
<1>3. f[n].name = name /\ f[n].kids = <<>> /\ f[n].room = 0
  BY <1>a, <1>0, <1>2, NewSettingIs
<1>4. g[n] = s /\ \A m \in Settings \ {n} : g[m] = f[m]
  BY DEF Adding
<1>5. n \in Live(f)
  BY <1>1
<1>6. /\ TreeInv(g) /\ Keeps(f, g) /\ Live(g) = Live(f)
      /\ \A m \in Settings : g[m].kids = f[m].kids /\ Kids(g, m) = Kids(f, m)
      /\ ArraysInv(f) => ArraysInv(g)
  <2>1. /\ s.parent = f[n].parent /\ s.name = f[n].name /\ s.kids = f[n].kids
        /\ s.room = f[n].room /\ s.type = f[n].type /\ s \in Setting
    BY <1>a, <1>1, <1>3
  <2> QED
    BY <1>1, <1>4, <1>5, <2>1, <1>a, Filled
<1>7. Keeps(h, g)
  BY <1>1, <1>6, KeepsOn
<1>8. \A m \in Live(g) : g[m].file \in K
  <2> TAKE m \in Live(g)
  <2>1. m \in Settings /\ (m = n \/ m \in Live(h))
    BY <1>1, <1>6 DEF Live
  <2>2. m = n => g[m].file \in K
    BY <1>a, <1>4
  <2>3. m # n => g[m] = f[m] /\ f[m].file = h[m].file /\ m \in Live(h)
    BY <1>1, <1>4, <2>1
  <2> QED
    BY <1>a, <2>1, <2>2, <2>3
<1>9. g[n].type = type /\ g[n].parent = p
  BY <1>a, <1>4
<1> QED
  BY <1>0, <1>1, <1>6, <1>7, <1>8, <1>9

-----------------------------------------------------------------------------
(***************************************************************************)
(* The inductive invariant of the reader: the words, the stack of files,   *)
(* and where the parser and its actions think they are.                    *)
(***************************************************************************)
KnownFiles == filenames \cup {Null}
Buffers == 1 .. MAX_INCLUDE_DEPTH + 1

TextInv ==
  /\ text \in Seq(Words) /\ look \in Words \cup {Token("END")}
  /\ look.t = "END" => Depth = 0

\* Each level has a file and a buffer of its own, and its stream is open.
IncludesInv ==
  /\ Depth <= MAX_INCLUDE_DEPTH
  /\ files \in Seq(KnownFiles) /\ Len(files) = Depth + 1
  /\ buffer \in Buffers
  /\ \A i \in Levels : includes[i] # buffer
  /\ \A i, j \in Levels : includes[i] = includes[j] => i = j
  /\ buffers = {buffer} \cup {includes[i] : i \in Levels}
  /\ open = Levels \cup (IF files[1] = Null THEN {} ELSE {0})

FilesInv ==
  /\ filenames \subseteq Nat /\ error.file \in KnownFiles
  /\ includes \in Seq(Buffers)
  /\ IF phase = "parse" THEN IncludesInv ELSE buffers = {} /\ open = {} /\ includes = <<>>
  /\ phase \in {"parse", "done"} => \A n \in Live(config) : config[n].file \in KnownFiles

Pending == state \in {"equals", "value"} \/ (state = "string" /\ Frame = "GROUP")

ParserInv ==
  /\ ArraysInv(config)
  /\ frames \in Seq(Aggregates) /\ Follows(config, parent, frames)
  /\ state \in {"setting", "equals", "value", "terminator", "first", "element", "separator",
                "string"}
  /\ state \in {"setting", "equals", "value", "terminator"} => Frame = "GROUP"
  /\ state \in {"first", "element", "separator"} => Frame \in {"ARRAY", "LIST"}
  /\ Pending => /\ setting \in Kids(config, parent)
                /\ setting = config[parent].kids[Len(config[parent].kids)]
                /\ config[setting].type = "NONE"
  /\ string \in Values \cup {NoString}
  /\ state = "string" => string \in Values /\ (InVector => HasRoom(config))
  /\ state # "separator" /\ look # NoToken => RoomFor(look)

ReaderInv ==
  /\ phase \in {"build", "ready", "parse", "done"}
  /\ TreeInv(config) /\ TextInv /\ FilesInv
  /\ phase = "parse" => ParserInv

LEMMA ReaderInitInv ==
  ReaderInit => ReaderInv
<1> SUFFICES ASSUME ReaderInit PROVE ReaderInv
  OBVIOUS
<1> USE DEF ReaderInit
<1>1. TreeInv(config)
  BY EmptyIs
<1>2. TextInv
  <2>1. Token("none") \in Words
    BY WordsAre DEF SeenTypes
  <2>2. text \in Seq(Words)
    BY EmptySeq
  <2>3. look.t = "none"
    BY DEF NoToken, Token
  <2> QED
    BY <2>1, <2>2, <2>3 DEF TextInv, NoToken
<1>3. FilesInv
  BY EmptySeq DEF FilesInv, KnownFiles, NoError
<1> QED
  BY <1>1, <1>2, <1>3 DEF ReaderInv

\* The parser stays where it is: the new word has the room it needs.
LEMMA ParserStaysInv ==
  ASSUME ReaderInv, phase = "parse", ParserStays,
         look' = NoToken \/ RoomFor(look')
  PROVE  phase' = "parse" /\ TreeInv(config') /\ ParserInv'
<1>1. ParserInv /\ TreeInv(config)
  BY DEF ReaderInv
<1>2. /\ config' = config /\ phase' = "parse" /\ state' = state /\ frames' = frames
      /\ parent' = parent /\ setting' = setting /\ string' = string
  BY DEF ParserStays
<1>3. look' # NoToken => RoomFor(look)'
  BY <1>2 DEF RoomFor, Adds, InVector
<1> QED
  BY <1>1, <1>2, <1>3 DEF ParserInv, Pending, Frame, InVector

LEMMA CurrentFileIs ==
  ASSUME ReaderInv, phase = "parse"
  PROVE  CurrentFile \in KnownFiles /\ CurrentFile \in Nat /\ files \in Seq(KnownFiles)
         /\ Depth \in Nat /\ Len(files) = Depth + 1 /\ KnownFiles \subseteq Nat
<1>1. files \in Seq(KnownFiles) /\ Len(files) = Depth + 1 /\ includes \in Seq(Buffers)
      /\ filenames \subseteq Nat
  BY DEF ReaderInv, FilesInv, IncludesInv
<1>2. Depth \in Nat
  BY <1>1, LenProperties DEF Depth
<1>3. Len(files) \in 1 .. Len(files)
  BY <1>1, <1>2
<1>4. files[Len(files)] \in KnownFiles
  BY <1>1, <1>3, ElementOfSeq
<1>5. KnownFiles \subseteq Nat
  BY <1>1 DEF KnownFiles, Null
<1> QED
  BY <1>1, <1>2, <1>4, <1>5 DEF CurrentFile
LEMMA TokensAreWords ==
  Tokens \subseteq Words
<1>1. 0 \in Values
  BY DEF Values
<1>2. \A kind \in Scalars : ValuesOf(kind) \subseteq Values
  BY ValuesAreNumbers DEF Values
<1> SUFFICES ASSUME NEW t \in Recognised, NEW w \in TokensOf(t) PROVE w \in Words
  BY DEF Tokens
<1> DEFINE vs == IF t \in ScalarTokens THEN ValuesOf(KindOf(t)) ELSE {0}
           ns == IF t = "NAME" THEN Names ELSE {NoName}
<1>3. vs \subseteq Values
  <2>1. t \in ScalarTokens => KindOf(t) \in Scalars
    BY DEF ScalarTokens, KindOf, Scalars, Numbers
  <2> QED
    BY <1>1, <1>2, <2>1
<1>4. ns \subseteq Names \cup {NoName} /\ (t = "NAME" => ns = Names)
  OBVIOUS
<1>5. w \in [t : {t}, v : vs, name : ns]
  BY DEF TokensOf
<1>6. t \in SeenTypes
  BY DEF SeenTypes
<1> HIDE DEF vs, ns
<1> QED
  BY <1>3, <1>4, <1>5, <1>6 DEF Words

LEMMA NoWordEnds ==
  /\ \A w \in Words : w.t # "END"
  /\ NoToken \in Words /\ NoToken.t # "END" /\ Token("END").t = "END"
  /\ Token("ERROR") \in Words
<1>1. "END" \notin SeenTypes /\ "none" \in SeenTypes \ {"NAME"} /\ "ERROR" \in SeenTypes \ {"NAME"}
  BY DEF SeenTypes, Recognised, ScalarTokens
<1>2. NoToken \in Words /\ Token("ERROR") \in Words
  BY <1>1, WordsAre DEF NoToken
<1> QED
  BY <1>1, <1>2 DEF Words, NoToken, Token

LEMMA ScanWrittenStep ==
  ASSUME ReaderInv, ScanWritten
  PROVE  ReaderInv'
<1> USE DEF ScanWritten, Scanning
<1>1. text \in Seq(Words) /\ text # <<>>
  BY DEF ReaderInv, TextInv
<1>2. look' \in Words /\ text' \in Seq(Words)
  BY <1>1, HeadTailProperties
<1>3. phase' = "parse" /\ TreeInv(config') /\ ParserInv'
  BY ParserStaysInv
<1>4. TextInv'
  BY <1>2, NoWordEnds DEF TextInv
<1>5. FilesInv'
  <2>1. phase' = phase /\ config' = config
    BY DEF ParserStays
  <2> QED
    BY <2>1 DEF ReaderInv, FilesInv, IncludesInv, KnownFiles, Depth, Levels
<1> QED
  BY <1>3, <1>4, <1>5 DEF ReaderInv

LEMMA ScanAnyStep ==
  ASSUME ReaderInv, ScanAny
  PROVE  ReaderInv'
<1> USE DEF ScanAny, Scanning
<1>1. look' \in Words /\ RoomFor(look') /\ text' = text
  BY TokensAreWords, ReaderAssumption DEF ReaderAssumption
<1>2. phase' = "parse" /\ TreeInv(config') /\ ParserInv'
  BY <1>1, ParserStaysInv
<1>3. TextInv'
  BY <1>1, NoWordEnds DEF ReaderInv, TextInv
<1>4. FilesInv'
  <2>1. phase' = phase /\ config' = config
    BY DEF ParserStays
  <2> QED
    BY <2>1 DEF ReaderInv, FilesInv, IncludesInv, KnownFiles, Depth, Levels
<1> QED
  BY <1>2, <1>3, <1>4 DEF ReaderInv

\* A token that is not one the scanner recognises needs no room.
LEMMA NoRoomNeeded ==
  RoomFor(Token("END")) /\ RoomFor(Token("ERROR"))
BY DEF RoomFor, Adds, Token, ScalarTokens

\* As many buffers as levels, so there is another one for a file that is included.
LEMMA BuffersAre ==
  ASSUME ReaderInv, phase = "parse"
  PROVE  /\ Cardinality(buffers) = Depth + 1
         /\ Depth < MAX_INCLUDE_DEPTH => NewBuffer \in Buffers \ buffers
<1>0. includes \in Seq(Buffers) /\ Depth \in Nat /\ MAX_INCLUDE_DEPTH \in Nat
      /\ \A i \in Levels : includes[i] \in Buffers
  <2>1. includes \in Seq(Buffers)
    BY DEF ReaderInv, FilesInv
  <2>2. Depth \in Nat
    BY <2>1, LenProperties DEF Depth
  <2>3. \A i \in Levels : includes[i] \in Buffers
    BY <2>1, ElementOfSeq DEF Levels, Depth
  <2> QED
    BY <2>1, <2>2, <2>3, ReaderAssumption DEF ReaderAssumption
<1> DEFINE saved == {includes[i] : i \in Levels}
           f == [i \in Levels |-> includes[i]]
<1>1. /\ buffer \in Buffers /\ buffer \notin saved /\ buffers = saved \cup {buffer}
      /\ \A i, j \in Levels : includes[i] = includes[j] => i = j
  BY DEF ReaderInv, FilesInv, IncludesInv
<1>2. f \in Bijection(Levels, saved)
  BY <1>1 DEF Bijection, Injection, Surjection, IsInjective
<1>3. IsFiniteSet(Levels) /\ Cardinality(Levels) = Depth
  BY <1>0, FS_Interval DEF Levels
<1>4. IsFiniteSet(saved) /\ Cardinality(saved) = Depth
  <2>1. ExistsBijection(Levels, saved)
    BY <1>2 DEF ExistsBijection
  <2> HIDE DEF saved
  <2> QED
    BY <1>3, <2>1, FS_Bijection
<1>5. saved \subseteq Buffers
  BY <1>0
<1> HIDE DEF saved
<1>6. Cardinality(buffers) = Depth + 1 /\ IsFiniteSet(buffers)
  BY <1>1, <1>4, FS_AddElement
<1>7. IsFiniteSet(Buffers) /\ Cardinality(Buffers) = MAX_INCLUDE_DEPTH + 1
  BY <1>0, FS_Interval DEF Buffers
<1>8. ASSUME Depth < MAX_INCLUDE_DEPTH PROVE \E b \in Buffers : b \notin buffers
  <2>1. buffers \subseteq Buffers
    BY <1>1, <1>5
  <2>2. buffers # Buffers
    BY <1>0, <1>6, <1>7, <1>8
  <2> QED
    BY <2>1, <2>2
<1> QED
  BY <1>6, <1>8 DEF NewBuffer, Buffers

LEMMA ScanIncludeStep ==
  ASSUME ReaderInv, NEW f \in {2, Missing}, ScanInclude(f)
  PROVE  ReaderInv'
<1> USE DEF Scanning
<1>0. /\ f \in Nat /\ phase = "parse" /\ look = NoToken /\ ParserStays
      /\ phase' = phase /\ config' = config
  BY ReaderAssumption DEF ReaderAssumption, ScanInclude, ParserStays
<1>1. ReaderInv /\ TextInv /\ FilesInv /\ IncludesInv
  BY <1>0 DEF ReaderInv, FilesInv
<1>2. CurrentFile \in KnownFiles /\ files \in Seq(KnownFiles)
      /\ Depth \in Nat /\ Len(files) = Depth + 1
  BY <1>0, CurrentFileIs
<1>3. CASE Depth = MAX_INCLUDE_DEPTH \/ f = Missing
  <2>1. look' = Token("ERROR") /\ error'.file = CurrentFile
        /\ UNCHANGED <<text, files, includes, buffer, buffers, open, filenames>>
    BY <1>3 DEF ScanInclude, NoError
  <2>2. phase' = "parse" /\ TreeInv(config') /\ ParserInv'
    BY <1>0, <2>1, NoRoomNeeded, ParserStaysInv
  <2>3. TextInv'
    BY <1>1, <2>1, NoWordEnds DEF TextInv
  <2>4. FilesInv'
    BY <1>0, <1>1, <1>2, <2>1 DEF FilesInv, IncludesInv, KnownFiles, Depth, Levels
  <2> QED
    BY <2>2, <2>3, <2>4 DEF ReaderInv
<1>4. CASE ~(Depth = MAX_INCLUDE_DEPTH \/ f = Missing)
  <2>1. /\ includes' = Append(includes, buffer) /\ files' = Append(files, f)
        /\ filenames' = filenames \cup {f}
        /\ buffer' = NewBuffer /\ buffers' = buffers \cup {NewBuffer}
        /\ open' = open \cup {Depth + 1}
        /\ UNCHANGED <<look, error, text>>
    BY <1>4 DEF ScanInclude
  <2>2. phase' = "parse" /\ TreeInv(config') /\ ParserInv'
    BY <1>0, <2>1, ParserStaysInv
  <2>3. TextInv'
    BY <1>0, <1>1, <2>1, NoWordEnds DEF TextInv
  <2>4. Depth < MAX_INCLUDE_DEPTH /\ Depth + 1 <= MAX_INCLUDE_DEPTH
    BY <1>1, <1>2, <1>4, ReaderAssumption DEF ReaderAssumption, IncludesInv
  <2>5. NewBuffer \in Buffers /\ NewBuffer \notin buffers
    BY <1>0, <2>4, BuffersAre
  <2>6. includes \in Seq(Buffers) /\ buffer \in Buffers /\ Len(includes) = Depth
    BY <1>1 DEF FilesInv, IncludesInv, Depth
  <2>7. /\ includes' \in Seq(Buffers) /\ Len(includes') = Depth + 1
        /\ includes'[Depth + 1] = buffer /\ \A i \in 1 .. Depth : includes'[i] = includes[i]
    BY <2>1, <2>6, AppendProperties
  <2>8. Depth' = Depth + 1 /\ Levels' = Levels \cup {Depth + 1} /\ Depth + 1 \notin Levels
        /\ Levels = 1 .. Depth
    BY <1>2, <2>7 DEF Depth, Levels
  <2>9. KnownFiles \subseteq KnownFiles' /\ f \in KnownFiles'
    BY <2>1 DEF KnownFiles
  <2>10. files' \in Seq(KnownFiles') /\ Len(files') = Depth' + 1 /\ files'[1] = files[1]
    <3>1. files \in Seq(KnownFiles')
      BY <1>2, <2>9, SeqMonotonic
    <3>2. files' \in Seq(KnownFiles') /\ Len(files') = Len(files) + 1
          /\ \A i \in 1 .. Len(files) : files'[i] = files[i]
      BY <2>1, <2>9, <3>1, AppendProperties
    <3> QED
      BY <1>2, <2>8, <3>2
  <2>11. IncludesInv'
    <3>1. /\ \A i \in Levels : includes[i] # buffer /\ includes[i] \in buffers
          /\ \A i, j \in Levels : includes[i] = includes[j] => i = j
          /\ buffers = {buffer} \cup {includes[i] : i \in Levels}
          /\ open = Levels \cup (IF files[1] = Null THEN {} ELSE {0})
      BY <1>1 DEF IncludesInv
    <3>2. \A i \in Levels' : includes'[i] # buffer'
      <4>1. \A i \in Levels : includes'[i] = includes[i]
        BY <2>7, <2>8
      <4>2. \A i \in Levels : includes'[i] \in buffers
        BY <3>1, <4>1
      <4>3. includes'[Depth + 1] \in buffers
        BY <2>7, <3>1
      <4>4. \A i \in Levels' : includes'[i] \in buffers
        BY <2>8, <4>2, <4>3
      <4> QED
        BY <2>1, <2>5, <4>4
    <3>3. \A i, j \in Levels' : includes'[i] = includes'[j] => i = j
      BY <2>7, <2>8, <3>1
    <3>4. buffers' = {buffer'} \cup {includes'[i] : i \in Levels'}
      <4>1. {includes'[i] : i \in Levels'} = {includes[i] : i \in Levels} \cup {buffer}
        BY <2>7, <2>8
      <4> QED
        BY <2>1, <3>1, <4>1
    <3>5. open' = Levels' \cup (IF files'[1] = Null THEN {} ELSE {0})
      BY <2>1, <2>8, <2>10, <3>1
    <3> QED
      BY <2>1, <2>4, <2>5, <2>8, <2>10, <3>2, <3>3, <3>4, <3>5 DEF IncludesInv, Buffers
  <2>12. FilesInv'
    <3>1. filenames' \subseteq Nat
      BY <1>0, <1>1, <2>1 DEF FilesInv
    <3>2. error'.file \in KnownFiles' /\ \A n \in Live(config') : config'[n].file \in KnownFiles'
      BY <1>0, <1>1, <2>1, <2>9 DEF FilesInv
    <3> QED
      BY <1>0, <2>7, <2>11, <3>1, <3>2 DEF FilesInv, Buffers
  <2> QED
    BY <2>2, <2>3, <2>12 DEF ReaderInv
<1> QED
  BY <1>3, <1>4
LEMMA ScanEndStep ==
  ASSUME ReaderInv, ScanEnd
  PROVE  ReaderInv'
<1> USE DEF Scanning
<1>0. /\ phase = "parse" /\ look = NoToken /\ ParserStays
      /\ phase' = phase /\ config' = config
  BY DEF ScanEnd, ParserStays
<1>1. ReaderInv /\ TextInv /\ FilesInv /\ IncludesInv
  BY <1>0 DEF ReaderInv, FilesInv
<1>2. files \in Seq(KnownFiles) /\ Depth \in Nat /\ Len(files) = Depth + 1
  BY <1>0, CurrentFileIs
<1>3. CASE Depth = 0
  <2>1. look' = Token("END")
        /\ UNCHANGED <<error, text, files, includes, buffer, buffers, open, filenames>>
    BY <1>3 DEF ScanEnd, scannerVars
  <2>2. phase' = "parse" /\ TreeInv(config') /\ ParserInv'
    BY <1>0, <2>1, NoRoomNeeded, ParserStaysInv
  <2>3. TextInv'
    BY <1>1, <1>3, <2>1, NoWordEnds DEF TextInv, Depth
  <2>4. FilesInv'
    BY <1>0, <1>1, <2>1 DEF FilesInv, IncludesInv, KnownFiles, Depth, Levels
  <2> QED
    BY <2>2, <2>3, <2>4 DEF ReaderInv
<1>4. CASE Depth # 0
  <2>1. /\ open' = open \ {Depth} /\ includes' = SubSeq(includes, 1, Depth - 1)
        /\ files' = SubSeq(files, 1, Depth)
        /\ buffers' = buffers \ {buffer} /\ buffer' = includes[Depth]
        /\ UNCHANGED <<look, error, text, filenames>>
    BY <1>4 DEF ScanEnd
  <2>2. phase' = "parse" /\ TreeInv(config') /\ ParserInv'
    BY <1>0, <2>1, ParserStaysInv
  <2>3. TextInv'
    BY <1>0, <1>1, <2>1, NoWordEnds DEF TextInv
  <2>4. /\ includes \in Seq(Buffers) /\ Len(includes) = Depth /\ Levels = 1 .. Depth
        /\ \A i \in 1 .. Depth : includes[i] \in Buffers
        /\ Depth \in Levels
    <3>1. includes \in Seq(Buffers) /\ Len(includes) = Depth
      BY <1>1 DEF FilesInv, Depth
    <3>2. \A i \in 1 .. Depth : includes[i] \in Buffers
      BY <3>1, ElementOfSeq
    <3> QED
      BY <1>2, <1>4, <3>1, <3>2 DEF Levels
  <2>5. /\ includes' \in Seq(Buffers) /\ Len(includes') = Depth - 1
        /\ \A i \in 1 .. Depth - 1 : includes'[i] = includes[i]
    <3>1. /\ includes' \in Seq(Buffers)
          /\ Len(includes') = IF 1 <= Depth - 1 THEN Depth - 1 - 1 + 1 ELSE 0
          /\ \A i \in 1 .. Depth - 1 - 1 + 1 : includes'[i] = includes[1 + i - 1]
      <4>1. \A i \in 1 .. Depth - 1 : includes[i] \in Buffers
        BY <1>2, <2>4
      <4>2. Depth - 1 \in Int
        BY <1>2
      <4> QED
        BY <2>1, <4>1, <4>2, SubSeqProperties
    <3>2. Depth - 1 - 1 + 1 = Depth - 1 /\ (1 <= Depth - 1 \/ Depth - 1 = 0)
      BY <1>2, <1>4
    <3>3. \A i \in 1 .. Depth - 1 : 1 + i - 1 = i
      BY <1>2
    <3> QED
      BY <3>1, <3>2, <3>3
  <2>6. Depth' = Depth - 1 /\ Levels' = Levels \ {Depth} /\ Levels' = 1 .. Depth - 1
    BY <1>2, <2>4, <2>5 DEF Depth, Levels
  <2>7. files' \in Seq(KnownFiles') /\ Len(files') = Depth' + 1 /\ files'[1] = files[1]
    <3>1. \A i \in 1 .. Depth : files[i] \in KnownFiles
      BY <1>2, ElementOfSeq
    <3>2. /\ files' \in Seq(KnownFiles)
          /\ Len(files') = IF 1 <= Depth THEN Depth - 1 + 1 ELSE 0
          /\ \A i \in 1 .. Depth - 1 + 1 : files'[i] = files[1 + i - 1]
      BY <1>2, <2>1, <3>1, SubSeqProperties
    <3>3. 1 <= Depth /\ Depth - 1 + 1 = Depth /\ 1 \in 1 .. Depth
      BY <1>2, <1>4
    <3>4. KnownFiles' = KnownFiles
      BY <2>1 DEF KnownFiles
    <3> QED
      BY <2>6, <3>2, <3>3, <3>4
  <2>8. IncludesInv'
    <3>1. /\ \A i \in Levels : includes[i] # buffer
          /\ \A i, j \in Levels : includes[i] = includes[j] => i = j
          /\ buffers = {buffer} \cup {includes[i] : i \in Levels}
          /\ open = Levels \cup (IF files[1] = Null THEN {} ELSE {0})
          /\ Depth <= MAX_INCLUDE_DEPTH
      BY <1>1 DEF IncludesInv
    <3>2. \A i \in Levels' : includes'[i] = includes[i] /\ i \in Levels /\ i # Depth
      BY <2>5, <2>6
    <3>3. \A i \in Levels' : includes'[i] # buffer'
      BY <2>1, <2>4, <3>1, <3>2
    <3>4. \A i, j \in Levels' : includes'[i] = includes'[j] => i = j
      BY <3>1, <3>2
    <3>5. buffers' = {buffer'} \cup {includes'[i] : i \in Levels'}
      <4>1. {includes[i] : i \in Levels} = {includes[Depth]} \cup {includes[i] : i \in Levels'}
        BY <2>4, <2>6
      <4>2. {includes'[i] : i \in Levels'} = {includes[i] : i \in Levels'}
        BY <3>2
      <4>3. buffer \notin {includes[i] : i \in Levels}
        BY <3>1
      <4> QED
        BY <2>1, <3>1, <4>1, <4>2, <4>3
    <3>6. open' = Levels' \cup (IF files'[1] = Null THEN {} ELSE {0})
      BY <1>4, <2>1, <2>6, <2>7, <3>1
    <3>7. Depth' <= MAX_INCLUDE_DEPTH
      BY <1>2, <2>6, <3>1, ReaderAssumption DEF ReaderAssumption
    <3>8. buffer' \in Buffers
      BY <2>1, <2>4
    <3> QED
      BY <2>7, <3>3, <3>4, <3>5, <3>6, <3>7, <3>8 DEF IncludesInv, Buffers
  <2>9. FilesInv'
    BY <1>0, <1>1, <2>1, <2>5, <2>8 DEF FilesInv, Buffers, KnownFiles
  <2> QED
    BY <2>2, <2>3, <2>9 DEF ReaderInv
<1> QED
  BY <1>3, <1>4

\* The end of a read: no buffer and no stream is left.
LEMMA Ended ==
  ASSUME ReaderInv, phase = "parse", phase' = "done", error'.file \in KnownFiles,
         buffers' = (IF error'.type = "PARSE" THEN Unwound(includes) ELSE buffers) \ {buffer},
         open' = open \ (Levels \cup {0}), includes' = <<>>,
         UNCHANGED <<config, look, text, filenames>>,
         error'.type = "PARSE" \/ Depth = 0
  PROVE  ReaderInv'
<1>1. TextInv /\ FilesInv /\ IncludesInv /\ Depth \in Nat /\ Len(includes) = Depth
      /\ DOMAIN includes = Levels
  <2>1. TextInv /\ FilesInv /\ IncludesInv
    BY DEF ReaderInv, FilesInv
  <2> QED
    BY <2>1, LenProperties DEF FilesInv, Depth, Levels
<1>2. buffers' = {}
  <2>1. buffers = {buffer} \cup {includes[i] : i \in Levels}
    BY <1>1 DEF IncludesInv
  <2>2. CASE error'.type = "PARSE"
    BY <1>1, <2>1, <2>2 DEF Unwound
  <2>3. CASE error'.type # "PARSE"
    <3>1. Levels = {}
      BY <2>3 DEF Levels
    <3> QED
      BY <2>1, <2>3, <3>1
  <2> QED
    BY <2>2, <2>3
<1>3. open' = {}
  BY <1>1 DEF IncludesInv
<1>4. Depth' = 0 /\ includes' \in Seq(Buffers)
  BY EmptySeq DEF Depth
<1>5. FilesInv'
  BY <1>1, <1>2, <1>3, <1>4 DEF FilesInv, KnownFiles, Buffers
<1>6. TextInv'
  BY <1>1, <1>4 DEF TextInv
<1> QED
  BY <1>5, <1>6 DEF ReaderInv

LEMMA AbortStep ==
  ASSUME ReaderInv, phase = "parse", NEW m, Abort(m)
  PROVE  ReaderInv'
<1>1. /\ phase' = "done" /\ error'.file = CurrentFile /\ error'.type = "PARSE"
      /\ buffers' = Unwound(includes) \ {buffer}
      /\ open' = open \ (Levels \cup {0}) /\ includes' = <<>>
      /\ UNCHANGED <<config, look, text, filenames>>
  BY DEF Abort, EndRead, readerVars
<1>2. CurrentFile \in KnownFiles
  BY CurrentFileIs
<1> QED
  BY <1>1, <1>2, Ended

LEMMA AcceptStep ==
  ASSUME ReaderInv, ParseAccept
  PROVE  ReaderInv'
<1>1. phase = "parse" /\ look.t = "END"
  BY DEF ParseAccept, Sees, Parsing
<1>2. Depth = 0
  BY <1>1 DEF ReaderInv, TextInv
<1>3. /\ phase' = "done" /\ error'.file = Null /\ error'.type = "NONE"
      /\ buffers' = buffers \ {buffer}
      /\ open' = open \ (Levels \cup {0}) /\ includes' = <<>>
      /\ UNCHANGED <<config, look, text, filenames>>
  BY DEF ParseAccept, EndRead, NoError, readerVars
<1>4. Null \in KnownFiles
  BY DEF KnownFiles
<1> QED
  BY <1>1, <1>2, <1>3, <1>4, Ended
LEMMA StartReadStep ==
  ASSUME ReaderInv, NEW file \in {Null, 1}, StartRead(file)
  PROVE  ReaderInv'
<1> USE DEF StartRead
<1>1. /\ TreeInv(EmptyHeap) /\ ArraysInv(EmptyHeap) /\ Live(EmptyHeap) = {Root}
      /\ EmptyHeap[Root].type = "GROUP" /\ EmptyHeap[Root].file = Null
  <2>1. EmptyHeap[Root] = NewSetting("GROUP", NoName, Null)
    BY Addresses DEF EmptyHeap
  <2>2. EmptyHeap[Root].file = Null
    BY <2>1 DEF NewSetting
  <2> QED
    BY <2>2, EmptyIs DEF TreeInv, FamilyInv
<1>2. frames' \in Seq(Aggregates) /\ Len(frames') = 1 /\ frames'[1] = "GROUP" /\ Frame' = "GROUP"
  BY DEF Frame, Aggregates
<1>3. Follows(config', parent', frames')
  <2> DEFINE up == <<Root>>
  <2>1. up \in Seq(Live(EmptyHeap)) /\ Len(up) = 1 /\ up[1] = Root
    BY <1>1
  <2> HIDE DEF up
  <2>2. WayUp(up, EmptyHeap, Root)
    BY <2>1 DEF WayUp
  <2>3. \A k \in 1 .. Len(frames') : EmptyHeap[up[k]].type = frames'[Len(frames') - k + 1]
    BY <1>1, <1>2, <2>1
  <2> QED
    BY <1>2, <2>1, <2>2, <2>3 DEF Follows
<1>4. ParserInv'
  BY <1>1, <1>2, <1>3 DEF ParserInv, Pending
<1>5. NoToken \in Words /\ NoToken.t # "END" /\ MAX_INCLUDE_DEPTH \in Nat
  BY NoWordEnds, ReaderAssumption DEF ReaderAssumption
<1>6. TextInv'
  BY <1>5 DEF ReaderInv, TextInv
<1>7. Depth' = 0 /\ Levels' = {}
  <2>1. Depth' = 0
    BY EmptySeq DEF Depth
  <2> QED
    BY <2>1 DEF Levels
<1>8. FilesInv'
  <2>1. filenames' \subseteq Nat /\ error'.file \in KnownFiles' /\ file \in KnownFiles'
        /\ Null \in KnownFiles'
    <3>1. KnownFiles' = ({file} \ {Null}) \cup {Null}
      BY DEF KnownFiles
    <3>2. error'.file = Null
      BY DEF NoError
    <3>3. {Null, 1} \subseteq Nat /\ filenames' = {file} \ {Null}
      BY DEF Null
    <3> QED
      BY <3>1, <3>2, <3>3
  <2>2. files' \in Seq(KnownFiles') /\ Len(files') = 1 /\ files'[1] = file
    BY <2>1
  <2>3. IncludesInv'
    BY <1>5, <1>7, <2>2 DEF IncludesInv, Buffers
  <2>4. \A n \in Live(config') : config'[n].file \in KnownFiles'
    BY <1>1, <2>1
  <2>5. includes' \in Seq(Buffers')
    BY EmptySeq
  <2> QED
    BY <2>1, <2>3, <2>4, <2>5 DEF FilesInv
<1> QED
  BY <1>1, <1>4, <1>6, <1>8 DEF ReaderInv

\* Before a read, only the configuration, the text and the error change.
LEMMA BetweenReads ==
  ASSUME ReaderInv, phase # "parse", phase' \in {"build", "ready"},
         TreeInv(config'), text' \in Seq(Words), error'.file = error.file,
         UNCHANGED <<look, includes, buffers, open, filenames>>
  PROVE  ReaderInv'
<1>1. TextInv'
  BY DEF ReaderInv, TextInv, Depth
<1>2. FilesInv'
  BY DEF ReaderInv, FilesInv, KnownFiles, Buffers
<1> QED
  BY <1>1, <1>2 DEF ReaderInv

LEMMA BuildStep ==
  ASSUME ReaderInv, Build
  PROVE  ReaderInv'
<1>0. TreeInv(config) /\ TextInv
  BY DEF ReaderInv
<1>1. PICK p \in Live(config), name \in Names, type \in Written :
         /\ CanAdd(config, p, name)
         /\ LET h == Add(config, p, name, type)  n == Address(config) IN
            IF type \in Scalars
            THEN \E v \in ValuesOf(type) : \E s \in SetResults(h[n], type, v) :
                 \E f \in IF CanSetFormat(s) THEN Formats ELSE {"DEFAULT"} :
                   config' = [h EXCEPT ![n] = [s EXCEPT !.fmt = f]]
            ELSE config' = h
  BY DEF Build
<1> DEFINE called == AddedName(config, p, name)
           h == SettingCreate(config, p, called, type)
           n == Address(config)
<1>2. HasRoom(config) /\ type \in Types /\ name # NoName /\ p \in Settings /\ config \in Heaps
  BY <1>0, SettingsAssumption, ReaderAssumption
     DEF SettingsAssumption, ReaderAssumption, Build, Live, TreeInv
<1>3. /\ MayBeNamed(config, p, called) /\ called \in Names \cup {NoName}
      /\ config[p].type \in Aggregates
  BY <1>0, <1>1, <1>2, MayAdd
<1> HIDE DEF called
<1>4. TreeInv(h)
  BY <1>0, <1>2, <1>3, CreateTree
<1>5. n \in Live(h) /\ h[n].type = type /\ n \in Settings
  <2>1. Live(h) = Live(config) \cup {n} /\ h[n] = NewSetting(type, called, p) /\ n \in Settings
    BY <1>2, <1>3, CreateIs
  <2> QED
    BY <1>2, <1>3, <2>1, NewSettingIs
<1>6. TreeInv(config')
  <2>1. CASE type \notin Scalars
    BY <1>1, <1>4, <2>1 DEF Add, called
  <2>2. CASE type \in Scalars
    <3>0. PICK v \in ValuesOf(type) : \E s \in SetResults(h[n], type, v) :
            \E f \in IF CanSetFormat(s) THEN Formats ELSE {"DEFAULT"} :
              config' = [h EXCEPT ![n] = [s EXCEPT !.fmt = f]]
      BY <1>1, <2>2 DEF Add, called
    <3>1. PICK s \in SetResults(h[n], type, v), f \in {"DEFAULT"} \cup Formats :
            config' = [h EXCEPT ![n] = [s EXCEPT !.fmt = f]]
      BY <3>0
    <3> HIDE DEF h, n
    <3>2. v \in Values /\ f \in Formats
      <4>1. ValuesOf(type) \subseteq Values
        BY <2>2, ValuesAreNumbers DEF Values
      <4> QED
        BY <4>1 DEF Formats
    <3>3. h \in Heaps /\ h[n] \in Setting
      BY <1>4, <1>5 DEF TreeInv, Heaps
    <3>4. /\ s \in Setting /\ s.type = type
          /\ s.parent = h[n].parent /\ s.name = h[n].name /\ s.kids = h[n].kids
          /\ s.room = h[n].room
      BY <1>5, <2>2, <3>2, <3>3, FirstValue
    <3>5. PICK r \in Setting :
            /\ r.type = h[n].type
            /\ r.parent = h[n].parent /\ r.name = h[n].name /\ r.kids = h[n].kids
            /\ r.room = h[n].room /\ [s EXCEPT !.fmt = f] = r
      BY <1>5, <3>2, <3>4 DEF Setting
    <3>6. config' \in Heaps /\ config'[n] = r /\ \A m \in Settings \ {n} : config'[m] = h[m]
      BY <1>5, <3>1, <3>3, <3>5 DEF Heaps
    <3>7. r.type = h[n].type /\ r.parent = h[n].parent /\ r.name = h[n].name
          /\ r.kids = h[n].kids /\ r.room = h[n].room
      BY <3>5
    <3> QED
      BY <1>4, <1>5, <3>6, <3>7, Filled
  <2> QED
    BY <2>1, <2>2
<1> QED
  BY <1>0, <1>6, BetweenReads DEF Build, readerVars, scannerVars, TextInv

LEMMA WriteFileStep ==
  ASSUME ReaderInv, WriteFile
  PROVE  ReaderInv'
<1>1. PICK def \in Formats : text' = WriteSettings(config, def)
  BY DEF WriteFile
<1>2. TreeInv(config) /\ text' \in Seq(Words)
  BY <1>1, WrittenIsWords DEF ReaderInv
<1>3. error'.file = error.file /\ phase = "build" /\ phase' = "ready"
      /\ UNCHANGED <<config, look, includes, buffers, open, filenames>>
  BY DEF WriteFile, readerVars
<1> QED
  BY <1>2, <1>3, BetweenReads
LEMMA OtherFileStep ==
  ASSUME ReaderInv, OtherFile
  PROVE  ReaderInv'
<1>1. TreeInv(config) /\ AnyText \in Seq(Words)
  BY WordsAre DEF ReaderInv
<1>2. text' = AnyText /\ phase # "parse" /\ phase' = "ready"
      /\ UNCHANGED <<config, error, look, includes, buffers, open, filenames>>
  BY DEF OtherFile, readerVars
<1> QED
  BY <1>1, <1>2, BetweenReads

LEMMA CannotOpenStep ==
  ASSUME ReaderInv, CannotOpen
  PROVE  ReaderInv'
<1>1. TreeInv(config) /\ text \in Seq(Words)
  BY DEF ReaderInv, TextInv
<1>2. error'.file = error.file /\ phase # "parse" /\ phase' = phase /\ phase \in {"build", "ready"}
      /\ UNCHANGED <<config, text, look, includes, buffers, open, filenames>>
  BY DEF CannotOpen, readerVars, scannerVars
<1> QED
  BY <1>1, <1>2, BetweenReads
LEMMA ParsedInv ==
  ASSUME ReaderInv, phase = "parse", UNCHANGED <<phase, error, scannerVars>>,
         look' \in {NoToken, look}, TreeInv(config'), ParserInv',
         \A n \in Live(config') : config'[n].file \in KnownFiles
  PROVE  ReaderInv'
<1>1. UNCHANGED <<text, files, includes, buffer, buffers, open, filenames, error, phase>>
  BY DEF scannerVars
<1>2. TextInv'
  BY <1>1, NoWordEnds DEF ReaderInv, TextInv, Depth
<1>3. FilesInv'
  BY <1>1 DEF ReaderInv, FilesInv, IncludesInv, KnownFiles, Depth, Levels, Buffers
<1> QED
  BY <1>1, <1>2, <1>3 DEF ReaderInv

LEMMA ParsingInv ==
  ASSUME ReaderInv, Parsing
  PROVE  /\ phase = "parse" /\ look # NoToken
         /\ TreeInv(config) /\ ParserInv /\ look \in Words \cup {Token("END")}
         /\ \A n \in Live(config) : config[n].file \in KnownFiles
         /\ frames \in Seq(Aggregates) /\ Len(frames) \in Nat /\ Len(frames) >= 1
         /\ Frame \in Aggregates /\ Frame = config[parent].type
         /\ parent \in Live(config) /\ parent \in Settings
         /\ Follows(config, parent, frames)
<1>1. phase = "parse" /\ look # NoToken /\ TreeInv(config) /\ ParserInv
      /\ look \in Words \cup {Token("END")}
      /\ \A n \in Live(config) : config[n].file \in KnownFiles
  BY DEF Parsing, ReaderInv, FilesInv, TextInv
<1>2. frames \in Seq(Aggregates) /\ Follows(config, parent, frames)
  BY <1>1 DEF ParserInv
<1>3. /\ Len(frames) \in Nat /\ Len(frames) >= 1 /\ Frame = config[parent].type
      /\ parent \in Live(config) /\ parent \in Settings
  BY <1>2, FollowsTop DEF Frame
<1>4. Frame \in Aggregates
  <2>1. Len(frames) \in 1 .. Len(frames)
    BY <1>3
  <2> QED
    BY <1>2, <2>1, ElementOfSeq DEF Frame
<1> QED
  BY <1>1, <1>2, <1>3, <1>4

LEMMA ParseEqualsStep ==
  ASSUME ReaderInv, ParseEquals
  PROVE  ReaderInv'
<1>1. /\ Parsing /\ state = "equals" /\ state' = "value" /\ look' = NoToken
      /\ UNCHANGED <<phase, error, scannerVars, config, parent, setting, string, frames>>
  BY DEF ParseEquals, Sees, Goes
<1>2. ParserInv'
  BY <1>1, ParsingInv DEF ParserInv, Pending, Frame
<1> QED
  BY <1>1, <1>2, ParsingInv, ParsedInv

LEMMA ParseSeparatorStep ==
  ASSUME ReaderInv, ParseSeparator
  PROVE  ReaderInv'
<1>1. /\ Parsing /\ state = "separator" /\ state' = "element" /\ look' = NoToken
      /\ UNCHANGED <<phase, error, scannerVars, config, parent, setting, string, frames>>
  BY DEF ParseSeparator, Sees, Goes
<1>2. ParserInv'
  BY <1>1, ParsingInv DEF ParserInv, Pending, Frame
<1> QED
  BY <1>1, <1>2, ParsingInv, ParsedInv

LEMMA ParseTerminatorStep ==
  ASSUME ReaderInv, ParseTerminator
  PROVE  ReaderInv'
<1>1. /\ Parsing /\ state = "terminator" /\ state' = "setting" /\ look' \in {NoToken, look}
      /\ UNCHANGED <<phase, error, scannerVars, config, parent, setting, string, frames>>
  BY DEF ParseTerminator, Goes
<1>2. look' # NoToken => RoomFor(look)'
  BY <1>1, ParsingInv DEF ParserInv, RoomFor, Adds, InVector
<1>3. ParserInv'
  BY <1>1, <1>2, ParsingInv DEF ParserInv, Pending, Frame
<1> QED
  BY <1>1, <1>3, ParsingInv, ParsedInv

LEMMA ParseStringStep ==
  ASSUME ReaderInv, ParseString
  PROVE  ReaderInv'
<1>1. /\ Parsing /\ look.t = "STRING" /\ (ExpectsScalar \/ state = "string")
      /\ string' = Joined(string, look.v)
      /\ state' = "string" /\ look' = NoToken
      /\ UNCHANGED <<phase, error, scannerVars, config, parent, setting, frames>>
  BY DEF ParseString, Sees, Goes
<1>2. string' \in Values
  <2>1. look.v \in Values /\ StringMax \in Nat
    BY <1>1, ParsingInv, SettingsAssumption, NoWordEnds DEF Words, SettingsAssumption
  <2>2. string \in Values \cup {NoString}
    BY <1>1, ParsingInv DEF ParserInv
  <2> QED
    BY <1>1, <2>1, <2>2 DEF Joined, Values
<1>3. state # "separator"
  BY <1>1 DEF ExpectsScalar, ExpectsValue
<1>4. InVector => HasRoom(config)
  BY <1>1, <1>3, ParsingInv DEF ParserInv, RoomFor, Adds, ScalarTokens
<1>5. Pending' => Pending
  BY <1>1, ParsingInv DEF Pending, ExpectsScalar, ExpectsValue, Frame, ParserInv
<1>6. ParserInv'
  BY <1>1, <1>2, <1>4, <1>5, ParsingInv DEF ParserInv, InVector
<1> QED
  BY <1>1, <1>6, ParsingInv, ParsedInv

LEMMA ParseEndStep ==
  ASSUME ReaderInv, NEW type \in Aggregates, ParseEnd(type)
  PROVE  ReaderInv'
<1>1. /\ Parsing /\ Len(frames) > 1 /\ parent' = config[parent].parent /\ look' = NoToken
      /\ state' = After(frames[Len(frames) - 1])
      /\ frames' = SubSeq(frames, 1, Len(frames) - 1)
      /\ UNCHANGED <<phase, error, scannerVars, config, setting, string>>
  BY DEF ParseEnd, Sees, Goes, Outer
<1>2. /\ Follows(config', parent', frames') /\ frames' \in Seq(Aggregates)
      /\ Frame' = frames[Len(frames) - 1]
  BY <1>1, ParsingInv, FollowsOut DEF Frame
<1>3. Frame' \in Aggregates
  BY <1>1, ParsingInv, ElementOfSeq, <1>2
<1>4. state' = IF Frame' = "GROUP" THEN "terminator" ELSE "separator"
  BY <1>1, <1>2 DEF After
<1>5. ParserInv'
  BY <1>1, <1>2, <1>3, <1>4, ParsingInv DEF ParserInv, Pending, Aggregates
<1> QED
  BY <1>1, <1>5, ParsingInv, ParsedInv
\* A setting that was just created.
LEMMA CreatedIs ==
  ASSUME NEW h, TreeInv(h), NEW p \in Live(h), HasRoom(h),
         NEW name, name \in Names \cup {NoName}, NEW type \in Types,
         NEW n, n = Address(h), NEW f, f = SettingCreate(h, p, name, type)
  PROVE  /\ f \in Heaps /\ n \in Settings /\ f[n] \in Setting
         /\ f[n].type = type /\ f[n].name = name /\ f[n].parent = p
         /\ f[n].kids = <<>> /\ f[n].room = 0
<1>1. h \in Heaps /\ p \in Settings
  BY DEF TreeInv, Live
<1>2. /\ SettingCreate(h, p, name, type) \in Heaps /\ Address(h) \in Settings
      /\ SettingCreate(h, p, name, type)[Address(h)] = NewSetting(type, name, p)
  BY <1>1, CreateIs
<1> QED
  BY <1>1, <1>2, NewSettingIs

LEMMA ParseNameStep ==
  ASSUME ReaderInv, ParseName
  PROVE  ReaderInv'
<1>0. /\ Parsing /\ state = "setting" /\ look.t = "NAME"
  BY DEF ParseName, Sees
<1>1. CASE ~CanAdd(config, parent, look.name)
  BY <1>0, <1>1, ParsingInv, AbortStep DEF ParseName
<1>2. CASE CanAdd(config, parent, look.name)
  <2> DEFINE n == Address(config)
             name == AddedName(config, parent, look.name)
             h == SettingCreate(config, parent, name, "NONE")
  <2>1. /\ config' = Captured(h, n) /\ setting' = n
        /\ state' = "equals" /\ look' = NoToken
        /\ UNCHANGED <<phase, error, scannerVars, frames, parent, string>>
    BY <1>2 DEF ParseName, Goes, Add
  <2>2. /\ look.name # NoName /\ config[parent].type = "GROUP" /\ Frame = "GROUP"
        /\ HasRoom(config)
    <3>1. look.name \in Names
      BY <1>0, ParsingInv, NoWordEnds DEF Words
    <3>2. Frame = "GROUP" /\ config[parent].type = "GROUP"
      BY <1>0, ParsingInv DEF ParserInv
    <3>3. RoomFor(look)
      BY <1>0, ParsingInv DEF ParserInv
    <3> QED
      BY <1>0, <3>1, <3>2, <3>3, SettingsAssumption DEF SettingsAssumption, RoomFor, Adds, InVector
  <2>3. /\ MayBeNamed(config, parent, name) /\ name \in Names \cup {NoName}
        /\ config[parent].type \in Aggregates
    BY <1>0, <1>2, <2>2, ParsingInv, MayAdd
  <2>4. "NONE" \in Types /\ config \in Heaps /\ CurrentFile \in KnownFiles /\ CurrentFile \in Nat
    BY <1>0, ParsingInv, CurrentFileIs DEF Types, TreeInv
  <2> HIDE DEF name
  <2>5. TreeInv(config) /\ parent \in Live(config)
    BY <1>0, ParsingInv
  <2>a. n = Address(config) /\ h = SettingCreate(config, parent, name, "NONE")
    OBVIOUS
  <2> HIDE DEF h, n
  <2>6. /\ h \in Heaps /\ n \in Settings
        /\ h[n] \in Setting /\ h[n].type = "NONE" /\ h[n].name = name /\ h[n].parent = parent
        /\ h[n].kids = <<>> /\ h[n].room = 0
    BY <2>2, <2>3, <2>4, <2>5, <2>a, CreatedIs
  <2>7. PICK s \in Setting :
          /\ s.type = "NONE" /\ s.name = name /\ s.parent = parent /\ s.kids = <<>> /\ s.room = 0
          /\ s.file = CurrentFile /\ [h[n] EXCEPT !.file = CurrentFile] = s
    BY <2>4, <2>6 DEF Setting
  <2>8. config' \in Heaps /\ config'[n] = s /\ \A m \in Settings \ {n} : config'[m] = h[m]
    BY <2>1, <2>6, <2>7 DEF Captured, Heaps
  <2>9. /\ TreeInv(config') /\ Keeps(config, config') /\ Live(config') = Live(config) \cup {n}
        /\ n \in Kids(config', parent) /\ config'[parent].kids[Len(config'[parent].kids)] = n
        /\ config'[n].type = "NONE"
        /\ ArraysInv(config) => ArraysInv(config')
        /\ \A m \in Live(config') : config'[m].file \in KnownFiles
    <3>1. \A m \in Live(config) : config[m].file \in KnownFiles
      BY <1>0, ParsingInv
    <3>2. config[parent].type # "ARRAY"
      BY <2>2
    <3>3. /\ s.type = "NONE" /\ s.name = name /\ s.parent = parent /\ s.kids = <<>> /\ s.room = 0
          /\ s.file \in KnownFiles
      BY <2>4, <2>7
    <3>4. Adding(config, parent, n, h, name, "NONE", KnownFiles, s, config')
      BY <2>2, <2>3, <2>4, <2>5, <2>8, <2>a, <3>1, <3>2, <3>3 DEF Adding
    <3> QED
      BY <3>4, AddedIs
  <2>10. Follows(config', parent', frames')
    BY <1>0, <2>1, <2>9, ParsingInv, KeepsWay
  <2>11. ParserInv'
    BY <1>0, <2>1, <2>2, <2>9, <2>10, ParsingInv DEF ParserInv, Pending, Frame
  <2> QED
    BY <1>0, <2>1, <2>9, <2>11, ParsingInv, ParsedInv
<1> QED
  BY <1>1, <1>2

\* An element of the array or list the parser is in.
LEMMA ElementIs ==
  ASSUME ReaderInv, Parsing, InVector, HasRoom(config),
         NEW kind \in Scalars, NEW v \in Values, NEW fmt \in Formats,
         CanSetElem(config, parent, 0, kind, FALSE), config' \in AsElement(kind, v, fmt)
  PROVE  /\ TreeInv(config') /\ Keeps(config, config') /\ ArraysInv(config')
         /\ \A m \in Live(config') : config'[m].file \in KnownFiles
<1> DEFINE n == Address(config)
           h == SettingCreate(config, parent, NoName, kind)
<1>1. /\ TreeInv(config) /\ config \in Heaps /\ parent \in Live(config) /\ parent \in Settings
      /\ ArraysInv(config) /\ config[parent].type \in {"ARRAY", "LIST"}
      /\ kind \in Types /\ CurrentFile \in KnownFiles /\ CurrentFile \in Nat
  BY ParsingInv, CurrentFileIs DEF ParserInv, InVector, TreeInv, Types
<1>2. MayBeNamed(config, parent, NoName) /\ config[parent].type \in Aggregates
  BY <1>1 DEF MayBeNamed, Aggregates
<1>3. config[parent].type = "ARRAY" => kind \in Scalars /\ \A m \in Kids(config, parent) : config[m].type = kind
  <2> SUFFICES ASSUME config[parent].type = "ARRAY", NEW m \in Kids(config, parent)
               PROVE  config[m].type = kind
    OBVIOUS
  <2>1. config[parent].kids # <<>> => config[config[parent].kids[1]].type = kind
    BY DEF CanSetElem, VectorAccepts
  <2>2. Len(config[parent].kids) \in Nat /\ Len(config[parent].kids) >= 1
    BY <1>1, KidsOf
  <2>3. config[parent].kids # <<>> /\ config[parent].kids[1] \in Kids(config, parent)
    BY <1>1, <2>2, KidsOf, EmptySeq
  <2> QED
    BY <1>1, <2>1, <2>3 DEF ArraysInv
<1>4. n = Address(config) /\ h = SettingCreate(config, parent, NoName, kind)
  OBVIOUS
<1> HIDE DEF n, h
<1>5. HasRoom(config) /\ TreeInv(config) /\ parent \in Live(config) /\ kind \in Types
      /\ NoName \in Names \cup {NoName}
  BY <1>1
<1>6. h \in Heaps /\ n \in Settings /\ h[n] \in Setting
  BY <1>4, <1>5, CreatedIs
<1>7. /\ h[n].type = kind /\ h[n].name = NoName /\ h[n].parent = parent
      /\ h[n].kids = <<>> /\ h[n].room = 0
  BY <1>4, <1>5, CreatedIs
<1>8. PICK g \in SetElemResults(config, parent, 0, kind, v) :
        config' = Captured([g EXCEPT ![n].fmt = fmt], n)
  BY <1>4 DEF AsElement
<1>9. PICK s \in SetResults(h[n], kind, v) : g = [h EXCEPT ![n] = s]
  BY <1>8, <1>4 DEF SetElemResults
<1>10. /\ s \in Setting /\ s.type = kind /\ s.name = NoName /\ s.parent = parent
      /\ s.kids = <<>> /\ s.room = 0
  BY <1>9, <1>6, <1>7, FirstValue
<1>11. PICK t \in Setting :
        /\ t.type = kind /\ t.name = NoName /\ t.parent = parent
        /\ t.kids = <<>> /\ t.room = 0 /\ t.file = CurrentFile
        /\ [s EXCEPT !.fmt = fmt, !.file = CurrentFile] = t
  BY <1>1, <1>10 DEF Setting
<1>12. config' = [h EXCEPT ![n] = [s EXCEPT !.fmt = fmt, !.file = CurrentFile]]
  BY <1>8, <1>9, <1>6 DEF Captured, Heaps
<1>13. config' \in Heaps /\ config'[n] = t /\ \A m \in Settings \ {n} : config'[m] = h[m]
  BY <1>6, <1>11, <1>12 DEF Heaps
<1>14. \A m \in Live(config) : config[m].file \in KnownFiles
  BY ParsingInv
<1>15. t.type = kind /\ t.name = NoName /\ t.parent = parent
       /\ t.kids = <<>> /\ t.room = 0 /\ t.file \in KnownFiles
  BY <1>1, <1>11
<1>16. Adding(config, parent, n, h, NoName, kind, KnownFiles, t, config')
  BY <1>1, <1>2, <1>3, <1>13, <1>14, <1>15, <1>4 DEF Adding
<1> QED
  BY <1>1, <1>16, AddedIs

\* The value of the setting that was named.
LEMMA ValueIs ==
  ASSUME ReaderInv, Parsing, Pending,
         NEW kind \in Scalars, NEW v \in Values, NEW fmt \in Formats,
         config' \in AsValue(kind, v, fmt)
  PROVE  /\ TreeInv(config') /\ Keeps(config, config') /\ ArraysInv(config')
         /\ Live(config') = Live(config)
         /\ \A m \in Live(config') : config'[m].file \in KnownFiles
<1>1. PICK s \in SetResults(config[setting], kind, v) :
        config' = [config EXCEPT ![setting] = [s EXCEPT !.fmt = fmt]]
  BY DEF AsValue
<1>2. /\ TreeInv(config) /\ config \in Heaps /\ parent \in Settings /\ ArraysInv(config)
      /\ setting \in Kids(config, parent) /\ config[setting].type = "NONE"
  BY ParsingInv DEF ParserInv, TreeInv
<1>3. setting \in Live(config) /\ setting \in Settings /\ config[setting] \in Setting
  BY <1>2 DEF TreeInv, FamilyInv, Live, Heaps
<1>4. /\ s \in Setting /\ s.type = kind /\ s.file = config[setting].file
      /\ s.parent = config[setting].parent /\ s.name = config[setting].name
      /\ s.kids = config[setting].kids /\ s.room = config[setting].room
  BY <1>2, <1>3, FirstValue
<1>5. PICK t \in Setting :
        /\ t.type = kind /\ t.file = config[setting].file
        /\ t.parent = config[setting].parent /\ t.name = config[setting].name
        /\ t.kids = config[setting].kids /\ t.room = config[setting].room
        /\ [s EXCEPT !.fmt = fmt] = t
  BY <1>4 DEF Setting
<1>6. config' \in Heaps /\ config'[setting] = t /\ \A m \in Settings \ {setting} : config'[m] = config[m]
  BY <1>1, <1>2, <1>3, <1>5 DEF Heaps
<1>7. /\ t.parent = config[setting].parent /\ t.name = config[setting].name
      /\ t.kids = config[setting].kids /\ t.room = config[setting].room
      /\ config[setting].type = "NONE" /\ t.type \in Types /\ t.file = config[setting].file
  BY <1>2, <1>5 DEF Types
<1>8. /\ TreeInv(config') /\ Keeps(config, config') /\ ArraysInv(config')
      /\ Live(config') = Live(config)
  BY <1>2, <1>3, <1>6, <1>7, Filled
<1>9. \A m \in Live(config') : config'[m].file \in KnownFiles
  <2> TAKE m \in Live(config')
  <2>1. m \in Live(config) /\ m \in Settings /\ config[m].file \in KnownFiles
    BY <1>8, ParsingInv DEF Live
  <2> QED
    BY <1>6, <1>7, <2>1
<1> QED
  BY <1>8, <1>9
\* A scalar, or the end of a string.
LEMMA TakeScalarStep ==
  ASSUME ReaderInv, Parsing, NEW kind \in Scalars, NEW v \in Values, NEW fmt \in Formats,
         NEW following, following \in {NoToken, look}, TakeScalar(kind, v, fmt, following),
         state # "separator", InVector => HasRoom(config), ~InVector => Pending
  PROVE  ReaderInv'
<1>1. CASE InVector /\ ~CanSetElem(config, parent, 0, kind, FALSE)
  <2>1. Abort("mismatched element type in array")
    BY <1>1 DEF TakeScalar
  <2> QED
    BY <2>1, ParsingInv, AbortStep
<1>2. CASE ~(InVector /\ ~CanSetElem(config, parent, 0, kind, FALSE))
  <2>1. /\ config' \in IF InVector THEN AsElement(kind, v, fmt) ELSE AsValue(kind, v, fmt)
        /\ state' = After(Frame) /\ frames' = frames /\ look' = following
        /\ string' = NoString /\ parent' = parent
        /\ UNCHANGED <<phase, error, scannerVars>>
    BY <1>2 DEF TakeScalar, Goes
  <2>2. /\ phase = "parse" /\ TreeInv(config) /\ ParserInv /\ parent \in Live(config)
        /\ Follows(config, parent, frames) /\ frames \in Seq(Aggregates)
        /\ Frame \in Aggregates /\ Frame = config[parent].type
    BY ParsingInv
  <2>3. /\ TreeInv(config') /\ Keeps(config, config') /\ ArraysInv(config')
        /\ ~InVector => Live(config') = Live(config)
        /\ \A m \in Live(config') : config'[m].file \in KnownFiles
    <3>1. CASE InVector
      <4>1. HasRoom(config) /\ CanSetElem(config, parent, 0, kind, FALSE)
            /\ config' \in AsElement(kind, v, fmt)
        BY <1>2, <2>1, <3>1
      <4> QED
        BY <3>1, <4>1, ElementIs
    <3>2. CASE ~InVector
      <4>1. Pending /\ config' \in AsValue(kind, v, fmt)
        BY <2>1, <3>2
      <4> QED
        BY <4>1, ValueIs
    <3> QED
      BY <3>1, <3>2
  <2>4. Follows(config', parent', frames')
    BY <2>1, <2>2, <2>3, KeepsWay
  <2>5. /\ Frame' = Frame
        /\ Frame = "GROUP" => state' = "terminator"
        /\ Frame # "GROUP" => state' = "separator"
    BY <2>1 DEF Frame, After
  <2>6. ASSUME state' # "separator", look' # NoToken PROVE RoomFor(look)'
    <3>1. Frame = "GROUP" /\ look' = look /\ look # NoToken
      BY <2>1, <2>5, <2>6
    <3>2. RoomFor(look)
      BY <2>2, <3>1 DEF ParserInv
    <3>3. config'[parent].type = "GROUP" /\ config[parent].type = "GROUP"
      BY <2>2, <2>3, <3>1 DEF Keeps
    <3>4. Live(config') = Live(config)
      BY <2>3, <3>3 DEF InVector
    <3> QED
      BY <2>1, <3>1, <3>2, <3>3, <3>4 DEF RoomFor, Adds, InVector, HasRoom
  <2>7. ~Pending'
    BY <2>5 DEF Pending
  <2>8. ParserInv'
    <3>1. state' \in {"terminator", "separator"}
      BY <2>5
    <3>2. Frame' \in Aggregates /\ frames' \in Seq(Aggregates)
      BY <2>1, <2>2, <2>5
    <3>3. /\ state' = "terminator" => Frame' = "GROUP"
          /\ state' = "separator" => Frame' \in {"ARRAY", "LIST"}
      BY <2>5, <3>2 DEF Aggregates
    <3> QED
      BY <2>1, <2>3, <2>4, <2>6, <2>7, <3>1, <3>2, <3>3 DEF ParserInv
  <2> QED
    BY <2>1, <2>2, <2>3, <2>8, ParsedInv
<1> QED
  BY <1>1, <1>2

\* What the scanner hands over with a scalar is a value of its kind.
LEMMA ScalarsAre ==
  ASSUME NEW w \in Words, w.t \in ScalarTokens
  PROVE  /\ KindOf(w.t) \in Scalars /\ w.v \in Values /\ FormatOf(w.t) \in Formats
<1>1. w.v \in Values
  BY DEF Words
<1>2. KindOf(w.t) \in Scalars
  BY DEF KindOf, ScalarTokens, Scalars, Numbers
<1>3. FormatOf(w.t) \in Formats
  BY DEF FormatOf, Formats
<1> QED
  BY <1>1, <1>2, <1>3

LEMMA ParseScalarStep ==
  ASSUME ReaderInv, ParseScalar
  PROVE  ReaderInv'
<1>1. /\ Parsing /\ ExpectsScalar /\ look.t \in ScalarTokens
      /\ TakeScalar(KindOf(look.t), look.v, FormatOf(look.t), NoToken)
  BY DEF ParseScalar
<1>2. look \in Words
  BY <1>1, ParsingInv, NoWordEnds DEF ScalarTokens
<1>3. KindOf(look.t) \in Scalars /\ look.v \in Values /\ FormatOf(look.t) \in Formats
  BY <1>1, <1>2, ScalarsAre
<1>4. state \in {"value", "first", "element"} /\ look # NoToken
  BY <1>1, ParsingInv DEF ExpectsScalar, ExpectsValue
<1>5. /\ RoomFor(look) /\ Frame = config[parent].type /\ Frame \in Aggregates
      /\ state = "value" => Frame = "GROUP"
      /\ state # "value" => Frame \in {"ARRAY", "LIST"}
  BY <1>1, <1>4, ParsingInv DEF ParserInv
<1>6. InVector => HasRoom(config)
  BY <1>1, <1>5 DEF RoomFor, Adds
<1>7. ~InVector => Pending
  BY <1>4, <1>5 DEF InVector, Pending
<1>8. NoToken \in {NoToken, look} /\ state # "separator"
  BY <1>4
<1> QED
  BY <1>1, <1>3, <1>6, <1>7, <1>8, TakeScalarStep

LEMMA EndStringStep ==
  ASSUME ReaderInv, EndString
  PROVE  ReaderInv'
<1>1. Parsing /\ state = "string" /\ TakeScalar("STRING", string, "DEFAULT", look)
  BY DEF EndString
<1>2. string \in Values /\ (InVector => HasRoom(config))
      /\ Frame = config[parent].type /\ Frame \in Aggregates
  BY <1>1, ParsingInv DEF ParserInv
<1>3. "STRING" \in Scalars /\ "DEFAULT" \in Formats /\ look \in {NoToken, look}
  BY DEF Scalars, Formats
<1>4. ~InVector => Pending
  BY <1>1, <1>2 DEF InVector, Pending, Aggregates
<1>5. state # "separator"
  BY <1>1
<1> QED
  BY <1>1, <1>2, <1>3, <1>4, <1>5, TakeScalarStep
\* The start of an aggregate: the parser goes into it, and so does the context.
LEMMA Entered ==
  ASSUME ReaderInv, Parsing, NEW type \in Aggregates,
         state' = (IF type = "GROUP" THEN "setting" ELSE "first"),
         frames' = Append(frames, type), look' = NoToken, string' = string,
         UNCHANGED <<phase, error, scannerVars>>,
         TreeInv(config'), Keeps(config, config'), ArraysInv(config'),
         \A m \in Live(config') : config'[m].file \in KnownFiles,
         parent' \in Live(config'), parent' # Root,
         config'[parent'].parent = parent, config'[parent'].type = type
  PROVE  ReaderInv'
<1>1. /\ phase = "parse" /\ frames \in Seq(Aggregates) /\ Follows(config, parent, frames)
      /\ Len(frames) \in Nat /\ ParserInv
  BY ParsingInv
<1>2. Follows(config', parent, frames)
  BY <1>1, KeepsWay
<1>3. Follows(config', parent', Append(frames, type))
  BY <1>1, <1>2, FollowsInto
<1>4. /\ frames' \in Seq(Aggregates) /\ Len(frames') = Len(frames) + 1
      /\ frames'[Len(frames')] = type
  BY <1>1
<1>5. /\ Frame' = type /\ state' \in {"setting", "first"}
      /\ state' = "setting" <=> type = "GROUP"
  BY <1>4 DEF Frame
<1>6. ~Pending'
  BY <1>5 DEF Pending
<1>7. string' \in Values \cup {NoString}
  BY <1>1 DEF ParserInv
<1>8. Follows(config', parent', frames')
  BY <1>3
<1>9. /\ state' = "setting" => Frame' = "GROUP"
      /\ state' = "first" => Frame' \in {"ARRAY", "LIST"}
  BY <1>5 DEF Aggregates
<1>10. ParserInv'
  BY <1>4, <1>5, <1>6, <1>7, <1>8, <1>9 DEF ParserInv
<1> QED
  BY <1>1, <1>10, ParsedInv

LEMMA ParseStartStep ==
  ASSUME ReaderInv, NEW type \in Aggregates, ParseStart(type)
  PROVE  ReaderInv'
<1>1. Parsing /\ ExpectsValue /\ look.t = StartToken(type)
  BY DEF ParseStart, Sees
<1>2. /\ TreeInv(config) /\ config \in Heaps /\ ParserInv
      /\ parent \in Live(config) /\ parent \in Settings
      /\ Frame = config[parent].type /\ Frame \in Aggregates
      /\ \A m \in Live(config) : config[m].file \in KnownFiles
  BY <1>1, ParsingInv DEF TreeInv
<1>3. CurrentFile \in KnownFiles /\ CurrentFile \in Nat /\ type \in Types
  BY <1>1, CurrentFileIs, ParsingInv DEF Types
<1>4. CASE StackIsFull
  BY <1>1, <1>4, ParsingInv, AbortStep DEF ParseStart
<1>5. CASE ~StackIsFull
  <2>1. /\ OpenAggregate(type) /\ string' = string /\ look' = NoToken
        /\ state' = (IF type = "GROUP" THEN "setting" ELSE "first")
        /\ frames' = Append(frames, type)
        /\ UNCHANGED <<phase, error, scannerVars>>
    BY <1>5 DEF ParseStart, Goes
  <2>2. CASE config[parent].type = "LIST"
    <3> DEFINE n == Address(config)
               h == SettingCreate(config, parent, NoName, type)
    <3>1. config' = Captured(h, n) /\ parent' = n
      BY <2>1, <2>2 DEF OpenAggregate, Add, AddedName
    <3>2. n = Address(config) /\ h = SettingCreate(config, parent, NoName, type)
      OBVIOUS
    <3> HIDE DEF n, h
    <3>3. HasRoom(config)
      <4>1. RoomFor(look) /\ look.t \in {"LIST_START", "ARRAY_START", "GROUP_START"}
        BY <1>1, <1>2, ParsingInv DEF ParserInv, ExpectsValue, StartToken
      <4> QED
        BY <2>2, <4>1 DEF RoomFor, Adds, InVector
    <3>4. MayBeNamed(config, parent, NoName) /\ NoName \in Names \cup {NoName}
      BY <2>2 DEF MayBeNamed
    <3>5. /\ h \in Heaps /\ n \in Settings /\ h[n] \in Setting /\ h[n].type = type
          /\ h[n].name = NoName /\ h[n].parent = parent /\ h[n].kids = <<>> /\ h[n].room = 0
      BY <1>2, <1>3, <3>2, <3>3, <3>4, CreatedIs
    <3>6. PICK s \in Setting :
            /\ s.type = type /\ s.name = NoName /\ s.parent = parent /\ s.kids = <<>>
            /\ s.room = 0 /\ s.file = CurrentFile /\ [h[n] EXCEPT !.file = CurrentFile] = s
      BY <1>3, <3>5 DEF Setting
    <3>7. config' \in Heaps /\ config'[n] = s /\ \A m \in Settings \ {n} : config'[m] = h[m]
      BY <3>1, <3>5, <3>6 DEF Captured, Heaps
    <3>8. Adding(config, parent, n, h, NoName, type, KnownFiles, s, config')
      <4>1. config[parent].type # "ARRAY" /\ config[parent].type \in Aggregates
        BY <1>2, <2>2
      <4>2. /\ s.type = type /\ s.name = NoName /\ s.parent = parent /\ s.kids = <<>>
            /\ s.room = 0 /\ s.file \in KnownFiles
        BY <1>3, <3>6
      <4> QED
        BY <1>2, <1>3, <3>2, <3>3, <3>4, <3>7, <4>1, <4>2 DEF Adding
    <3>9. /\ TreeInv(config') /\ Keeps(config, config') /\ n \in Live(config') /\ n # Root
          /\ config'[n].type = type /\ config'[n].parent = parent
          /\ ArraysInv(config) => ArraysInv(config')
          /\ \A m \in Live(config') : config'[m].file \in KnownFiles
      BY <3>8, AddedIs
    <3>10. ArraysInv(config')
      BY <1>2, <3>9 DEF ParserInv
    <3> QED
      BY <1>1, <2>1, <3>1, <3>9, <3>10, Entered
  <2>3. CASE config[parent].type # "LIST"
    <3>1. config' = [config EXCEPT ![setting].type = type] /\ parent' = setting
      BY <2>1, <2>3 DEF OpenAggregate
    <3>2. state = "value"
      BY <1>1, <1>2, <2>3 DEF ExpectsValue
    <3>3. setting \in Kids(config, parent) /\ config[setting].type = "NONE"
      BY <1>2, <3>2 DEF ParserInv, Pending
    <3>4. setting \in Live(config) /\ config[setting].parent = parent
      BY <1>2, <3>3 DEF TreeInv, FamilyInv
    <3>5. setting \in Settings /\ config[setting] \in Setting /\ setting # Root
      BY <1>2, <3>3, <3>4 DEF TreeInv, FamilyInv, Live, Heaps
    <3>6. PICK s \in Setting :
            /\ s.type = type /\ s.parent = config[setting].parent
            /\ s.name = config[setting].name /\ s.kids = config[setting].kids
            /\ s.room = config[setting].room /\ s.file = config[setting].file
            /\ [config[setting] EXCEPT !.type = type] = s
      BY <1>3, <3>5 DEF Setting
    <3>7. /\ config' \in Heaps /\ config'[setting] = s
          /\ \A m \in Settings \ {setting} : config'[m] = config[m]
      BY <1>2, <3>1, <3>5, <3>6 DEF Heaps
    <3>8. /\ s.type = type /\ s.parent = config[setting].parent
          /\ s.name = config[setting].name /\ s.kids = config[setting].kids
          /\ s.room = config[setting].room /\ s.file = config[setting].file
          /\ config[setting].type = "NONE" /\ s.type \in Types
      BY <1>3, <3>3, <3>6
    <3>9. /\ TreeInv(config') /\ Keeps(config, config') /\ Live(config') = Live(config)
          /\ ArraysInv(config) => ArraysInv(config')
      BY <1>2, <3>4, <3>7, <3>8, Filled
    <3>10. \A m \in Live(config') : config'[m].file \in KnownFiles
      <4> TAKE m \in Live(config')
      <4>1. m \in Live(config) /\ m \in Settings /\ config[m].file \in KnownFiles
        BY <1>2, <3>9 DEF Live
      <4> QED
        BY <3>7, <3>8, <4>1
    <3>11. ArraysInv(config')
      BY <1>2, <3>9 DEF ParserInv
    <3>12. /\ parent' \in Live(config') /\ parent' # Root
           /\ config'[parent'].parent = parent /\ config'[parent'].type = type
      BY <3>1, <3>4, <3>5, <3>7, <3>8, <3>9
    <3> QED
      BY <1>1, <2>1, <3>9, <3>10, <3>11, <3>12, Entered
  <2> QED
    BY <2>2, <2>3
<1> QED
  BY <1>4, <1>5

LEMMA ParseErrorStep ==
  ASSUME ReaderInv, ParseError
  PROVE  ReaderInv'
<1>1. Parsing /\ Abort("syntax error")
  BY DEF ParseError
<1> QED
  BY <1>1, ParsingInv, AbortStep

LEMMA ReaderNextInv ==
  ReaderInv /\ [ReaderNext]_allVars => ReaderInv'
<1> SUFFICES ASSUME ReaderInv, [ReaderNext]_allVars PROVE ReaderInv'
  OBVIOUS
<1>1. CASE Build
  BY <1>1, BuildStep
<1>2. CASE WriteFile
  BY <1>2, WriteFileStep
<1>3. CASE OtherFile
  BY <1>3, OtherFileStep
<1>4. CASE CannotOpen
  BY <1>4, CannotOpenStep
<1>5. ASSUME NEW file \in {Null, 1}, StartRead(file) PROVE ReaderInv'
  BY <1>5, StartReadStep
<1>6. CASE ScanWritten
  BY <1>6, ScanWrittenStep
<1>7. CASE ScanAny
  BY <1>7, ScanAnyStep
<1>8. CASE ScanEnd
  BY <1>8, ScanEndStep
<1>9. ASSUME NEW f \in {2, Missing}, ScanInclude(f) PROVE ReaderInv'
  BY <1>9, ScanIncludeStep
<1>10. CASE ParseName
  BY <1>10, ParseNameStep
<1>11. CASE ParseEquals
  BY <1>11, ParseEqualsStep
<1>12. CASE ParseScalar
  BY <1>12, ParseScalarStep
<1>13. CASE ParseString
  BY <1>13, ParseStringStep
<1>14. CASE EndString
  BY <1>14, EndStringStep
<1>15. ASSUME NEW type \in Aggregates, ParseStart(type) PROVE ReaderInv'
  BY <1>15, ParseStartStep
<1>16. ASSUME NEW type \in Aggregates, ParseEnd(type) PROVE ReaderInv'
  BY <1>16, ParseEndStep
<1>17. CASE ParseTerminator
  BY <1>17, ParseTerminatorStep
<1>18. CASE ParseSeparator
  BY <1>18, ParseSeparatorStep
<1>19. CASE ParseAccept
  BY <1>19, AcceptStep
<1>20. CASE ParseError
  BY <1>20, ParseErrorStep
<1>21. CASE UNCHANGED allVars
  <2>1. UNCHANGED <<config, phase, error, state, frames, look, parent, setting, string, text,
                    files, includes, buffer, buffers, open, filenames>>
    BY <1>21 DEF allVars, readerVars, scannerVars
  <2>2. TextInv'
    BY <2>1 DEF ReaderInv, TextInv, Depth
  <2>3. KnownFiles' = KnownFiles /\ Depth' = Depth /\ Levels' = Levels
    BY <2>1 DEF KnownFiles, Depth, Levels
  <2>4. IncludesInv => IncludesInv'
    BY <2>1, <2>3 DEF IncludesInv
  <2>5. FilesInv'
    BY <2>1, <2>3, <2>4 DEF ReaderInv, FilesInv
  <2>6. /\ Frame' = Frame /\ Pending' = Pending /\ InVector' = InVector
        /\ RoomFor(look)' = RoomFor(look)
    BY <2>1 DEF Frame, Pending, InVector, RoomFor, Adds
  <2>7. ParserInv => ParserInv'
    BY <2>1, <2>6 DEF ParserInv
  <2> QED
    BY <2>1, <2>2, <2>5, <2>7 DEF ReaderInv
<1> QED
  BY <1>1, <1>2, <1>3, <1>4, <1>5, <1>6, <1>7, <1>8, <1>9, <1>10, <1>11, <1>12, <1>13, <1>14,
     <1>15, <1>16, <1>17, <1>18, <1>19, <1>20, <1>21 DEF ReaderNext
-----------------------------------------------------------------------------
(***************************************************************************)
(* Theorems about reading.                                                 *)
(***************************************************************************)

\* However many settings, tokens and files there are, and however a text goes wrong, the words
\* of the text, the stack of included files, the tree and the parser's place in it stay sound.
THEOREM ReaderSound == ReaderSpec => []ReaderInv
<1>1. ReaderInit => ReaderInv
  BY ReaderInitInv
<1>2. ReaderInv /\ [ReaderNext]_allVars => ReaderInv'
  BY ReaderNextInv
<1> QED
  BY <1>1, <1>2, PTL DEF ReaderSpec

LEMMA ArraysAreThen ==
  ASSUME NEW h, h \in Heaps, ArraysInv(h)
  PROVE  ArraysAreHomogeneous(h)
<1> SUFFICES ASSUME NEW p \in Live(h), h[p].type = "ARRAY",
                    NEW i \in DOMAIN h[p].kids, NEW j \in DOMAIN h[p].kids
             PROVE  /\ h[h[p].kids[i]].type \in Scalars
                    /\ h[h[p].kids[i]].type = h[h[p].kids[j]].type
  BY DEF ArraysAreHomogeneous
<1>1. h[p].kids[i] \in Kids(h, p) /\ h[p].kids[j] \in Kids(h, p)
  BY DEF Kids
<1> QED
  BY <1>1 DEF ArraysInv

\* At every step of the parser, ctx->parent is the innermost aggregate that is open, the way up
\* from it has the types of all of them, the setting that waits for its value is the last one of
\* ctx->parent, and the tree that was built so far is sound.
THEOREM ContextFollows == ReaderSpec => []ContextFollowsParser
<1>1. ReaderInv => ContextFollowsParser
  <2> SUFFICES ASSUME ReaderInv, phase = "parse"
               PROVE  LET up == Ancestors(config, parent) IN
                      /\ Len(up) = Len(frames)
                      /\ \A k \in DOMAIN up : config[up[k]].type = frames[Len(frames) - k + 1]
                      /\ Pending => /\ setting = config[parent].kids[Len(config[parent].kids)]
                                    /\ config[setting].type = "NONE"
                      /\ FamilyAgrees(config) /\ ListsFit(config) /\ NamesAreUnique(config)
                      /\ ArraysAreHomogeneous(config)
    BY DEF ContextFollowsParser, Pending
  <2>1. /\ TreeInv(config) /\ config \in Heaps /\ ArraysInv(config)
        /\ Follows(config, parent, frames)
        /\ Pending => /\ setting = config[parent].kids[Len(config[parent].kids)]
                      /\ config[setting].type = "NONE"
    BY DEF ReaderInv, ParserInv, TreeInv
  <2>2. parent \in Live(config)
    BY <2>1, FollowsTop
  <2>3. PICK up : /\ WayUp(up, config, parent) /\ Len(up) = Len(frames)
                  /\ \A k \in 1 .. Len(frames) : config[up[k]].type = frames[Len(frames) - k + 1]
    BY <2>1 DEF Follows
  <2>4. Ancestors(config, parent) = up
    BY <2>1, <2>2, <2>3, AncestorsProperties, OneWayUp
  <2>5. DOMAIN up = 1 .. Len(up)
    BY <2>3 DEF WayUp
  <2>6. FamilyAgrees(config) /\ ListsFit(config) /\ NamesAreUnique(config)
    BY <2>1, TreeIsSoundThen
  <2>7. ArraysAreHomogeneous(config)
    BY <2>1, ArraysAreThen
  <2> QED
    BY <2>1, <2>3, <2>4, <2>5, <2>6, <2>7
<1> QED
  BY <1>1, ReaderSound, PTL

\* However a read ends, and however deep in included files it is, no stream and no buffer is
\* lost: every level has its own, and every file that a setting or the error message names is one
\* the configuration keeps.
THEOREM NothingLeftOpen == ReaderSpec => []NothingIsLeftOpen
<1>1. ReaderInv => NothingIsLeftOpen
  <2> SUFFICES ASSUME ReaderInv PROVE NothingIsLeftOpen
    OBVIOUS
  <2>1. phase = "done" => buffers = {} /\ open = {}
    BY DEF ReaderInv, FilesInv
  <2>2. phase = "parse" => /\ open = Levels \cup (IF files[1] = Null THEN {} ELSE {0})
                           /\ Cardinality(buffers) = Depth + 1
    BY BuffersAre DEF ReaderInv, FilesInv, IncludesInv
  <2>3. /\ phase \in {"parse", "done"} => \A n \in Live(config) : config[n].file \in KnownFiles
        /\ error.file \in KnownFiles
    BY DEF ReaderInv, FilesInv
  <2> QED
    BY <2>1, <2>2, <2>3 DEF NothingIsLeftOpen, KnownFiles
<1> QED
  BY <1>1, ReaderSound, PTL
=============================================================================
