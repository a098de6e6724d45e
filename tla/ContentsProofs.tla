--------------------------- MODULE ContentsProofs ---------------------------
(***************************************************************************)
(* Proofs about Contents, for any number of objects and any first database *)
(* that is in order: the contents lists and the free list, threaded        *)
(* through the same fields, are those of the locations and of the garbage, *)
(* and what refers to an object refers to one that is there and of the     *)
(* right type, where programs do nothing amid a command (ListsAgreeAlone,  *)
(* NoDanglingAlone).                                                       *)
(*                                                                         *)
(* In the same case more is proved: recycle() empties what it frees        *)
(* (RecyclingEmpties), nothing gets                                        *)
(* lost (EverythingIsSomewhere), and as long as @dig makes rooms in rooms  *)
(* only, they stay there (RoomsStayInRooms), the moves go where Places     *)
(* lets them (ContentsImplementsPlaces), and the objects are one tree      *)
(* below room 0 (FindsItsWay).                                             *)
(*                                                                         *)
(* A list is not followed in the proofs. h says of every object in which   *)
(* list it is, and r gives it a number that falls along each list (Linked, *)
(* of ListsProofs): what the code does to the lists are a few changes of   *)
(* c, n, h and r. A walk along a list is related to h once (ListMembers).  *)
(***************************************************************************)
EXTENDS Contents, ListsProofs, SequenceTheorems

-----------------------------------------------------------------------------
(* Lists. *)

\* The free list is one more list.
Free == -2
Heads == Objs \cup {Free}

LEMMA Names ==
    /\ NOTHING \notin Objs \cup Heads
    /\ NOTHING \notin Heads /\ NOTHING \notin Objs /\ Free \notin Objs /\ HOME \notin Refs
BY DEF Heads, Objs, NOTHING, Free, HOME, Refs

LEMMA ObjsFinite == IsFiniteSet(Objs) /\ Cardinality(Objs) = db_top /\ db_top \in Nat
BY FS_Interval, ObjectsAssumption DEF Objs

\* The list that starts with first: the recursion is well defined.
LEMMA ListUnfolds ==
    ASSUME NEW d, d.next \in [Objs -> Refs]
    PROVE  \A first \in Refs :
           /\ List(d, first) \in [0 .. db_top -> Refs]
           /\ List(d, first)[0] = first
           /\ \A i \in 1 .. db_top :
                 List(d, first)[i] = IF List(d, first)[i - 1] = NOTHING THEN NOTHING
                                     ELSE d.next[List(d, first)[i - 1]]
<1> TAKE first \in Refs
<1> DEFINE Rec(a) == [n \in 0 .. db_top |->
                        IF n = 0 THEN first
                        ELSE LET prev == a[n - 1]
                             IN IF prev = NOTHING THEN NOTHING ELSE d.next[prev]]
           at == CHOOSE a : a = Rec(a)
<1>1. PICK f : IsWalk(Objs, NOTHING, d.next, db_top, f) /\ f[0] = first
  <2>1. Nexts(Objs, NOTHING, d.next) /\ first \in Objs \cup {NOTHING} /\ db_top \in Nat
    BY ObjsFinite DEF Refs, Nexts
  <2>2. \A x \in Objs \cup {NOTHING} : \E f : IsWalk(Objs, NOTHING, d.next, db_top, f) /\ f[0] = x
    BY <2>1, WalkExists
  <2> QED BY <2>1, <2>2, Zenon
<1>2. /\ f \in [0 .. db_top -> Refs] /\ db_top \in Nat
      /\ \A i \in 1 .. db_top :
            f[i] = IF f[i - 1] = NOTHING THEN NOTHING ELSE d.next[f[i - 1]]
  BY <1>1, ObjsFinite DEF IsWalk, Refs
<1>3. f = Rec(f)
  <2>1. ASSUME NEW n \in 0 .. db_top
        PROVE  f[n] = Rec(f)[n]
    <3>1. n = 0 \/ n \in 1 .. db_top OBVIOUS
    <3> QED BY <1>1, <1>2, <3>1
  <2> QED BY <1>2, <2>1
<1>4. at = Rec(at) BY <1>3, Zenon
<1>5. List(d, first) = at BY DEF List
<1> HIDE DEF at
<1>6. ASSUME NEW i \in 1 .. db_top
      PROVE  at[i] = IF at[i - 1] = NOTHING THEN NOTHING ELSE d.next[at[i - 1]]
  <2>1. i \in 0 .. db_top /\ i # 0 OBVIOUS
  <2> QED BY <1>4, <2>1
<1>7. at[0] = f[0] BY <1>1, <1>2, <1>4
<1>8. \A n \in 0 .. db_top : at[n] = f[n]
  <2>1. WalkSteps(NOTHING, d.next, db_top, at) BY <1>6 DEF WalkSteps
  <2>2. IsWalk(Objs, NOTHING, d.next, db_top, f) /\ db_top \in Nat BY <1>1, <1>2
  <2>3. \A K : WalkSteps(NOTHING, d.next, db_top, K) /\ K[0] = f[0]
                  => \A i \in 0 .. db_top : K[i] = f[i]
    BY <2>2, WalkUnique
  <2> QED BY <1>7, <2>1, <2>3, Zenon
<1>9. at = f
  <2>1. at = [n \in 0 .. db_top |-> at[n]] /\ f = [n \in 0 .. db_top |-> f[n]]
    BY <1>4, <1>2
  <2> QED BY <1>8, <2>1
<1> QED BY <1>1, <1>2, <1>5, <1>9

LEMMA ListIsWalk ==
    ASSUME NEW d, d.next \in [Objs -> Refs], NEW first \in Refs
    PROVE  IsWalk(Objs, NOTHING, d.next, db_top, List(d, first)) /\ List(d, first)[0] = first
BY ListUnfolds DEF IsWalk, Refs

\* A walk along a list meets objects of the list only, each once,
LEMMA ListOfChain ==
    ASSUME NEW d, d.next \in [Objs -> Refs], NEW c, NEW h, NEW r, NEW B,
           Linked(Objs, Heads, NOTHING, c, d.next, h, r, B), NEW l \in Heads
    PROVE  /\ \A i \in 0 .. db_top : List(d, c[l])[i] # NOTHING
                 => List(d, c[l])[i] \in Objs /\ h[List(d, c[l])[i]] = l
           /\ \A i, j \in 0 .. db_top : i < j /\ List(d, c[l])[j] # NOTHING
                 => /\ List(d, c[l])[i] # NOTHING
                    /\ r[List(d, c[l])[j]] < r[List(d, c[l])[i]]
<1>1. c[l] \in Refs BY DEF Linked, LinkTypes, Refs
<1>2. IsWalk(Objs, NOTHING, d.next, db_top, List(d, c[l])) /\ List(d, c[l])[0] = c[l]
  BY <1>1, ListIsWalk
<1> QED BY <1>2, ObjsFinite, Names, WalkOfChain

\* and ends: its members are the objects that say so.
LEMMA ListMembers ==
    ASSUME NEW d, d.next \in [Objs -> Refs], NEW c, NEW h, NEW r, NEW B,
           Linked(Objs, Heads, NOTHING, c, d.next, h, r, B), NEW l \in Heads
    PROVE  Ends(d, c[l]) /\ HoldsOf(Objs, h, l, Members(d, c[l]))
<1>1. c[l] \in Refs BY DEF Linked, LinkTypes, Refs
<1>2. IsWalk(Objs, NOTHING, d.next, db_top, List(d, c[l])) /\ List(d, c[l])[0] = c[l]
  BY <1>1, ListIsWalk
<1>3. Cardinality(Objs) <= db_top BY ObjsFinite
<1> QED BY <1>2, <1>3, ObjsFinite, Names, ChainMembers DEF Ends, Members

-----------------------------------------------------------------------------
(* The lists of a database. *)

\* The first object of every list, and that the lists are those of h.
Firsts(d) == [l \in Heads |-> IF l = Free THEN d.recyclable ELSE d.contents[l]]
Threaded(d, h) == \E B : \E r : Linked(Objs, Heads, NOTHING, Firsts(d), d.next, h, r, B)

\* e differs from d in the lists of contents only.
OnlyLists(d, e) ==
    /\ e \in Db /\ e.type = d.type /\ e.location = d.location /\ e.home = d.home
    /\ e.owner = d.owner /\ e.dropto = d.dropto /\ e.recyclable = d.recyclable

LEMMA FirstsTyped ==
    ASSUME NEW d \in Db
    PROVE  /\ Firsts(d) \in [Heads -> Refs] /\ Firsts(d)[Free] = d.recyclable
           /\ \A l \in Objs : Firsts(d)[l] = d.contents[l]
           /\ d.next \in [Objs -> Refs] /\ d.contents \in [Objs -> Refs] /\ d.recyclable \in Refs
<1>1. d.contents \in [Objs -> Refs] /\ d.recyclable \in Refs /\ d.next \in [Objs -> Refs]
  BY DEF Db
<1>2. \A l \in Heads : l = Free \/ l \in Objs BY DEF Heads
<1>3. Free \in Heads /\ Objs \subseteq Heads /\ Free \notin Objs BY Names DEF Heads
<1> QED BY <1>1, <1>2, <1>3 DEF Firsts

\* PUSH: the fields it changes,
Pushed(d, e, what, where) ==
    /\ OnlyLists(d, e) /\ e.next = [d.next EXCEPT ![what] = d.contents[where]]
    /\ e.contents = [d.contents EXCEPT ![where] = what]

LEMMA PushFields ==
    ASSUME NEW d \in Db, NEW what \in Objs, NEW where \in Objs
    PROVE  Pushed(d, Push(d, what, where), what, where)
<1>1. what \in Refs /\ d.contents[where] \in Refs BY DEF Db, Refs
<1> QED BY <1>1 DEF Push, Db, OnlyLists, Pushed

\* and what becomes of the lists.
LEMMA PushThreads ==
    ASSUME NEW d \in Db, NEW h, Threaded(d, h), NEW what \in Objs, h[what] = NOTHING,
           NEW where \in Objs, NEW e, Pushed(d, e, what, where)
    PROVE  Threaded(e, [h EXCEPT ![what] = where])
<1>1. PICK B : \E r : Linked(Objs, Heads, NOTHING, Firsts(d), d.next, h, r, B)
  BY DEF Threaded
<1>2. PICK r : Linked(Objs, Heads, NOTHING, Firsts(d), d.next, h, r, B) BY <1>1
<1>3. where \in Heads /\ where # Free BY Names DEF Heads
<1>4. Linked(Objs, Heads, NOTHING, [Firsts(d) EXCEPT ![where] = what], [d.next EXCEPT ![what] = Firsts(d)[where]],
            [h EXCEPT ![what] = where], [r EXCEPT ![what] = B + 1], B + 1)
  BY <1>2, <1>3, Names, ChainPush
<1>f. /\ Firsts(d) \in [Heads -> Refs] /\ Firsts(d)[Free] = d.recyclable
      /\ \A l \in Objs : Firsts(d)[l] = d.contents[l]
      /\ d.next \in [Objs -> Refs] /\ d.contents \in [Objs -> Refs] /\ d.recyclable \in Refs
  BY FirstsTyped, Zenon
<1>5. e \in Db /\ e.next = [d.next EXCEPT ![what] = Firsts(d)[where]]
  BY <1>f DEF OnlyLists, Pushed
<1>6. Firsts(e) = [Firsts(d) EXCEPT ![where] = what]
  <2>1. e.recyclable = d.recyclable /\ e.contents = [d.contents EXCEPT ![where] = what]
    BY DEF OnlyLists, Pushed
  <2>2. d.contents \in [Objs -> Refs] /\ \A l \in Heads : l = Free \/ l \in Objs
    BY <1>f DEF Heads
  <2> QED BY <2>1, <2>2, <1>3 DEF Firsts
<1> QED BY <1>4, <1>5, <1>6 DEF Threaded

-----------------------------------------------------------------------------
\* e has the objects of d in other lists, those of h.
Relinked(d, e, h) == OnlyLists(d, e) /\ Threaded(e, h)

\* One list and one object fewer: the cases of remove_first().
LEMMA ThreadsWithout ==
    ASSUME NEW d \in Db, NEW h, NEW r, NEW B, NEW what \in Objs, NEW e \in Db,
           Linked(Objs, Heads, NOTHING, Firsts(d), d.next, h, r, B),
           Bypass(Objs, Heads, NOTHING, Firsts(d), d.next, h, what, Firsts(e), e.next)
    PROVE  Threaded(e, [h EXCEPT ![what] = NOTHING])
<1>2. Firsts(e) \in [Heads -> Objs \cup {NOTHING}] /\ e.next \in [Objs -> Objs \cup {NOTHING}]
  BY FirstsTyped DEF Refs
<1>3. Linked(Objs, Heads, NOTHING, Firsts(e), e.next, [h EXCEPT ![what] = NOTHING], r, B)
  BY <1>2, Names, ChainWithout, Zenon
<1> QED BY <1>3 DEF Threaded

LEMMA RemoveThreads ==
    ASSUME NEW d \in Db, NEW h, Threaded(d, h), NEW what \in Objs, NEW loc \in Objs,
           h[what] = loc \/ h[what] = NOTHING
    PROVE  Relinked(d, RemoveContent(d, loc, what), [h EXCEPT ![what] = NOTHING])
<1> DEFINE e == RemoveContent(d, loc, what)
           list == List(d, d.contents[loc])
           prevs == {n \in 1 .. db_top : list[n - 1] # NOTHING /\ list[n] = what}
<1> SUFFICES Relinked(d, e, [h EXCEPT ![what] = NOTHING]) OBVIOUS
<1>1. PICK B : \E r : Linked(Objs, Heads, NOTHING, Firsts(d), d.next, h, r, B)
  BY DEF Threaded
<1>2. PICK r : Linked(Objs, Heads, NOTHING, Firsts(d), d.next, h, r, B) BY <1>1
<1>f. /\ Firsts(d) \in [Heads -> Refs] /\ Firsts(d)[Free] = d.recyclable
      /\ \A l \in Objs : Firsts(d)[l] = d.contents[l]
      /\ d.next \in [Objs -> Refs] /\ d.contents \in [Objs -> Refs] /\ d.recyclable \in Refs
  BY FirstsTyped, Zenon
<1>l. loc \in Heads /\ loc # NOTHING /\ loc # Free /\ what # NOTHING /\ \A l \in Heads : l = Free \/ l \in Objs
  BY Names DEF Heads
<1>c. /\ FirstIsIn(Heads, NOTHING, Firsts(d), h) /\ NextIsIn(Objs, NOTHING, Firsts(d), d.next, h, r) /\ OneLink(Objs, NOTHING, d.next, h)
      /\ \A y \in Objs : r[y] \in Int
  BY <1>2 DEF Linked, LinkTypes
<1>3. /\ list \in [0 .. db_top -> Refs] /\ list[0] = d.contents[loc]
      /\ \A i \in 1 .. db_top :
            list[i] = IF list[i - 1] = NOTHING THEN NOTHING ELSE d.next[list[i - 1]]
  BY <1>f, ListUnfolds
<1>4. /\ \A i \in 0 .. db_top : list[i] # NOTHING => list[i] \in Objs /\ h[list[i]] = loc
  <2>1. /\ \A i \in 0 .. db_top : List(d, Firsts(d)[loc])[i] # NOTHING
              => List(d, Firsts(d)[loc])[i] \in Objs /\ h[List(d, Firsts(d)[loc])[i]] = loc
        /\ \A i, j \in 0 .. db_top : i < j /\ List(d, Firsts(d)[loc])[j] # NOTHING
              => /\ List(d, Firsts(d)[loc])[i] # NOTHING
                 /\ r[List(d, Firsts(d)[loc])[j]] < r[List(d, Firsts(d)[loc])[i]]
    BY <1>2, <1>f, <1>l, ListOfChain, Zenon
  <2>2. list = List(d, Firsts(d)[loc]) BY <1>f
  <2> HIDE DEF list
  <2> QED BY <2>1, <2>2
<1>5. HoldsOf(Objs, h, loc, Members(d, d.contents[loc]))
  BY <1>2, <1>f, <1>l, ListMembers
<1>6. Members(d, d.contents[loc]) = {list[i] : i \in 0 .. db_top} \ {NOTHING}
  BY DEF Members
<1>e. e = CASE list[0] = what -> [d EXCEPT !.contents[loc] = d.next[what]]
            [] list[0] # what /\ prevs # {} ->
                 [d EXCEPT !.next[list[Min(prevs) - 1]] = d.next[what]]
            [] OTHER -> d
  BY DEF RemoveContent
<1> HIDE DEF e, list
<1>7. CASE list[0] = what
  <2>1. /\ OnlyLists(d, e) /\ e.next = d.next /\ e.recyclable = d.recyclable
        /\ e.contents = [d.contents EXCEPT ![loc] = d.next[what]]
    <3>1. e = [d EXCEPT !.contents[loc] = d.next[what]] BY <1>e, <1>7
    <3>2. d.next[what] \in Refs BY <1>f
    <3> QED BY <3>1, <3>2 DEF OnlyLists, Db
  <2>2. h[what] = loc BY <1>7, <1>3, <1>c, <1>f, <1>l DEF FirstIsIn
  <2>3. \A l \in Heads : Firsts(e)[l] = IF Firsts(d)[l] = what THEN d.next[what] ELSE Firsts(d)[l]
    <3> SUFFICES ASSUME NEW l \in Heads
                 PROVE  Firsts(e)[l] = IF Firsts(d)[l] = what THEN d.next[what] ELSE Firsts(d)[l]
      OBVIOUS
    <3>1. Firsts(e)[l] = IF l = loc THEN d.next[what] ELSE Firsts(d)[l]
      BY <2>1, <1>f, <1>l DEF Firsts
    <3>2. Firsts(d)[l] = what => l = loc BY <2>2, <1>c, <1>l DEF FirstIsIn
    <3>3. Firsts(d)[loc] = what BY <1>3, <1>7, <1>f
    <3> QED BY <3>1, <3>2, <3>3
  <2>4. \A y \in Objs : y # what /\ h[y] # NOTHING
                => e.next[y] = IF d.next[y] = what THEN d.next[what] ELSE d.next[y]
    <3> SUFFICES ASSUME NEW y \in Objs, h[y] # NOTHING PROVE d.next[y] # what
      BY <2>1
    <3>1. Firsts(d)[loc] = what BY <1>3, <1>7, <1>f
    <3> QED BY <3>1, <2>2, <1>c, <1>l DEF NextIsIn
  <2>5. Bypass(Objs, Heads, NOTHING, Firsts(d), d.next, h, what, Firsts(e), e.next) /\ e \in Db
    BY <2>1, <2>3, <2>4 DEF Bypass, OnlyLists
  <2> QED BY <1>2, <2>1, <2>5, ThreadsWithout DEF Relinked
<1>8. CASE list[0] # what /\ prevs # {}
  <2>1. PICK i \in prevs : e = [d EXCEPT !.next[list[i - 1]] = d.next[what]]
    <3>1. prevs \in SUBSET Nat OBVIOUS
    <3>2. PICK m \in prevs : \A k \in prevs : m <= k BY <3>1, <1>8, LeastNat, Zenon
    <3>3. Min(prevs) \in prevs BY <3>2 DEF Min
    <3> QED BY <1>e, <1>8, <3>3
  <2> DEFINE p == list[i - 1]
  <2>2. i - 1 \in 0 .. db_top /\ p # NOTHING /\ list[i] = what /\ list[i] = d.next[p]
    BY <1>3, ObjectsAssumption
  <2>3. p \in Objs /\ h[p] = loc /\ d.next[p] = what BY <2>2, <1>4
  <2> HIDE DEF p
  <2>4. h[what] = loc /\ p # what BY <2>3, <1>c, <1>l DEF NextIsIn
  <2>5. /\ OnlyLists(d, e) /\ e.next = [d.next EXCEPT ![p] = d.next[what]] /\ e.recyclable = d.recyclable
        /\ e.contents = d.contents
    <3>1. e = [d EXCEPT !.next[p] = d.next[what]] BY <2>1 DEF p
    <3>2. d.next[what] \in Refs BY <1>f
    <3> QED BY <3>1, <3>2 DEF OnlyLists, Db
  <2>6. \A l \in Heads : Firsts(e)[l] = IF Firsts(d)[l] = what THEN d.next[what] ELSE Firsts(d)[l]
    <3> SUFFICES ASSUME NEW l \in Heads
                 PROVE  Firsts(e)[l] = IF Firsts(d)[l] = what THEN d.next[what] ELSE Firsts(d)[l]
      OBVIOUS
    <3>1. Firsts(e)[l] = Firsts(d)[l] BY <2>5 DEF Firsts
    <3>2. Firsts(d)[l] # what BY <2>4, <1>c, <1>l, <1>3, <1>8, <1>f DEF FirstIsIn
    <3> QED BY <3>1, <3>2
  <2>7. \A y \in Objs : y # what /\ h[y] # NOTHING
                => e.next[y] = IF d.next[y] = what THEN d.next[what] ELSE d.next[y]
    <3> SUFFICES ASSUME NEW y \in Objs, h[y] # NOTHING
                 PROVE  e.next[y] = IF d.next[y] = what THEN d.next[what] ELSE d.next[y]
      OBVIOUS
    <3>1. CASE d.next[y] = what
      <4>1. y = p BY <3>1, <2>3, <1>c, <1>l DEF OneLink
      <4> QED BY <4>1, <2>5, <3>1, <1>f
    <3>2. CASE d.next[y] # what
      <4>1. y # p BY <3>2, <2>3
      <4> QED BY <4>1, <2>5, <3>2, <1>f
    <3> QED BY <3>1, <3>2
  <2>8. Bypass(Objs, Heads, NOTHING, Firsts(d), d.next, h, what, Firsts(e), e.next) /\ e \in Db
    BY <2>5, <2>6, <2>7 DEF Bypass, OnlyLists
  <2> QED BY <1>2, <2>5, <2>8, ThreadsWithout DEF Relinked
<1>9. CASE list[0] # what /\ prevs = {}
  <2>1. e = d BY <1>e, <1>9
  <2>2. \A i \in 0 .. db_top : list[i] # what
    <3> SUFFICES ASSUME NEW i \in 0 .. db_top, list[i] = what PROVE FALSE OBVIOUS
    <3>1. i = 0 \/ i \in 1 .. db_top OBVIOUS
    <3>2. CASE i \in 1 .. db_top
      <4>1. list[i - 1] # NOTHING BY <1>3, <3>2, <1>l
      <4> QED BY <4>1, <3>2, <1>9
    <3> QED BY <1>9, <3>1, <3>2
  <2>3. h[what] # loc BY <2>2, <1>5, <1>6 DEF HoldsOf
  <2>4. [h EXCEPT ![what] = NOTHING] = h BY <2>3, <1>2 DEF Linked, LinkTypes
  <2>5. OnlyLists(d, d) BY DEF OnlyLists
  <2> QED BY <2>1, <2>4, <2>5 DEF Relinked
<1> QED BY <1>7, <1>8, <1>9

\* reverse(): the same objects, the other way round.
LEMMA ReverseThreads ==
    ASSUME NEW d \in Db, NEW h, Threaded(d, h), NEW loc \in Objs
    PROVE  Relinked(d, ReverseContents(d, loc), h)
<1> DEFINE first == d.contents[loc]
           members == Members(d, first)
           Before(o) == IF o = first THEN NOTHING ELSE CHOOSE x \in members : d.next[x] = o
           nn == [o \in Objs |-> IF o \in members THEN Before(o) ELSE d.next[o]]
           last == CHOOSE o \in members : d.next[o] = NOTHING
           e == ReverseContents(d, loc)
<1> SUFFICES Relinked(d, e, h) OBVIOUS
<1>1. PICK B : \E r : Linked(Objs, Heads, NOTHING, Firsts(d), d.next, h, r, B)
  BY DEF Threaded
<1>2. PICK r : Linked(Objs, Heads, NOTHING, Firsts(d), d.next, h, r, B) BY <1>1
<1>f. /\ Firsts(d) \in [Heads -> Refs] /\ Firsts(d)[Free] = d.recyclable
      /\ \A l \in Objs : Firsts(d)[l] = d.contents[l]
      /\ d.next \in [Objs -> Refs] /\ d.contents \in [Objs -> Refs] /\ d.recyclable \in Refs
  BY FirstsTyped, Zenon
<1>l. loc \in Heads /\ loc # NOTHING /\ loc # Free /\ \A l \in Heads : l = Free \/ l \in Objs
  BY Names DEF Heads
<1>c. /\ FirstIsIn(Heads, NOTHING, Firsts(d), h) /\ IsReached(Objs, NOTHING, Firsts(d), d.next, h)
  BY <1>2 DEF Linked
<1>m. \A x : x \in members <=> x \in Objs /\ h[x] = loc
  <2>1. HoldsOf(Objs, h, loc, Members(d, d.contents[loc]))
    BY <1>2, <1>f, <1>l, ListMembers
  <2> QED BY <2>1 DEF HoldsOf
<1>n. OneEnd(Objs, NOTHING, d.next, h, loc) /\ HasEnds(Objs, NOTHING, d.next, Firsts(d), h, loc)
  BY <1>2, <1>f, <1>l, Names, ObjsFinite, ChainEnd, Zenon
<1>3. CASE first = NOTHING
  <2>1. e = d BY <1>3 DEF ReverseContents
  <2> QED BY <2>1 DEF Relinked, OnlyLists
<1>4. CASE first # NOTHING
  <2>1. e = [d EXCEPT !.contents[loc] = last, !.next = nn]
    BY <1>4 DEF ReverseContents
  <2>2. first \in Objs /\ h[first] = loc /\ Firsts(d)[loc] = first
    BY <1>4, <1>f, <1>c, <1>l DEF FirstIsIn, Refs
  <2> HIDE DEF members, first, e
  <2>3. last \in Objs /\ h[last] = loc /\ d.next[last] = NOTHING
    <3>1. \E o \in members : d.next[o] = NOTHING BY <1>n, <1>m, <2>2 DEF HasEnds
    <3>2. last \in members /\ d.next[last] = NOTHING BY <3>1
    <3> QED BY <3>2, <1>m
  <2> HIDE DEF last
  <2>4. \A x \in Objs : h[x] = loc /\ x # first
            => Before(x) \in Objs /\ h[Before(x)] = loc /\ d.next[Before(x)] = x
    <3> SUFFICES ASSUME NEW x \in Objs, h[x] = loc, x # first
                 PROVE  Before(x) \in Objs /\ h[Before(x)] = loc /\ d.next[Before(x)] = x
      OBVIOUS
    <3>1. \E y \in members : d.next[y] = x BY <1>c, <1>m, <2>2, <1>l DEF IsReached
    <3>2. Before(x) \in members /\ d.next[Before(x)] = x BY <3>1
    <3> QED BY <3>2, <1>m
  <2>5. /\ \A x \in Objs : h[x] # loc => nn[x] = d.next[x]
        /\ \A x \in Objs : h[x] = loc => nn[x] = Before(x)
        /\ nn[first] = NOTHING
    BY <1>m, <2>2
  <2>6. nn \in [Objs -> Refs]
    <3>1. \A x \in Objs : nn[x] \in Refs BY <2>4, <2>5, <1>f DEF Refs
    <3> QED BY <3>1
  <2> HIDE DEF nn, Before
  <2>7. \A x \in Objs : h[x] = loc /\ x # Firsts(d)[loc]
            => nn[x] \in Objs /\ h[nn[x]] = loc /\ d.next[nn[x]] = x
    BY <2>2, <2>4, <2>5
  <2>8. nn[Firsts(d)[loc]] = NOTHING /\ Firsts(d)[loc] # NOTHING BY <2>2, <2>5, <1>4
  <2>r. Reverses(Objs, NOTHING, d.next, Firsts(d), h, loc, last, nn)
    BY <2>2, <2>3, <2>5, <2>7, <2>8 DEF Reverses
  <2>k. nn \in [Objs -> Objs \cup {NOTHING}] /\ loc \in Heads /\ last \in Objs
    BY <2>6, <1>l, <2>3 DEF Refs
  <2>9. Linked(Objs, Heads, NOTHING, [Firsts(d) EXCEPT ![loc] = last], nn, h, Turned(Objs, h, loc, r, B), B)
    BY ONLY <1>2, <2>k, <2>r, Names, ObjsFinite, ChainReverse, Zenon
  <2>10. OnlyLists(d, e) /\ e.next = nn /\ e.contents = [d.contents EXCEPT ![loc] = last]
    <3>1. last \in Refs BY <2>3 DEF Refs
    <3> QED BY <3>1, <2>1, <2>6 DEF OnlyLists, Db
  <2>11. Firsts(e) = [Firsts(d) EXCEPT ![loc] = last]
    BY <2>10, <1>f, <1>l DEF Firsts, OnlyLists, Heads
  <2> QED BY <2>9, <2>10, <2>11 DEF Relinked, Threaded
<1> QED BY <1>3, <1>4

-----------------------------------------------------------------------------
(* What holds of a database while the objects of D are being recycled.     *)

\* An object is in the list of its location and garbage in the free list; what
\* is being recycled may be in none, wherever it says it is.
Placed(d, h, D) ==
    /\ \A x \in Objs : h[x] \in Objs => d.location[x] = h[x]
    /\ \A x \in Objs : h[x] = Free <=> d.type[x] = "garbage"
    /\ \A x \in Objs : d.type[x] = "garbage" => d.location[x] = NOTHING
    /\ \A x \in Objs : x \notin D /\ d.type[x] # "garbage" => h[x] = d.location[x]
InPlace(d, D) == \E h : Threaded(d, h) /\ Placed(d, h, D)

\* Room 0 and the room where players start stay; what refers to an object
\* refers to one of the right type, that is not being recycled.
Fixed(d, D) ==
    /\ d.type[Top] = "room" /\ Top \notin D
    /\ d.type[tp_player_start] = "room" /\ tp_player_start \notin D
    /\ \A o \in D : o \in Objs /\ d.type[o] \in {"room", "thing", "program"}
OwnerOK(d) == \A o \in Objs : d.type[o] # "garbage" => d.type[d.owner[o]] = "player"
HomeOK(d, D) ==
    \A o \in Objs :
        /\ d.type[o] = "thing" => /\ d.home[o] \in Objs \ D
                                  /\ d.type[d.home[o]] \in Containers
        /\ d.type[o] = "player" => d.home[o] \in Objs \ D /\ d.type[d.home[o]] = "room"
DroptoOK(d, D) ==
    \A o \in Objs :
        /\ d.dropto[o] \in Objs => d.dropto[o] \notin D /\ d.type[d.dropto[o]] \in {"room", "thing"}
        /\ d.type[o] # "room" => d.dropto[o] = NOTHING
Sound(d, D) == Fixed(d, D) /\ OwnerOK(d) /\ HomeOK(d, D) /\ DroptoOK(d, D)

\* A player is nowhere, or where players can be: in what may be garbage now.
Near == Containers \cup {"garbage"}
PlayersAt(d) ==
    \A o \in Objs : d.type[o] = "player"
                    => d.location[o] = NOTHING \/ d.type[d.location[o]] \in Near

Good(d, D) == d \in Db /\ Sound(d, D) /\ PlayersAt(d) /\ InPlace(d, D)

\* A step that moves objects.
Steady(d, e, D) == Good(e, D) /\ e.type = d.type

-----------------------------------------------------------------------------
(* Moves. *)

\* Only where one object is differs.
Shifted(d, e, what) ==
    /\ e \in Db /\ e.type = d.type /\ e.home = d.home /\ e.owner = d.owner
    /\ e.dropto = d.dropto /\ e.recyclable = d.recyclable
    /\ \A x \in Objs : x # what => e.location[x] = d.location[x]

LEMMA ShiftedKeeps ==
    ASSUME NEW d, NEW e, NEW D, NEW what \in Objs, Good(d, D), Shifted(d, e, what),
           InPlace(e, D), PlayersAt(e)
    PROVE  Steady(d, e, D)
<1>1. Sound(e, D) BY DEF Shifted, Good, Sound, Fixed, OwnerOK, HomeOK, DroptoOK
<1> QED BY <1>1 DEF Steady, Good, Shifted

\* Where an object may be put: not in garbage nor in what is being recycled.
Stays(d, D, to) == to \in Objs \ D /\ d.type[to] # "garbage"

\* Where an object goes at last: somewhere, and a player to his home.
Lands(d, D, what, to) == Stays(d, D, to) /\ (d.type[what] = "player" => to = d.home[what])

LEMMA FallbackIs ==
    ASSUME NEW d \in Db, NEW D, NEW what \in Objs, Sound(d, D), d.type[what] # "garbage"
    PROVE  Lands(d, D, what, Fallback(d, what))
<1> USE DEF Sound
<1>1. d.type[what] \in Types /\ d.owner[what] \in Objs BY DEF Db
<1>2. d.type[what] \in {"thing", "player"} => Stays(d, D, d.home[what])
  BY DEF HomeOK, Containers, Stays
<1>o. d.type[d.owner[what]] = "player" /\ Stays(d, D, d.owner[what])
  BY <1>1 DEF OwnerOK, Fixed, Stays
<1>3. Stays(d, D, d.home[d.owner[what]]) BY <1>1, <1>o DEF HomeOK, Stays
<1>4. Stays(d, D, Top) /\ Stays(d, D, tp_player_start)
  BY ObjectsAssumption DEF Objs, Top, Fixed, Stays
<1>5. d.type[what] # "thing" => Stays(d, D, HomeOf(d, what))
  BY <1>1, <1>2, <1>4, <1>o DEF HomeOf, Types
<1>6. d.type[what] = "thing" => HomeOf(d, what) = d.home[what] BY DEF HomeOf
<1>7. d.type[what] = "player" => HomeOf(d, what) = d.home[what] BY DEF HomeOf
<1>8. CASE d.type[what] # "thing"
  <2>1. Fallback(d, what) = HomeOf(d, what) BY <1>8 DEF Fallback
  <2> QED BY <2>1, <1>5, <1>7, <1>8 DEF Lands
<1>9. CASE d.type[what] = "thing"
  <2>1. Fallback(d, what) \in {HomeOf(d, what), d.home[d.owner[what]], tp_player_start}
    BY <1>9 DEF Fallback
  <2> QED BY <2>1, <1>2, <1>3, <1>4, <1>6, <1>9 DEF Lands
<1> QED BY <1>8, <1>9

\* What Moveto does to the lists and to the object.
MovedTo(d, e, what, to, D) == Shifted(d, e, what) /\ e.location[what] = to /\ InPlace(e, D)

\* The object is taken out,
TakenOut(d, what) == IF d.location[what] = NOTHING THEN d
                     ELSE RemoveContent(d, d.location[what], what)

LEMMA TakeOut ==
    ASSUME NEW d \in Db, NEW D, NEW h, NEW what \in Objs, Threaded(d, h), Placed(d, h, D),
           d.type[what] # "garbage"
    PROVE  Relinked(d, TakenOut(d, what), [h EXCEPT ![what] = NOTHING])
<1> USE DEF TakenOut
<1>1. h \in [Objs -> Heads \cup {NOTHING}] /\ d.location[what] \in Refs
  BY DEF Threaded, Linked, LinkTypes, Db
<1>2. h[what] = NOTHING \/ (h[what] \in Objs /\ h[what] = d.location[what])
  BY <1>1 DEF Placed, Heads
<1>3. CASE d.location[what] = NOTHING
  <2>1. h[what] = NOTHING BY <1>2, <1>3, Names
  <2>2. [h EXCEPT ![what] = NOTHING] = h BY <2>1, <1>1
  <2> QED BY <1>3, <2>2 DEF Relinked, OnlyLists
<1>4. CASE d.location[what] # NOTHING
  <2> DEFINE loc == d.location[what]
  <2>1. loc \in Objs /\ (h[what] = loc \/ h[what] = NOTHING)
    BY <1>1, <1>2, <1>4 DEF Refs
  <2>2. Relinked(d, RemoveContent(d, loc, what), [h EXCEPT ![what] = NOTHING])
    BY <2>1, RemoveThreads
  <2> QED BY <1>4, <2>2
<1> QED BY <1>3, <1>4

LEMMA ThreadedSame ==
    ASSUME NEW d, NEW e, NEW h, Threaded(d, h), e.contents = d.contents, e.next = d.next,
           e.recyclable = d.recyclable
    PROVE  Threaded(e, h)
<1>1. Firsts(e) = Firsts(d) BY DEF Firsts
<1> QED BY <1>1 DEF Threaded

LEMMA OnlyListsSound ==
    ASSUME NEW d, NEW e, NEW D, Sound(d, D), OnlyLists(d, e)
    PROVE  Sound(e, D)
BY DEF OnlyLists, Sound, Fixed, OwnerOK, HomeOK, DroptoOK

\* and put where it goes.
LEMMA PlacedMoves ==
    ASSUME NEW d \in Db, NEW e, NEW D, NEW h, NEW what \in Objs, NEW to \in Refs,
           Threaded(d, h), Placed(d, h, D), Shifted(d, e, what), e.location[what] = to,
           d.type[what] # "garbage"
    PROVE  Placed(e, [h EXCEPT ![what] = to], D)
<1>1. h \in [Objs -> Heads \cup {NOTHING}] BY DEF Threaded, Linked, LinkTypes
<1>2. \A x \in Objs : [h EXCEPT ![what] = to][x] = IF x = what THEN to ELSE h[x]
  BY <1>1
<1>3. to # Free /\ (to \in Objs \/ to = NOTHING) BY Names DEF Refs, Free, NOTHING
<1>4. e.type = d.type /\ \A x \in Objs : e.location[x] = IF x = what THEN to ELSE d.location[x]
  BY DEF Shifted
<1> QED BY <1>2, <1>3, <1>4, Names DEF Placed

\* Where it comes to lie: nowhere if it was sent there, a player nowhere but home
\* or where he was sent, and nothing in garbage that was not sent there.
Comes(d, D, what, where, to) ==
    /\ where = NOTHING => to = NOTHING
    /\ to \in {NOTHING, where} \/ Stays(d, D, to)
    /\ \/ d.type[what] = "garbage" \/ to = d.home[what]
       \/ to = where \/ d.type[what] # "player"

LEMMA MovetoMoves ==
    ASSUME NEW d \in Db, NEW D, NEW what \in Objs, NEW where \in Refs \cup {HOME},
           Sound(d, D), InPlace(d, D)
    PROVE  \E to \in Refs : /\ MovedTo(d, Moveto(d, what, where), what, to, D)
                            /\ Comes(d, D, what, where, to)
<1> DEFINE out == TakenOut(d, what)
           to == IF where = HOME \/ ParentLoopCheck(out, what, where)
                   THEN Fallback(out, what) ELSE where
           e == Moveto(d, what, where)
<1>e. e = CASE d.type[what] = "garbage" -> d
            [] d.type[what] # "garbage" /\ where = NOTHING ->
                 [out EXCEPT !.location[what] = NOTHING]
            [] OTHER -> [Push(out, what, to) EXCEPT !.location[what] = to]
  BY DEF Moveto, TakenOut
<1> SUFFICES \E t \in Refs : MovedTo(d, e, what, t, D) /\ Comes(d, D, what, where, t)
  OBVIOUS
<1>1. PICK h : Threaded(d, h) /\ Placed(d, h, D) BY DEF InPlace
<1>2. CASE d.type[what] = "garbage"
  <2>1. e = d /\ d.location[what] = NOTHING BY <1>e, <1>1, <1>2 DEF Placed
  <2>2. MovedTo(d, e, what, NOTHING, D) BY <2>1 DEF MovedTo, Shifted
  <2>3. NOTHING \in Refs BY DEF Refs
  <2> HIDE DEF e
  <2> QED BY <1>2, <2>2, <2>3 DEF Comes
<1>3. CASE d.type[what] # "garbage"
  <2>1. Relinked(d, out, [h EXCEPT ![what] = NOTHING]) BY <1>1, <1>3, TakeOut, Zenon
  <2> DEFINE h1 == [h EXCEPT ![what] = NOTHING]
  <2>2. OnlyLists(d, out) /\ Threaded(out, h1) BY <2>1 DEF Relinked
  <2>h. h \in [Objs -> Heads \cup {NOTHING}] /\ h1[what] = NOTHING
    BY <1>1 DEF Threaded, Linked, LinkTypes
  <2> HIDE DEF out, e, h1
  <2>3. CASE where = NOTHING
    <3>1. e = [out EXCEPT !.location[what] = NOTHING] BY <1>e, <1>3, <2>3
    <3>2. out \in Db /\ NOTHING \in Refs BY <2>2 DEF OnlyLists, Refs
    <3>3. /\ e \in Db /\ e.contents = out.contents /\ e.next = out.next /\ e.recyclable = out.recyclable
          /\ e.type = out.type /\ e.home = out.home /\ e.owner = out.owner
          /\ e.dropto = out.dropto /\ e.location = [out.location EXCEPT ![what] = NOTHING]
      BY <3>1, <3>2 DEF Db
    <3>4. Shifted(d, e, what) /\ e.location[what] = NOTHING
      BY <3>3, <3>2, <2>2 DEF Shifted, OnlyLists, Db
    <3>5. Threaded(e, h1) BY <2>2, <3>3, ThreadedSame, Zenon
    <3>6. Placed(e, h1, D) BY <1>1, <1>3, <3>2, <3>4, PlacedMoves DEF h1
    <3>7. MovedTo(d, e, what, NOTHING, D) BY <3>4, <3>5, <3>6 DEF MovedTo, InPlace
    <3> QED BY <3>7, <3>2, <2>3 DEF Comes
  <2>4. CASE where # NOTHING
    <3>1. e = [Push(out, what, to) EXCEPT !.location[what] = to]
      BY <1>e, <1>3, <2>4, Zenon
    <3>2. out \in Db /\ out.type = d.type /\ out.home = d.home /\ Sound(out, D)
      BY <2>2, OnlyListsSound DEF OnlyLists
    <3>3. /\ Stays(d, D, Fallback(out, what))
          /\ out.type[what] = "player" => Fallback(out, what) = out.home[what]
      <4>1. out \in Db /\ what \in Objs /\ Sound(out, D) /\ out.type[what] # "garbage"
        BY <3>2, <1>3
      <4>2. Lands(out, D, what, Fallback(out, what)) BY <4>1, FallbackIs
      <4> QED BY <4>2, <3>2 DEF Lands, Stays
    <3>4. /\ to \in Objs
          /\ to = where \/ Stays(d, D, to)
          /\ to # where /\ d.type[what] = "player" => to = d.home[what]
      BY <2>4, <3>2, <3>3 DEF Refs, Stays
    <3> HIDE DEF to
    <3> DEFINE p == Push(out, what, to)
    <3>5. Pushed(out, p, what, to) BY <3>2, <3>4, PushFields, Zenon
    <3>6. Threaded(p, [h1 EXCEPT ![what] = to])
      BY <3>2, <2>2, <3>4, <3>5, <2>h, PushThreads
    <3>7. [h1 EXCEPT ![what] = to] = [h EXCEPT ![what] = to] BY <2>h DEF h1
    <3>8. OnlyLists(out, p) BY <3>5 DEF Pushed
    <3> HIDE DEF p
    <3>9. /\ e \in Db /\ e.contents = p.contents /\ e.next = p.next /\ e.recyclable = p.recyclable
          /\ e.type = p.type /\ e.home = p.home /\ e.owner = p.owner
          /\ e.dropto = p.dropto /\ e.location = [p.location EXCEPT ![what] = to]
      <4>1. e = [p EXCEPT !.location[what] = to] /\ p \in Db /\ to \in Refs
        BY <3>1, <3>4, <3>8 DEF p, OnlyLists, Refs
      <4> QED BY <4>1 DEF Db
    <3>10. Shifted(d, e, what) /\ e.location[what] = to
      BY <3>8, <3>9, <3>2, <2>2 DEF Shifted, OnlyLists, Db
    <3>11. Threaded(e, [h EXCEPT ![what] = to]) BY <3>6, <3>7, <3>9, ThreadedSame
    <3>12. to \in Refs BY <3>4 DEF Refs
    <3>13. Placed(e, [h EXCEPT ![what] = to], D)
      BY <1>1, <1>3, <3>10, <3>12, PlacedMoves
    <3>14. MovedTo(d, e, what, to, D) BY <3>10, <3>11, <3>13 DEF MovedTo, InPlace
    <3>15. Comes(d, D, what, where, to) BY <2>4, <3>4 DEF Comes
    <3> QED BY <3>14, <3>12, <3>15
  <2> QED BY <2>3, <2>4
<1> QED BY <1>2, <1>3

\* A player may be put there.
PlaceFor(d, what, where) ==
    d.type[what] = "player" => where \in {HOME, NOTHING} \/ d.type[where] \in Near

LEMMA MovetoKeeps ==
    ASSUME NEW d, NEW D, NEW what \in Objs, NEW where \in Refs \cup {HOME},
           Good(d, D), PlaceFor(d, what, where)
    PROVE  Steady(d, Moveto(d, what, where), D)
<1> DEFINE e == Moveto(d, what, where)
<1> SUFFICES Steady(d, e, D) OBVIOUS
<1>1. d \in Db /\ Sound(d, D) /\ InPlace(d, D) /\ PlayersAt(d) /\ HomeOK(d, D)
  BY DEF Good, Sound
<1>2. \E to \in Refs : MovedTo(d, e, what, to, D) /\ Comes(d, D, what, where, to)
  BY <1>1, MovetoMoves
<1> HIDE DEF e
<1>3. PICK to \in Refs : MovedTo(d, e, what, to, D) /\ Comes(d, D, what, where, to)
  BY <1>2
<1>4. Shifted(d, e, what) /\ e.location[what] = to /\ InPlace(e, D)
  BY <1>3 DEF MovedTo
<1>5. PlayersAt(e)
  <2> SUFFICES ASSUME NEW o \in Objs, d.type[o] = "player"
               PROVE  e.location[o] = NOTHING \/ d.type[e.location[o]] \in Near
    BY <1>4 DEF PlayersAt, Shifted
  <2>1. CASE o # what BY <2>1, <1>1, <1>4 DEF PlayersAt, Shifted
  <2>2. CASE o = what
    <3>1. to = d.home[what] \/ to = where BY <1>3, <2>2 DEF Comes
    <3>2. d.type[d.home[what]] \in Near BY <2>2, <1>1 DEF HomeOK, Near, Containers
    <3>3. to # HOME BY Names
    <3> QED BY <3>1, <3>2, <3>3, <2>2, <1>4 DEF PlaceFor
  <2> QED BY <2>1, <2>2
<1> QED BY <1>4, <1>5, ShiftedKeeps

LEMMA EnteredIs ==
    ASSUME NEW d, NEW D, NEW what \in Objs, NEW where \in Refs \cup {HOME},
           Good(d, D), PlaceFor(d, what, where), d.type[what] # "garbage"
    PROVE  Entered(d, what, where) \in Refs /\ PlaceFor(d, what, Entered(d, what, where))
<1>1. d \in Db /\ Sound(d, D) /\ HomeOK(d, D) BY DEF Good, Sound
<1>2. Lands(d, D, what, Fallback(d, what)) BY <1>1, FallbackIs
<1> DEFINE loc == IF where = HOME THEN d.home[what] ELSE where
<1>3. loc \in Refs BY <1>1 DEF Db
<1>4. PlaceFor(d, what, loc) /\ PlaceFor(d, what, d.home[what])
  BY <1>1, Names DEF HomeOK, Near, Containers, PlaceFor, Refs
<1>5. Entered(d, what, where) = Fallback(d, what) \/ Entered(d, what, where) = loc
  BY DEF Entered
<1> HIDE DEF loc
<1>6. Fallback(d, what) \in Refs /\ PlaceFor(d, what, Fallback(d, what))
  BY <1>2, <1>4 DEF Lands, Stays, Refs, PlaceFor
<1> QED BY <1>3, <1>4, <1>5, <1>6

LEMMA EnterRoomKeeps ==
    ASSUME NEW d, NEW D, NEW what \in Objs, NEW where \in Refs \cup {HOME},
           Good(d, D), PlaceFor(d, what, where)
    PROVE  Steady(d, EnterRoom(d, what, where), D)
<1>1. Steady(d, d, D) BY DEF Steady
<1>2. CASE d.type[what] = "garbage"
  <2>1. Moveto(d, what, Entered(d, what, where)) = d BY <1>2 DEF Moveto
  <2> QED BY <1>1, <2>1 DEF EnterRoom
<1>3. CASE d.type[what] # "garbage"
  <2> DEFINE to == Entered(d, what, where)
  <2>1. to \in Refs \cup {HOME} /\ PlaceFor(d, what, to) BY <1>3, EnteredIs
  <2> HIDE DEF to
  <2>2. Steady(d, Moveto(d, what, to), D) BY <2>1, MovetoKeeps
  <2> QED BY <1>1, <2>2 DEF EnterRoom, to
<1> QED BY <1>2, <1>3

-----------------------------------------------------------------------------
(* Frames. *)

\* A list that is sent is that of a room, thing or player, or of what was one;
\* what is still to be moved is no player; who is to be toaded is one, and who
\* toads him and who inherits are others.
FrameOK(d, f) ==
    /\ f.does \in {"send", "sending"} => d.type[f.loc] \in Near
    /\ f.does = "moveto" => d.type[f.what] # "player"
    /\ f.does = "toad" => /\ d.type[f.what] = "player" /\ d.type[f.by] = "player"
                          /\ d.type[f.recipient] = "player" /\ f.what \notin {f.by, f.recipient}
FramesOK(d, t) ==
    \A i \in 1 .. Len(t) : FrameOK(d, t[i]) /\ (t[i].does = "toad" => i = Len(t))

\* What a movement leaves to do: no @toad, and nothing is recycled.
Plain(d, f) ==
    /\ f \in Seq(Frames)
    /\ \A i \in 1 .. Len(f) : FrameOK(d, f[i]) /\ f[i].does \notin {"toad", "recycling"}

LEMMA PlainOne ==
    ASSUME NEW d, NEW f \in Frames, FrameOK(d, f), f.does \notin {"toad", "recycling"}
    PROVE  Plain(d, <<f>>)
BY DEF Plain

LEMMA PlainTwo ==
    ASSUME NEW d, NEW f \in Frames, NEW g \in Frames, Plain(d, <<f>>), Plain(d, <<g>>)
    PROVE  Plain(d, <<f, g>>)
<1>1. \A x \in Frames : Plain(d, <<x>>) => FrameOK(d, x) /\ x.does \notin {"toad", "recycling"}
  BY DEF Plain
<1>2. FrameOK(d, f) /\ f.does \notin {"toad", "recycling"}
      /\ FrameOK(d, g) /\ g.does \notin {"toad", "recycling"}
  BY <1>1
<1>3. <<f, g>> \in Seq(Frames) /\ Len(<<f, g>>) = 2 /\ <<f, g>>[1] = f /\ <<f, g>>[2] = g
  OBVIOUS
<1>4. \A i \in 1 .. 2 : i = 1 \/ i = 2 OBVIOUS
<1> QED BY <1>2, <1>3, <1>4 DEF Plain

LEMMA PlainNone ==
    ASSUME NEW d
    PROVE  Plain(d, << >>)
BY DEF Plain

LEMMA PlainBoth ==
    ASSUME NEW d, NEW f, NEW g, Plain(d, f), Plain(d, g)
    PROVE  Plain(d, f \o g)
<1>1. f \in Seq(Frames) /\ g \in Seq(Frames) /\ f \o g \in Seq(Frames) BY DEF Plain
<1>2. ASSUME NEW i \in 1 .. Len(f \o g)
      PROVE  FrameOK(d, (f \o g)[i]) /\ (f \o g)[i].does \notin {"toad", "recycling"}
  <2>1. CASE i \in 1 .. Len(f)
    <3>1. (f \o g)[i] = f[i] BY <1>1, <2>1
    <3> QED BY <2>1, <3>1 DEF Plain
  <2>2. CASE i \notin 1 .. Len(f)
    <3>1. (f \o g)[i] = g[i - Len(f)] /\ i - Len(f) \in 1 .. Len(g) BY <1>1, <2>2
    <3> QED BY <3>1 DEF Plain
  <2> QED BY <2>1, <2>2
<1> QED BY <1>1, <1>2 DEF Plain

\* A movement, and what it leaves to do.
Fine(d, m, D) ==
    /\ m = [db |-> m.db, then |-> m.then]
    /\ Steady(d, m.db, D) /\ Plain(d, m.then)

LEMMA EntersFine ==
    ASSUME NEW d, NEW D, NEW what \in Objs, NEW where \in Refs \cup {HOME},
           Good(d, D), PlaceFor(d, what, where)
    PROVE  Fine(d, Enters(d, what, where), D)
<1> DEFINE old == d.location[what]
           arrive == [does |-> "arrive"]
           depart == [does |-> "depart", old |-> old]
<1>1. Steady(d, EnterRoom(d, what, where), D) BY EnterRoomKeeps, Zenon
<1>2. Plain(d, <<arrive>>)
  <2>1. arrive \in Frames /\ arrive.does = "arrive" BY DEF Frames
  <2>2. FrameOK(d, arrive) /\ arrive.does \notin {"toad", "recycling"}
    BY <2>1 DEF FrameOK
  <2> QED BY <2>1, <2>2, PlainOne
<1>3. old # NOTHING => Plain(d, <<depart>>)
  <2> SUFFICES ASSUME old # NOTHING PROVE Plain(d, <<depart>>) OBVIOUS
  <2>1. old \in Objs BY DEF Good, Db, Refs
  <2>2. depart \in Frames /\ depart.does = "depart" BY <2>1 DEF Frames
  <2>3. FrameOK(d, depart) /\ depart.does \notin {"toad", "recycling"}
    BY <2>2 DEF FrameOK
  <2> QED BY <2>2, <2>3, PlainOne
<1>4. old # NOTHING => Plain(d, <<depart, arrive>>)
  <2> SUFFICES ASSUME old # NOTHING PROVE Plain(d, <<depart, arrive>>) OBVIOUS
  <2>1. depart \in Frames /\ arrive \in Frames BY DEF Frames, Good, Db, Refs
  <2> QED BY <2>1, <1>2, <1>3, PlainTwo
<1>5. Afterwards(d, what, where) = <<arrive>>
      \/ (old # NOTHING /\ Afterwards(d, what, where) = <<depart, arrive>>)
  BY DEF Afterwards
<1>6. Plain(d, Afterwards(d, what, where)) BY <1>2, <1>4, <1>5
<1> QED BY <1>1, <1>6 DEF Fine, Enters

LEMMA MovesFine ==
    ASSUME NEW d, NEW D, NEW what \in Objs, NEW where \in Refs \cup {HOME},
           Good(d, D), PlaceFor(d, what, where)
    PROVE  Fine(d, Moves(d, what, where), D)
<1>1. Steady(d, Moveto(d, what, where), D) BY MovetoKeeps, Zenon
<1> QED BY <1>1, PlainNone DEF Fine, Moves

LEMMA ThingMovesFine ==
    ASSUME NEW d, NEW D, NEW what \in Objs, NEW where \in Refs \cup {HOME},
           Good(d, D), PlaceFor(d, what, where)
    PROVE  Fine(d, ThingMoves(d, what, where), D)
BY EntersFine, MovesFine DEF ThingMoves

\* and more to do after that.
LEMMA FineThen ==
    ASSUME NEW d, NEW D, NEW m, NEW g, Fine(d, m, D), Plain(d, g)
    PROVE  Fine(d, [m EXCEPT !.then = @ \o g], D)
<1> DEFINE c == m.then \o g
           e == [m EXCEPT !.then = c]
<1>1. m = [db |-> m.db, then |-> m.then] /\ Steady(d, m.db, D) /\ Plain(d, c)
  BY PlainBoth DEF Fine
<1> HIDE DEF c
<1>2. e = [db |-> m.db, then |-> c] BY <1>1
<1> HIDE DEF e
<1>3. Fine(d, e, D) BY <1>1, <1>2 DEF Fine
<1> QED BY <1>3 DEF e, c

LEMMA FineNow ==
    ASSUME NEW d, NEW D, NEW f, Good(d, D), Plain(d, f)
    PROVE  Fine(d, [db |-> d, then |-> f], D)
BY DEF Fine, Steady

-----------------------------------------------------------------------------
(* The stack of frames. *)

\* What the frames of t recycle.
DoomedIn(t) ==
    {o \in Objs : \E i \in 1 .. Len(t) : t[i].does = "recycling" /\ t[i].thing = o}

\* No two frames recycle the same.
Once(t) ==
    \A i, j \in 1 .. Len(t) :
        (/\ t[i].does = "recycling" /\ t[j].does = "recycling"
         /\ t[i].thing = t[j].thing) => i = j

\* What the theorems are about: the database and the stack.
Whole(d, t) == Good(d, DoomedIn(t)) /\ t \in Seq(Frames) /\ FramesOK(d, t) /\ Once(t)

LEMMA JoinIs ==
    ASSUME NEW S, NEW f \in Seq(S), NEW t \in Seq(S)
    PROVE  /\ f \o t \in Seq(S) /\ Len(f \o t) = Len(f) + Len(t)
           /\ \A i \in 1 .. Len(f) : i \in 1 .. Len(f \o t) /\ (f \o t)[i] = f[i]
           /\ \A i \in 1 .. Len(t) : i + Len(f) \in 1 .. Len(f \o t) /\ (f \o t)[i + Len(f)] = t[i]
           /\ \A i \in 1 .. Len(f \o t) :
                 i \in 1 .. Len(f) \/ (i - Len(f) \in 1 .. Len(t) /\ (f \o t)[i] = t[i - Len(f)])
OBVIOUS

\* Plain frames on top of others.
LEMMA TaskPush ==
    ASSUME NEW d, NEW f, NEW t, Plain(d, f), t \in Seq(Frames), FramesOK(d, t)
    PROVE  /\ f \o t \in Seq(Frames) /\ FramesOK(d, f \o t)
           /\ DoomedIn(f \o t) = DoomedIn(t)
           /\ Once(t) => Once(f \o t)
<1>0. f \in Seq(Frames) BY DEF Plain
<1> DEFINE n == Len(f)
           u == f \o t
<1>1. /\ u \in Seq(Frames) /\ Len(u) = n + Len(t) /\ n \in Nat /\ Len(t) \in Nat
      /\ \A i \in 1 .. n : i \in 1 .. Len(u) /\ u[i] = f[i]
      /\ \A i \in 1 .. Len(t) : i + n \in 1 .. Len(u) /\ u[i + n] = t[i]
      /\ \A i \in 1 .. Len(u) : i \in 1 .. n \/ (i - n \in 1 .. Len(t) /\ u[i] = t[i - n])
  BY <1>0, JoinIs
<1> SUFFICES u \in Seq(Frames) /\ FramesOK(d, u) /\ DoomedIn(u) = DoomedIn(t) /\ (Once(t) => Once(u))
  OBVIOUS
<1> HIDE DEF u, n
<1>p. \A i \in 1 .. n : FrameOK(d, f[i]) /\ f[i].does # "toad" /\ f[i].does # "recycling"
  BY DEF Plain, n
<1>2. FramesOK(d, u)
  <2> SUFFICES ASSUME NEW i \in 1 .. Len(u)
               PROVE  FrameOK(d, u[i]) /\ (u[i].does = "toad" => i = Len(u))
    BY DEF FramesOK
  <2>1. CASE i \in 1 .. n BY <2>1, <1>1, <1>p
  <2>2. CASE i \notin 1 .. n
    <3>1. i - n \in 1 .. Len(t) /\ u[i] = t[i - n] BY <2>2, <1>1
    <3>2. FrameOK(d, t[i - n]) /\ (t[i - n].does = "toad" => i - n = Len(t))
      BY <3>1 DEF FramesOK
    <3> QED BY <3>1, <3>2, <1>1
  <2> QED BY <2>1, <2>2
<1>3. \A o \in Objs : (\E i \in 1 .. Len(u) : u[i].does = "recycling" /\ u[i].thing = o)
                      <=> (\E i \in 1 .. Len(t) : t[i].does = "recycling" /\ t[i].thing = o)
  <2> TAKE o \in Objs
  <2>1. ASSUME NEW i \in 1 .. Len(u), u[i].does = "recycling", u[i].thing = o
        PROVE  \E j \in 1 .. Len(t) : t[j].does = "recycling" /\ t[j].thing = o
    <3>1. i \notin 1 .. n BY <2>1, <1>1, <1>p
    <3>2. i - n \in 1 .. Len(t) /\ u[i] = t[i - n] BY <3>1, <1>1
    <3> QED BY <2>1, <3>2
  <2>2. ASSUME NEW i \in 1 .. Len(t), t[i].does = "recycling", t[i].thing = o
        PROVE  \E j \in 1 .. Len(u) : u[j].does = "recycling" /\ u[j].thing = o
    <3>1. i + n \in 1 .. Len(u) /\ u[i + n] = t[i] BY <1>1
    <3> QED BY <2>2, <3>1
  <2> QED BY <2>1, <2>2
<1>4. DoomedIn(u) = DoomedIn(t) BY <1>3 DEF DoomedIn
<1>5. Once(t) => Once(u)
  <2> SUFFICES ASSUME Once(t), NEW i \in 1 .. Len(u), NEW j \in 1 .. Len(u),
                      u[i].does = "recycling", u[j].does = "recycling", u[i].thing = u[j].thing
               PROVE  i = j
    BY DEF Once
  <2>1. i \notin 1 .. n /\ j \notin 1 .. n BY <1>1, <1>p
  <2>2. /\ i - n \in 1 .. Len(t) /\ u[i] = t[i - n]
        /\ j - n \in 1 .. Len(t) /\ u[j] = t[j - n]
    BY <2>1, <1>1
  <2>3. i - n = j - n BY <2>2 DEF Once
  <2> QED BY <2>3, <1>1
<1> QED BY <1>1, <1>2, <1>4, <1>5

\* The stack without its top,
LEMMA TaskPop ==
    ASSUME NEW d, NEW t, t # << >>, t \in Seq(Frames), FramesOK(d, t)
    PROVE  /\ Head(t) \in Frames /\ FrameOK(d, Head(t)) /\ Tail(t) \in Seq(Frames)
           /\ FramesOK(d, Tail(t))
           /\ Head(t).does = "recycling" => DoomedIn(t) = DoomedIn(Tail(t)) \cup {Head(t).thing}
           /\ Head(t).does # "recycling" => DoomedIn(t) = DoomedIn(Tail(t))
           /\ Head(t).does = "toad" => Tail(t) = << >>
           /\ Once(t) => /\ Once(Tail(t))
                         /\ Head(t).does = "recycling" => Head(t).thing \notin DoomedIn(Tail(t))
<1> DEFINE u == Tail(t)
<1>1. /\ t \in Seq(Frames) /\ u \in Seq(Frames) /\ Len(u) = Len(t) - 1 /\ Len(t) \in Nat /\ 1 \in 1 .. Len(t)
      /\ \A i \in 1 .. Len(u) : i + 1 \in 1 .. Len(t) /\ u[i] = t[i + 1]
      /\ \A i \in 1 .. Len(t) : i = 1 \/ i - 1 \in 1 .. Len(u)
      /\ Head(t) = t[1]
  <2>1. /\ Head(t) \in Frames /\ Tail(t) \in Seq(Frames) /\ Len(Tail(t)) = Len(t) - 1
        /\ \A i \in 1 .. Len(Tail(t)) : Tail(t)[i] = t[i + 1]
    BY HeadTailProperties
  <2>2. Len(t) \in Nat /\ Len(t) # 0 /\ Head(t) = t[1] BY EmptySeq
  <2> QED BY <2>1, <2>2
<1>2. Head(t) \in Frames /\ FrameOK(d, Head(t)) /\ (Head(t).does = "toad" => Len(t) = 1)
  <2>1. 1 \in 1 .. Len(t) /\ Head(t) = t[1] /\ Head(t) \in Frames
    BY <1>1, HeadTailProperties
  <2>2. FrameOK(d, t[1]) /\ (t[1].does = "toad" => 1 = Len(t)) BY <2>1 DEF FramesOK
  <2> QED BY <2>1, <2>2
<1>3. Head(t).does = "toad" => u = << >> BY <1>1, <1>2, EmptySeq
<1> HIDE DEF u
<1>4. FramesOK(d, u)
  <2> SUFFICES ASSUME NEW i \in 1 .. Len(u)
               PROVE  FrameOK(d, u[i]) /\ (u[i].does = "toad" => i = Len(u))
    BY DEF FramesOK
  <2>1. i + 1 \in 1 .. Len(t) /\ u[i] = t[i + 1] BY <1>1
  <2>2. FrameOK(d, t[i + 1]) /\ (t[i + 1].does = "toad" => i + 1 = Len(t))
    BY <2>1 DEF FramesOK
  <2> QED BY <2>1, <2>2, <1>1
<1>5. \A o \in Objs : (\E i \in 1 .. Len(t) : t[i].does = "recycling" /\ t[i].thing = o)
        <=> \/ (\E i \in 1 .. Len(u) : u[i].does = "recycling" /\ u[i].thing = o)
            \/ Head(t).does = "recycling" /\ Head(t).thing = o
  <2> TAKE o \in Objs
  <2>1. ASSUME NEW i \in 1 .. Len(t), t[i].does = "recycling", t[i].thing = o, i # 1
        PROVE  \E j \in 1 .. Len(u) : u[j].does = "recycling" /\ u[j].thing = o
    <3>1. i - 1 \in 1 .. Len(u) BY <1>1, <2>1
    <3>2. u[i - 1] = t[(i - 1) + 1] /\ (i - 1) + 1 = i BY <3>1, <1>1
    <3> QED BY <2>1, <3>1, <3>2
  <2>2. ASSUME NEW i \in 1 .. Len(u), u[i].does = "recycling", u[i].thing = o
        PROVE  \E j \in 1 .. Len(t) : t[j].does = "recycling" /\ t[j].thing = o
    <3>1. i + 1 \in 1 .. Len(t) /\ u[i] = t[i + 1] BY <1>1
    <3> QED BY <2>2, <3>1
  <2> QED BY <2>1, <2>2, <1>1
<1>6. Head(t).does # "recycling" => DoomedIn(t) = DoomedIn(u) BY <1>5 DEF DoomedIn
<1>7. Head(t).does = "recycling" => DoomedIn(t) = DoomedIn(u) \cup {Head(t).thing}
  <2> SUFFICES ASSUME Head(t).does = "recycling" PROVE DoomedIn(t) = DoomedIn(u) \cup {Head(t).thing}
    OBVIOUS
  <2>1. Head(t).thing \in Objs BY Zenon, <1>2 DEF Frames
  <2> DEFINE x == Head(t).thing
  <2>2. \A o \in Objs : o \in DoomedIn(t) <=> o \in DoomedIn(u) \/ o = x
    BY <1>5 DEF DoomedIn
  <2>3. DoomedIn(t) \subseteq Objs /\ DoomedIn(u) \subseteq Objs BY DEF DoomedIn
  <2> HIDE DEF x
  <2> QED BY <2>1, <2>2, <2>3 DEF x
<1>8. Once(t) => Once(u)
  <2> SUFFICES ASSUME Once(t), NEW i \in 1 .. Len(u), NEW j \in 1 .. Len(u),
                      u[i].does = "recycling", u[j].does = "recycling", u[i].thing = u[j].thing
               PROVE  i = j
    BY DEF Once
  <2>1. /\ i + 1 \in 1 .. Len(t) /\ u[i] = t[i + 1]
        /\ j + 1 \in 1 .. Len(t) /\ u[j] = t[j + 1]
    BY <1>1
  <2>2. i + 1 = j + 1 BY <2>1 DEF Once
  <2> QED BY <2>2
<1>9. Once(t) /\ Head(t).does = "recycling" => Head(t).thing \notin DoomedIn(u)
  <2> SUFFICES ASSUME Once(t), Head(t).does = "recycling", NEW i \in 1 .. Len(u),
                      u[i].does = "recycling", u[i].thing = Head(t).thing
               PROVE  FALSE
    BY DEF DoomedIn
  <2>1. i + 1 \in 1 .. Len(t) /\ u[i] = t[i + 1] /\ Head(t) = t[1] /\ 1 \in 1 .. Len(t)
    BY <1>1
  <2>2. i + 1 = 1 BY <2>1 DEF Once
  <2> QED BY <2>2
<1> QED BY <1>1, <1>2, <1>3, <1>4, <1>6, <1>7, <1>8, <1>9 DEF u

LEMMA SteadyFrames ==
    ASSUME NEW d, NEW e, NEW D, NEW t, Steady(d, e, D), FramesOK(d, t)
    PROVE  FramesOK(e, t)
BY DEF Steady, FramesOK, FrameOK

LEMMA SteadyPlain ==
    ASSUME NEW d, NEW e, NEW D, NEW f, Steady(d, e, D), Plain(d, f)
    PROVE  Plain(e, f)
BY DEF Steady, Plain, FrameOK

\* A movement by a program, on top of the stack;
LEMMA PushKeeps ==
    ASSUME NEW d, NEW t, NEW m, Whole(d, t), Fine(d, m, DoomedIn(t))
    PROVE  Whole(m.db, m.then \o t)
<1>1. /\ Good(m.db, DoomedIn(t)) /\ FramesOK(m.db, t) /\ Plain(m.db, m.then)
      /\ t \in Seq(Frames) /\ Once(t)
  BY SteadyFrames, SteadyPlain DEF Whole, Fine, Steady
<1>2. /\ m.then \o t \in Seq(Frames) /\ FramesOK(m.db, m.then \o t)
      /\ DoomedIn(m.then \o t) = DoomedIn(t) /\ Once(m.then \o t)
  BY <1>1, TaskPush
<1> DEFINE u == m.then \o t
<1> HIDE DEF u
<1>3. Whole(m.db, u) BY <1>1, <1>2 DEF Whole, u
<1> QED BY <1>3 DEF u

\* a step of the frame at the top;
LEMMA ContinueKeeps ==
    ASSUME NEW d, NEW t, NEW m, Whole(d, t), t # << >>, Head(t).does # "recycling",
           Fine(d, m, DoomedIn(t))
    PROVE  Whole(m.db, m.then \o Tail(t))
<1> DEFINE u == Tail(t)
<1>1. FramesOK(d, u) /\ u \in Seq(Frames) /\ DoomedIn(u) = DoomedIn(t) /\ Once(u)
  BY TaskPop DEF Whole
<1> HIDE DEF u
<1>2. Whole(d, u) /\ Fine(d, m, DoomedIn(u)) BY <1>1 DEF Whole
<1>3. Whole(m.db, m.then \o u) BY <1>2, PushKeeps
<1> QED BY <1>3 DEF u

\* a command.
LEMMA NoneDoomed == DoomedIn(<< >>) = {}
BY DEF DoomedIn

LEMMA StartKeeps ==
    ASSUME NEW d, NEW m, Whole(d, << >>), Fine(d, m, {})
    PROVE  Whole(m.db, m.then)
<1>1. Whole(m.db, m.then \o << >>) BY NoneDoomed, PushKeeps
<1>2. m.then \in Seq(Frames) BY DEF Fine, Plain
<1>3. m.then \o << >> = m.then BY <1>2, ConcatEmptySeq
<1> QED BY <1>1, <1>3

-----------------------------------------------------------------------------
(* The invariant, and the steps of a command. *)

Inv == Whole(db, task) /\ ran \in 0 .. MaxPrograms

LEMMA HeadIs ==
    ASSUME NEW d, NEW t, Whole(d, t), t # << >>
    PROVE  /\ Head(t) \in Frames /\ FrameOK(d, Head(t)) /\ Good(d, DoomedIn(t))
BY Zenon, TaskPop DEF Whole

LEMMA ContinueStep ==
    ASSUME NEW m, Inv, Continue(m), task # << >>, Head(task).does # "recycling",
           Fine(db, m, DoomedIn(task))
    PROVE  Inv'
<1>1. Whole(m.db, m.then \o Tail(task)) BY ContinueKeeps DEF Inv
<1>2. Whole(db', task') BY <1>1 DEF Continue
<1> QED BY Zenon, <1>2 DEF Inv, Continue, Whole, Good, Sound, Fixed, OwnerOK, HomeOK, DroptoOK, PlayersAt, InPlace, FramesOK, FrameOK, DoomedIn, Once

LEMMA ArriveKeeps == Inv /\ Arrive => Inv'
<1> SUFFICES ASSUME Inv, Arrive PROVE Inv' OBVIOUS
<1> DEFINE m == [db |-> db, then |-> << >>]
<1>1. task # << >> /\ Head(task).does # "recycling" /\ Continue(m)
  BY DEF Arrive, Doing
<1>2. Good(db, DoomedIn(task)) BY <1>1, HeadIs DEF Inv
<1>3. Fine(db, m, DoomedIn(task)) BY <1>2, PlainNone, FineNow
<1> HIDE DEF m
<1> QED BY <1>1, <1>3, ContinueStep

LEMMA EnterKeeps == Inv /\ Enter => Inv'
<1> SUFFICES ASSUME Inv, Enter PROVE Inv' OBVIOUS
<1> DEFINE what == Head(task).what
           m == Enters(db, what, HOME)
<1>1. task # << >> /\ Head(task).does = "enter" /\ Continue(m) BY DEF Enter, Doing
<1>2. Good(db, DoomedIn(task)) /\ Head(task) \in Frames BY <1>1, HeadIs DEF Inv
<1>3. what \in Objs BY Zenon, <1>1, <1>2 DEF Frames
<1> HIDE DEF what
<1>4. PlaceFor(db, what, HOME) /\ HOME \in Refs \cup {HOME} BY DEF PlaceFor
<1>5. Fine(db, m, DoomedIn(task)) BY <1>2, <1>3, <1>4, EntersFine
<1> HIDE DEF m
<1> QED BY <1>1, <1>5, ContinueStep

LEMMA MoveOnKeeps == Inv /\ MoveOn => Inv'
<1> SUFFICES ASSUME Inv, MoveOn PROVE Inv' OBVIOUS
<1> DEFINE what == Head(task).what
           where == Head(task).where
           m == Moves(db, what, where)
<1>1. task # << >> /\ Head(task).does = "moveto" /\ Continue(m) BY DEF MoveOn, Doing
<1>2. Good(db, DoomedIn(task)) /\ Head(task) \in Frames /\ FrameOK(db, Head(task))
  BY <1>1, HeadIs DEF Inv
<1>3. what \in Objs /\ where \in Refs \cup {HOME} /\ PlaceFor(db, what, where)
  <2>1. what \in Objs /\ where \in Objs BY Zenon, <1>1, <1>2 DEF Frames
  <2>2. db.type[what] # "player" BY <1>1, <1>2 DEF FrameOK
  <2> QED BY <2>1, <2>2 DEF PlaceFor, Refs
<1> HIDE DEF what, where
<1>5. Fine(db, m, DoomedIn(task)) BY <1>2, <1>3, MovesFine
<1> HIDE DEF m
<1> QED BY <1>1, <1>5, ContinueStep

\* Sent home: a frame.
LEMMA SendHomePlain ==
    ASSUME NEW d, NEW thing \in Objs, NEW puppet \in BOOLEAN
    PROVE  Plain(d, <<[does |-> "send home", thing |-> thing, puppethome |-> puppet]>>)
<1> DEFINE f == [does |-> "send home", thing |-> thing, puppethome |-> puppet]
<1>1. f \in Frames /\ f.does = "send home" BY Zenon DEF Frames
<1> HIDE DEF f
<1>2. Plain(d, <<f>>) BY Zenon, <1>1, PlainOne DEF FrameOK
<1> QED BY Zenon, <1>2 DEF f

LEMMA SendHomeKeeps == Inv /\ SendHome => Inv'
<1> SUFFICES ASSUME Inv, SendHome PROVE Inv' OBVIOUS
<1> DEFINE thing == Head(task).thing
           enter == [does |-> "enter", what |-> thing]
           send == [does |-> "send", loc |-> thing, dest |-> HOME]
           goes == <<enter>>
           again == [does |-> "send home", thing |-> thing, puppethome |-> FALSE]
           puppet == Head(task).puppethome
           m == CASE db.type[thing] = "player" -> [db |-> db, then |-> <<send>> \o goes]
                  [] db.type[thing] = "thing" /\ puppet -> [db |-> db, then |-> <<send>> \o <<again>>]
                  [] /\ db.type[thing] = "thing" /\ ~puppet
                     /\ tp_thing_movement \/ thing \in Zombie \cup Listener ->
                       [db |-> db, then |-> goes]
                  [] OTHER -> Moves(db, thing, HOME)
           D == DoomedIn(task)
<1>1. task # << >> /\ Head(task).does = "send home" /\ Continue(m)
  BY Zenon DEF SendHome, Doing
<1>2. Good(db, D) /\ Head(task) \in Frames BY Zenon, <1>1, HeadIs DEF Inv
<1>3. thing \in Objs BY Zenon, <1>1, <1>2 DEF Frames
<1>a. Plain(db, <<again>>) BY <1>3, SendHomePlain
<1> HIDE DEF thing, puppet, again, D
<1>4. Plain(db, goes)
  <2>1. enter \in Frames /\ enter.does = "enter" BY <1>3 DEF Frames
  <2>2. FrameOK(db, enter) /\ enter.does \notin {"toad", "recycling"}
    BY <2>1 DEF FrameOK
  <2> QED BY <2>1, <2>2, PlainOne
<1>5. db.type[thing] \in {"player", "thing"} => Plain(db, <<send>>)
  <2> SUFFICES ASSUME db.type[thing] \in {"player", "thing"} PROVE Plain(db, <<send>>) OBVIOUS
  <2>1. send \in Frames /\ send.does = "send" /\ send.loc = thing
    BY Zenon, <1>3 DEF Frames
  <2>2. FrameOK(db, send) /\ send.does \notin {"toad", "recycling"}
    BY <2>1 DEF FrameOK, Near, Containers
  <2> QED BY <2>1, <2>2, PlainOne
<1> HIDE DEF goes, send
<1>6. Fine(db, [db |-> db, then |-> goes], D) BY <1>2, <1>4, FineNow
<1>7. ASSUME NEW g, Plain(db, g), db.type[thing] \in {"player", "thing"}
      PROVE  Fine(db, [db |-> db, then |-> <<send>> \o g], D)
  <2> DEFINE f == <<send>> \o g
  <2>1. Plain(db, f) BY <1>5, <1>7, PlainBoth
  <2> HIDE DEF f
  <2>2. Fine(db, [db |-> db, then |-> f], D) BY <1>2, <2>1, FineNow
  <2> QED BY <2>2 DEF f
<1>8. Fine(db, Moves(db, thing, HOME), D)
  <2>1. PlaceFor(db, thing, HOME) /\ HOME \in Refs \cup {HOME} BY DEF PlaceFor
  <2> QED BY <1>2, <1>3, <2>1, MovesFine
<1>b. db.type[thing] = "player" => Fine(db, [db |-> db, then |-> <<send>> \o goes], D)
  BY <1>4, <1>7
<1>c. db.type[thing] = "thing" => Fine(db, [db |-> db, then |-> <<send>> \o <<again>>], D)
  <2> DEFINE g == <<again>>
  <2>1. Plain(db, g) BY <1>a
  <2> HIDE DEF g
  <2>2. db.type[thing] = "thing" => Fine(db, [db |-> db, then |-> <<send>> \o g], D) BY <2>1, <1>7
  <2> QED BY <2>2 DEF g
<1>9. Fine(db, m, D) BY <1>6, <1>b, <1>c, <1>8, Zenon
<1> HIDE DEF m
<1> QED BY Zenon, <1>1, <1>9, ContinueStep DEF D

LEMMA DepartKeeps == Inv /\ Depart => Inv'
<1> SUFFICES ASSUME Inv, Depart PROVE Inv' OBVIOUS
<1> DEFINE old == Head(task).old
           dropto == db.dropto[old]
           sends == /\ db.type[old] = "room" /\ old \in Sticky
                    /\ dropto \notin {NOTHING, old}
                    /\ \A o \in Members(db, db.contents[old]) :
                          db.type[o] # "player" /\ o \notin Zombie
           send == [does |-> "send", loc |-> old, dest |-> dropto]
           f == IF sends THEN <<send>> ELSE << >>
           m == [db |-> db, then |-> f]
           D == DoomedIn(task)
<1>1. task # << >> /\ Head(task).does = "depart" /\ Continue(m) BY DEF Depart, Doing
<1>2. Good(db, D) /\ Head(task) \in Frames BY <1>1, HeadIs DEF Inv
<1>3. old \in Objs BY Zenon, <1>1, <1>2 DEF Frames
<1> HIDE DEF old, D
<1>4. sends => Plain(db, <<send>>)
  <2> SUFFICES ASSUME sends PROVE Plain(db, <<send>>) OBVIOUS
  <2>1. dropto \in Objs \cup {HOME} BY <1>2, <1>3 DEF Good, Db, Refs
  <2>2. db.type[old] = "room" OBVIOUS
  <2> HIDE DEF dropto, sends
  <2>3. send \in Frames /\ send.does = "send" /\ send.loc = old
    BY Zenon, <1>3, <2>1 DEF Frames
  <2>4. FrameOK(db, send) /\ send.does \notin {"toad", "recycling"}
    BY <2>2, <2>3 DEF FrameOK, Near, Containers
  <2> QED BY <2>3, <2>4, PlainOne
<1>5. Plain(db, f) BY <1>4, PlainNone
<1> HIDE DEF f
<1>6. Fine(db, m, D) BY <1>2, <1>5, FineNow
<1> HIDE DEF m
<1> QED BY <1>1, <1>6, ContinueStep DEF D

LEMMA SendingKeeps == Inv /\ Sending => Inv'
<1> SUFFICES ASSUME Inv, Sending PROVE Inv' OBVIOUS
<1> DEFINE walk == Head(task)
           first == walk.first
           where == IF first \in Sticky THEN HOME ELSE walk.dest
           fits == IF ParentLoopCheck(db, first, where) THEN walk.loc ELSE where
           move == IF db.type[first] \notin {"thing", "program"}
                     THEN Moves(db, first, walk.loc)
                     ELSE ThingMoves(db, first, fits)
           rest == [walk EXCEPT !.first = db.next[first]]
           m == [move EXCEPT !.then = @ \o <<rest>>]
           D == DoomedIn(task)
<1>1. task # << >> /\ walk.does = "sending" /\ Continue(m) /\ first # NOTHING
  BY Zenon DEF Sending, Doing
<1>2. Good(db, D) /\ walk \in Frames /\ FrameOK(db, walk) BY <1>1, HeadIs DEF Inv
<1>3. /\ walk \in [does : {"sending"}, loc : Objs, dest : Objs \cup {HOME}, first : Refs]
      /\ first \in Objs /\ db.next[first] \in Refs /\ db.type[walk.loc] \in Near
  <2>1. walk \in [does : {"sending"}, loc : Objs, dest : Objs \cup {HOME}, first : Refs]
    BY Zenon, <1>1, <1>2 DEF Frames
  <2>2. first \in Objs BY <1>1, <2>1 DEF Refs
  <2> QED BY <1>1, <1>2, <2>1, <2>2 DEF Good, Db, FrameOK
<1> HIDE DEF walk, D
<1>4. Plain(db, <<rest>>)
  <2>1. rest \in Frames /\ rest.does = "sending" /\ rest.loc = walk.loc
    BY Zenon, <1>3 DEF Frames
  <2>2. FrameOK(db, rest) /\ rest.does \notin {"toad", "recycling"}
    BY <2>1, <1>3 DEF FrameOK
  <2> QED BY <2>1, <2>2, PlainOne
<1>5. Fine(db, move, D)
  <2>1. CASE db.type[first] \notin {"thing", "program"}
    <3>1. PlaceFor(db, first, walk.loc) /\ walk.loc \in Refs \cup {HOME}
      BY <1>3 DEF PlaceFor, Refs
    <3>2. Fine(db, Moves(db, first, walk.loc), D) BY <1>2, <1>3, <3>1, MovesFine
    <3> QED BY <2>1, <3>2
  <2>2. CASE db.type[first] \in {"thing", "program"}
    <3>1. fits \in Refs \cup {HOME} BY <1>3 DEF Refs
    <3> HIDE DEF fits
    <3>2. PlaceFor(db, first, fits) BY <2>2 DEF PlaceFor
    <3>3. Fine(db, ThingMoves(db, first, fits), D)
      BY <1>2, <1>3, <3>1, <3>2, ThingMovesFine
    <3> QED BY <2>2, <3>3
  <2> QED BY <2>1, <2>2
<1> HIDE DEF move, rest
<1>6. Fine(db, m, D) BY <1>4, <1>5, FineThen
<1> HIDE DEF m
<1> QED BY <1>1, <1>6, ContinueStep DEF D, walk

LEMMA SentKeeps == Inv /\ Sent => Inv'
<1> SUFFICES ASSUME Inv, Sent PROVE Inv' OBVIOUS
<1> DEFINE loc == Head(task).loc
           e == ReverseContents(db, loc)
           m == [db |-> e, then |-> << >>]
           D == DoomedIn(task)
<1>1. task # << >> /\ Head(task).does = "sending" /\ Continue(m) BY DEF Sent, Doing
<1>2. Good(db, D) /\ Head(task) \in Frames BY <1>1, HeadIs DEF Inv
<1>3. loc \in Objs BY Zenon, <1>1, <1>2 DEF Frames
<1> HIDE DEF loc, D
<1>4. PICK h : Threaded(db, h) /\ Placed(db, h, D) BY <1>2 DEF Good, InPlace
<1>5. Relinked(db, e, h) BY <1>2, <1>3, <1>4, ReverseThreads DEF Good
<1> HIDE DEF e
<1>6. Steady(db, e, D)
  <2>1. OnlyLists(db, e) /\ Threaded(e, h) BY <1>5 DEF Relinked
  <2>2. Sound(e, D) BY <1>2, <2>1, OnlyListsSound DEF Good
  <2>3. Placed(e, h, D) /\ PlayersAt(e) /\ e \in Db /\ e.type = db.type
    BY <1>2, <1>4, <2>1 DEF Good, Placed, PlayersAt, OnlyLists
  <2> QED BY <2>1, <2>2, <2>3 DEF Steady, Good, InPlace
<1>7. Fine(db, m, D) BY <1>6, PlainNone DEF Fine
<1> HIDE DEF m
<1> QED BY <1>1, <1>7, ContinueStep DEF D

\* send_contents() takes a whole list off.
ListOff(d, loc) ==
    [d EXCEPT !.contents[loc] = NOTHING,
              !.location = [o \in Objs |-> IF o \in Members(d, d.contents[loc]) THEN NOTHING ELSE @[o]]]

LEMMA ListOffKeeps ==
    ASSUME NEW d, NEW D, NEW loc \in Objs, Good(d, D)
    PROVE  Steady(d, ListOff(d, loc), D)
<1> DEFINE e == ListOff(d, loc)
           gone == Members(d, d.contents[loc])
<1> SUFFICES Steady(d, e, D) OBVIOUS
<1>0. d \in Db /\ Sound(d, D) /\ PlayersAt(d) BY DEF Good
<1>1. PICK h : Threaded(d, h) /\ Placed(d, h, D) BY DEF Good, InPlace
<1>2. PICK B : \E r : Linked(Objs, Heads, NOTHING, Firsts(d), d.next, h, r, B)
  BY <1>1 DEF Threaded
<1>3. PICK r : Linked(Objs, Heads, NOTHING, Firsts(d), d.next, h, r, B) BY <1>2
<1>f. /\ Firsts(d) \in [Heads -> Refs] /\ Firsts(d)[Free] = d.recyclable
      /\ \A l \in Objs : Firsts(d)[l] = d.contents[l]
      /\ d.next \in [Objs -> Refs] /\ d.contents \in [Objs -> Refs] /\ d.recyclable \in Refs
  BY <1>0, FirstsTyped, Zenon
<1>l. loc \in Heads /\ loc # NOTHING /\ loc # Free /\ \A l \in Heads : l = Free \/ l \in Objs
  BY Names DEF Heads
<1>m. \A x : x \in gone <=> x \in Objs /\ h[x] = loc
  <2>1. HoldsOf(Objs, h, loc, Members(d, d.contents[loc]))
    BY <1>3, <1>f, <1>l, ListMembers
  <2> QED BY <2>1 DEF HoldsOf
<1>4. e = [d EXCEPT !.contents[loc] = NOTHING,
                    !.location = [o \in Objs |-> IF o \in gone THEN NOTHING ELSE @[o]]]
  BY DEF ListOff
<1> HIDE DEF e, gone
<1>5. /\ e \in Db /\ e.type = d.type /\ e.home = d.home /\ e.owner = d.owner
      /\ e.dropto = d.dropto /\ e.recyclable = d.recyclable /\ e.next = d.next
      /\ e.contents = [d.contents EXCEPT ![loc] = NOTHING]
      /\ e.location = [o \in Objs |-> IF o \in gone THEN NOTHING ELSE d.location[o]]
  <2>1. NOTHING \in Refs BY DEF Refs
  <2>2. [o \in Objs |-> IF o \in gone THEN NOTHING ELSE d.location[o]] \in [Objs -> Refs]
    BY <1>0, <2>1 DEF Db
  <2> QED BY <1>0, <1>4, <2>1, <2>2 DEF Db
<1>6. Sound(e, D) BY <1>0, <1>5 DEF Sound, Fixed, OwnerOK, HomeOK, DroptoOK
<1>7. PlayersAt(e) BY <1>0, <1>5 DEF PlayersAt
<1>8. Firsts(e) = [Firsts(d) EXCEPT ![loc] = NOTHING] BY <1>5, <1>f, <1>l DEF Firsts
<1>9. Linked(Objs, Heads, NOTHING, [Firsts(d) EXCEPT ![loc] = NOTHING], d.next, Emptied(Objs, NOTHING, h, loc), r, B)
  BY <1>3, <1>l, Names, ChainTake
<1>10. Threaded(e, Emptied(Objs, NOTHING, h, loc)) BY <1>5, <1>8, <1>9 DEF Threaded
<1>11. Placed(e, Emptied(Objs, NOTHING, h, loc), D)
  <2>1. /\ \A x \in Objs : Emptied(Objs, NOTHING, h, loc)[x] = IF h[x] = loc THEN NOTHING ELSE h[x]
        /\ \A x \in Objs : e.location[x] = IF h[x] = loc THEN NOTHING ELSE d.location[x]
        /\ e.type = d.type
    BY <1>5, <1>m DEF Emptied
  <2>2. NOTHING \notin Objs /\ Free # NOTHING BY Names DEF Free, NOTHING
  <2> QED BY <1>1, <1>l, <2>1, <2>2 DEF Placed
<1> QED BY <1>5, <1>6, <1>7, <1>10, <1>11 DEF Steady, Good, InPlace

LEMMA SendKeeps == Inv /\ Send => Inv'
<1> SUFFICES ASSUME Inv, Send PROVE Inv' OBVIOUS
<1> DEFINE loc == Head(task).loc
           dest == Head(task).dest
           first == db.contents[loc]
           e == ListOff(db, loc)
           walk == [does |-> "sending", loc |-> loc, dest |-> dest, first |-> first]
           m == [db |-> e, then |-> <<walk>>]
           D == DoomedIn(task)
<1>1. task # << >> /\ Head(task).does = "send" /\ Continue(m)
  BY DEF Send, Doing, ListOff
<1>2. Good(db, D) /\ Head(task) \in Frames /\ FrameOK(db, Head(task))
  BY <1>1, HeadIs DEF Inv
<1>3. loc \in Objs /\ dest \in Objs \cup {HOME} /\ db.type[loc] \in Near
  BY Zenon, <1>1, <1>2 DEF Frames, FrameOK
<1>4. first \in Refs BY <1>2, <1>3 DEF Good, Db
<1> HIDE DEF loc, dest, first, D
<1>5. Plain(db, <<walk>>)
  <2>1. walk \in Frames /\ walk.does = "sending" /\ walk.loc = loc
    BY Zenon, <1>3, <1>4 DEF Frames
  <2>2. FrameOK(db, walk) /\ walk.does \notin {"toad", "recycling"}
    BY <2>1, <1>3 DEF FrameOK
  <2> QED BY <2>1, <2>2, PlainOne
<1>6. Steady(db, e, D) BY <1>2, <1>3, ListOffKeeps
<1> HIDE DEF e, walk
<1>7. Fine(db, m, D) BY <1>5, <1>6 DEF Fine
<1> HIDE DEF m
<1> QED BY <1>1, <1>7, ContinueStep DEF D

-----------------------------------------------------------------------------
(* What recycle() does first. *)

UnlinkStep(d, thing, i) == Skipped(Disowned(Rehomed(d, thing, i), thing, i), thing, i)

\* The fields that Rehomed leaves.
OnlyRefs(d, e) ==
    /\ e \in Db /\ e.type = d.type /\ e.location = d.location /\ e.owner = d.owner
    /\ e.contents = d.contents /\ e.next = d.next /\ e.recyclable = d.recyclable

LEMMA RehomedTyped ==
    ASSUME NEW d \in Db, NEW thing \in Objs, NEW o \in Objs
    PROVE  OnlyRefs(d, Rehomed(d, thing, o))
<1> USE DEF OnlyRefs
<1>1. Top \in Refs /\ tp_player_start \in Refs /\ NOTHING \in Refs /\ Objs \subseteq Refs
  BY ObjectsAssumption DEF Refs, Objs, Top
<1>2. OnlyRefs(d, d) OBVIOUS
<1>3. \A x \in Refs : OnlyRefs(d, [d EXCEPT !.dropto[o] = NOTHING]) BY <1>1 DEF Db
<1>4. \A y \in Objs, x \in Refs : OnlyRefs(d, [d EXCEPT !.home[y] = x]) BY DEF Db
<1>5. OnlyRefs(d, Homeless(d, thing, o))
  <2> DEFINE owner == d.owner[o]
             e == IF d.home[owner] = thing
                    THEN [d EXCEPT !.home[owner] = tp_player_start] ELSE d
             home == CASE ~ParentLoopCheck(e, o, e.home[owner]) -> e.home[owner]
                       [] ParentLoopCheck(e, o, e.home[owner]) /\ ~ParentLoopCheck(e, o, owner) -> owner
                       [] OTHER -> Top
  <2>1. owner \in Objs BY DEF Db
  <2>2. OnlyRefs(d, e) BY <2>1, <1>1, <1>2, <1>4
  <2>3. Homeless(d, thing, o) = [e EXCEPT !.home[o] = home] BY DEF Homeless
  <2> HIDE DEF e, owner
  <2>4. home \in Refs
    <3>1. e.home[owner] \in Refs /\ owner \in Refs BY <2>1, <2>2, <1>1 DEF Db
    <3> QED BY <3>1, <1>1
  <2> HIDE DEF home
  <2>5. OnlyRefs(e, [e EXCEPT !.home[o] = home]) BY <2>2, <2>4 DEF Db
  <2> QED BY <2>2, <2>3, <2>5
<1> QED BY <1>1, <1>2, <1>3, <1>4, <1>5 DEF Rehomed

LEMMA DisownedTyped ==
    ASSUME NEW d \in Db, NEW thing \in Objs, NEW o \in Objs
    PROVE  Disowned(d, thing, o) \in Db
<1>1. GOD \in Objs BY ObjectsAssumption DEF Objs, GOD
<1> QED BY <1>1 DEF Disowned, Db

\* Who owns something is a player, and none is recycled.
LEMMA DisownedNot ==
    ASSUME NEW d, OwnerOK(d), NEW thing, d.type[thing] # "player", NEW o \in Objs
    PROVE  Disowned(d, thing, o) = d
BY DEF Disowned, OwnerOK

SkipMade(d, e, thing, o) ==
    /\ e \in Db /\ e.type = d.type /\ e.location = d.location /\ e.owner = d.owner
    /\ e.home = d.home /\ e.dropto = d.dropto /\ e.recyclable = d.recyclable
    /\ \A x \in Objs : e.contents[x] = IF x = o /\ d.contents[x] = thing
                                      THEN d.next[thing] ELSE d.contents[x]
    /\ \A x \in Objs : e.next[x] = IF x = o /\ d.next[x] = thing THEN d.next[thing] ELSE d.next[x]

LEMMA SkippedIs ==
    ASSUME NEW d \in Db, NEW thing \in Objs, NEW o \in Objs
    PROVE  SkipMade(d, Skipped(d, thing, o), thing, o)
<1> DEFINE c == IF d.contents[o] = thing THEN d.next[thing] ELSE d.contents[o]
           n == IF d.next[o] = thing THEN d.next[thing] ELSE d.next[o]
<1>1. c \in Refs /\ n \in Refs BY DEF Db
<1> DEFINE e == Skipped(d, thing, o)
<1>2. e = [d EXCEPT !.contents[o] = c, !.next[o] = n] BY DEF Skipped
<1> HIDE DEF c, n, e
<1>3. /\ e \in Db /\ e.type = d.type /\ e.location = d.location /\ e.owner = d.owner
      /\ e.home = d.home /\ e.dropto = d.dropto /\ e.recyclable = d.recyclable
      /\ e.contents = [d.contents EXCEPT ![o] = c] /\ e.next = [d.next EXCEPT ![o] = n]
  BY <1>1, <1>2 DEF Db
<1>4. d.contents \in [Objs -> Refs] /\ d.next \in [Objs -> Refs] BY DEF Db
<1>5. /\ \A x \in Objs : e.contents[x] = IF x = o THEN c ELSE d.contents[x]
      /\ \A x \in Objs : e.next[x] = IF x = o THEN n ELSE d.next[x]
  BY <1>3, <1>4
<1>6. SkipMade(d, e, thing, o) BY <1>3, <1>5 DEF SkipMade, c, n
<1> QED BY <1>6 DEF e

LEMMA UnlinkedUnfolds ==
    ASSUME NEW d \in Db, NEW thing \in Objs
    PROVE  \E at : /\ at[0] = d
                   /\ \A i \in 1 .. db_top : at[i] = UnlinkStep(at[i - 1], thing, i - 1)
                   /\ Unlinked(d, thing) = at[db_top]
<1> USE ObjectsAssumption
<1> DEFINE F == [i \in 1 .. db_top |-> [x \in Db |-> UnlinkStep(x, thing, i - 1)]]
           Rec(a) == [n \in 0 .. db_top |->
                        IF n = 0 THEN d ELSE Skipped(Disowned(Rehomed(a[n - 1], thing, n - 1), thing, n - 1), thing, n - 1)]
           at == CHOOSE a : a = Rec(a)
<1>0. \A i \in 1 .. db_top : i - 1 \in Objs BY DEF Objs
<1>1. F \in [1 .. db_top -> [Db -> Db]] /\ db_top \in Nat /\ db_top \in 0 .. db_top
  <2>1. \A x \in Db : \A o \in Objs : UnlinkStep(x, thing, o) \in Db
    <3> SUFFICES ASSUME NEW x \in Db, NEW o \in Objs PROVE UnlinkStep(x, thing, o) \in Db
      OBVIOUS
    <3> DEFINE w == Rehomed(x, thing, o)
               y == Disowned(w, thing, o)
    <3>1. w \in Db BY RehomedTyped DEF OnlyRefs
    <3> HIDE DEF w
    <3>2. y \in Db BY <3>1, DisownedTyped
    <3> HIDE DEF y
    <3>3. Skipped(y, thing, o) \in Db BY <3>2, SkippedIs DEF SkipMade
    <3> QED BY <3>3 DEF UnlinkStep, w, y
  <2> QED BY <1>0, <2>1
<1>2. PICK f \in [0 .. db_top -> Db] : Repeats(F, f, d, db_top)
  <2> HIDE DEF F
  <2> QED BY <1>1, RepeatsExists
<1>3. f[0] = d /\ \A i \in 1 .. db_top : f[i] = UnlinkStep(f[i - 1], thing, i - 1)
  <2>1. ASSUME NEW i \in 1 .. db_top
        PROVE  f[i] = UnlinkStep(f[i - 1], thing, i - 1)
    <3>1. f[i - 1] \in Db BY <1>2
    <3>2. f[i] = F[i][f[i - 1]] BY <1>2 DEF Repeats
    <3> QED BY <3>1, <3>2
  <2> QED BY <1>2, <2>1 DEF Repeats
<1>4. f = Rec(f)
  <2>1. ASSUME NEW n \in 0 .. db_top
        PROVE  f[n] = Rec(f)[n]
    <3>1. n = 0 \/ n \in 1 .. db_top OBVIOUS
    <3> QED BY <1>3, <3>1 DEF UnlinkStep
  <2> QED BY <1>2, <2>1
<1>5. at = Rec(at) BY <1>4, Zenon
<1>6. Unlinked(d, thing) = at[db_top] BY DEF Unlinked
<1> HIDE DEF at
<1>7. at[0] = d BY <1>5
<1>8. ASSUME NEW i \in 1 .. db_top
      PROVE  at[i] = UnlinkStep(at[i - 1], thing, i - 1)
  <2>1. i \in 0 .. db_top /\ i # 0 OBVIOUS
  <2> QED BY <1>5, <2>1 DEF UnlinkStep
<1> QED BY <1>6, <1>7, <1>8

\* No object below i refers to the thing.
Refers(d, D, thing, i) ==
    /\ HomeOK(d, D) /\ DroptoOK(d, D)
    /\ \A o \in Objs : o < i => /\ d.type[o] \in {"thing", "player"} => d.home[o] # thing
                                /\ d.dropto[o] # thing

\* The thing is one that may be recycled.
Goes(d, thing) ==
    /\ thing \in Objs \ {Top, tp_player_start}
    /\ d.type[thing] \in {"room", "thing", "program"}

LEMMA RehomedClears ==
    ASSUME NEW d \in Db, NEW D, NEW thing, NEW i \in Objs, Goes(d, thing), Fixed(d, D), OwnerOK(d),
           Refers(d, D, thing, i)
    PROVE  Refers(Rehomed(d, thing, i), D, thing, i + 1)
<1> DEFINE e == Rehomed(d, thing, i)
<1> SUFFICES Refers(e, D, thing, i + 1) OBVIOUS
<1>0. /\ thing \in Objs /\ thing # Top /\ thing # tp_player_start /\ d.type[thing] # "player"
      /\ Top \in Objs \ D /\ tp_player_start \in Objs \ D
      /\ d.type[Top] = "room" /\ d.type[tp_player_start] = "room"
      /\ thing # NOTHING /\ i \in Int /\ Objs \subseteq Int
      /\ \A o \in D : d.type[o] # "player"
  BY Names, ObjectsAssumption DEF Goes, Fixed, Objs, Top
<1>r. HomeOK(d, D) /\ DroptoOK(d, D)
      /\ \A o \in Objs : o < i => /\ d.type[o] \in {"thing", "player"} => d.home[o] # thing
                                  /\ d.dropto[o] # thing
  BY DEF Refers
<1>i. \A o \in Objs : o < i + 1 <=> o < i \/ o = i BY <1>0
<1>1. CASE d.type[i] = "room" /\ d.dropto[i] = thing
  <2>1. e = [d EXCEPT !.dropto[i] = NOTHING] BY <1>1 DEF Rehomed
  <2> HIDE DEF e
  <2>2. e.type = d.type /\ e.home = d.home
        /\ \A o \in Objs : e.dropto[o] = IF o = i THEN NOTHING ELSE d.dropto[o]
    BY <2>1 DEF Db
  <2>3. HomeOK(e, D) /\ DroptoOK(e, D) BY <2>2, <1>r, Names DEF HomeOK, DroptoOK
  <2> QED BY <2>2, <2>3, <1>r, <1>i, <1>0, <1>1 DEF Refers
<1>2. CASE d.type[i] = "thing" /\ d.home[i] = thing
  <2> DEFINE owner == d.owner[i]
             f == IF d.home[owner] = thing
                    THEN [d EXCEPT !.home[owner] = tp_player_start] ELSE d
             home == CASE ~ParentLoopCheck(f, i, f.home[owner]) -> f.home[owner]
                       [] ParentLoopCheck(f, i, f.home[owner]) /\ ~ParentLoopCheck(f, i, owner) -> owner
                       [] OTHER -> Top
  <2>1. e = [f EXCEPT !.home[i] = home] BY <1>2 DEF Rehomed, Homeless
  <2>2. owner \in Objs /\ d.type[owner] = "player" /\ owner # i /\ owner \notin D /\ owner # thing
    BY <1>2, <1>0 DEF OwnerOK, Db
  <2> HIDE DEF owner
  <2>3. /\ f \in Db /\ f.type = d.type /\ f.dropto = d.dropto
        /\ \A o \in Objs : f.home[o] = IF o = owner /\ d.home[owner] = thing
                                         THEN tp_player_start ELSE d.home[o]
    BY <2>2, <1>0 DEF Db, Refs
  <2> HIDE DEF f
  <2>4. f.home[owner] \in Objs \ D /\ d.type[f.home[owner]] = "room" /\ f.home[owner] # thing
    BY <2>2, <2>3, <1>0, <1>r DEF HomeOK
  <2>5. home \in {f.home[owner], owner, Top} OBVIOUS
  <2> HIDE DEF home
  <2>6. home \in Objs \ D /\ d.type[home] \in Containers /\ home # thing
    BY <2>2, <2>4, <2>5, <1>0 DEF Containers
  <2> HIDE DEF e
  <2>7. /\ e.type = d.type /\ e.dropto = d.dropto
        /\ \A o \in Objs : e.home[o] = IF o = i THEN home ELSE f.home[o]
    BY <2>1, <2>3 DEF Db
  <2>8. HomeOK(e, D)
    <3> SUFFICES ASSUME NEW o \in Objs
                 PROVE  /\ d.type[o] = "thing" => /\ e.home[o] \in Objs \ D
                                                  /\ d.type[e.home[o]] \in Containers
                        /\ d.type[o] = "player" => e.home[o] \in Objs \ D /\ d.type[e.home[o]] = "room"
      BY <2>7 DEF HomeOK
    <3>1. CASE o = i BY <3>1, <2>6, <2>7, <1>2
    <3>2. CASE o = owner BY <3>2, <2>2, <2>4, <2>7
    <3>3. CASE o # i /\ o # owner BY <3>3, <2>3, <2>7, <1>r DEF HomeOK
    <3> QED BY <3>1, <3>2, <3>3
  <2>9. DroptoOK(e, D) BY <2>7, <1>r DEF DroptoOK
  <2>10. \A o \in Objs : o < i + 1 => e.home[o] # thing \/ d.type[o] \notin {"thing", "player"}
    BY <2>3, <2>6, <2>7, <1>r, <1>i, <1>0
  <2>11. \A o \in Objs : o < i + 1 => e.dropto[o] # thing
    BY <2>7, <1>r, <1>i, <1>0, <1>2 DEF DroptoOK
  <2> QED BY <2>7, <2>8, <2>9, <2>10, <2>11 DEF Refers
<1>3. CASE d.type[i] = "player" /\ d.home[i] = thing
  <2>1. e = [d EXCEPT !.home[i] = tp_player_start] BY <1>3 DEF Rehomed
  <2> HIDE DEF e
  <2>2. e.type = d.type /\ e.dropto = d.dropto
        /\ \A o \in Objs : e.home[o] = IF o = i THEN tp_player_start ELSE d.home[o]
    BY <2>1 DEF Db
  <2>3. HomeOK(e, D) BY <2>2, <1>r, <1>0, <1>3 DEF HomeOK
  <2>5. DroptoOK(e, D) BY <2>2, <1>r DEF DroptoOK
  <2>4. \A o \in Objs : o < i + 1 => e.dropto[o] # thing
    BY <2>2, <1>r, <1>i, <1>0, <1>3 DEF DroptoOK
  <2> QED BY <2>2, <2>3, <2>4, <2>5, <1>r, <1>i, <1>0 DEF Refers
<1>4. CASE /\ ~ (d.type[i] = "room" /\ d.dropto[i] = thing)
           /\ ~ (d.type[i] = "thing" /\ d.home[i] = thing)
           /\ ~ (d.type[i] = "player" /\ d.home[i] = thing)
  <2>1. e = d BY <1>4 DEF Rehomed
  <2>2. d.dropto[i] # thing BY <1>4, <1>r, <1>0 DEF DroptoOK
  <2> HIDE DEF e
  <2> QED BY <2>1, <2>2, <1>4, <1>r, <1>i DEF Refers
<1> QED BY <1>1, <1>2, <1>3, <1>4

\* s is what is made of d when the objects below i have been looked at.
Partly(d, s, D, thing, i) ==
    /\ s \in Db /\ s.type = d.type /\ s.location = d.location /\ s.owner = d.owner
    /\ s.recyclable = d.recyclable
    /\ \A x \in Objs : s.contents[x] = IF x < i /\ d.contents[x] = thing
                                      THEN d.next[thing] ELSE d.contents[x]
    /\ \A x \in Objs : s.next[x] = IF x < i /\ d.next[x] = thing THEN d.next[thing] ELSE d.next[x]
    /\ Refers(s, D, thing, i)

LEMMA PartlyStep ==
    ASSUME NEW d \in Db, NEW D, NEW thing, NEW s, NEW i \in Objs, Goes(d, thing), Fixed(d, D),
           OwnerOK(d), Partly(d, s, D, thing, i)
    PROVE  Partly(d, UnlinkStep(s, thing, i), D, thing, i + 1)
<1> DEFINE e == Rehomed(s, thing, i)
           g == Skipped(e, thing, i)
<1>1. thing \in Objs /\ s \in Db /\ s.type = d.type /\ s.owner = d.owner /\ Refers(s, D, thing, i)
  BY DEF Goes, Partly
<1>2. Goes(s, thing) /\ Fixed(s, D) /\ OwnerOK(s) BY <1>1 DEF Goes, Fixed, OwnerOK
<1>3. Refers(e, D, thing, i + 1) BY <1>1, <1>2, RehomedClears
<1>4. OnlyRefs(s, e) BY <1>1, RehomedTyped
<1> HIDE DEF e
<1>o. Disowned(e, thing, i) = e
  BY <1>1, <1>2, <1>4, DisownedNot DEF OnlyRefs, OwnerOK, Goes
<1>5. SkipMade(e, g, thing, i) BY <1>1, <1>4, SkippedIs DEF OnlyRefs
<1> HIDE DEF g
<1>6. /\ \A x \in Objs : x < i + 1 <=> x < i \/ x = i
      /\ ~ (i < i)
  BY DEF Objs
<1>7. s.next[thing] = d.next[thing] BY <1>1 DEF Partly
<1>8. /\ \A x \in Objs : g.contents[x] = IF x = i /\ s.contents[x] = thing
                                          THEN d.next[thing] ELSE s.contents[x]
      /\ \A x \in Objs : g.next[x] = IF x = i /\ s.next[x] = thing THEN d.next[thing] ELSE s.next[x]
  BY <1>4, <1>5, <1>7 DEF SkipMade, OnlyRefs
<1>9. \A x \in Objs : g.contents[x] = IF x < i + 1 /\ d.contents[x] = thing
                                      THEN d.next[thing] ELSE d.contents[x]
  <2>1. \A x \in Objs : s.contents[x] = IF x < i /\ d.contents[x] = thing
                                      THEN d.next[thing] ELSE d.contents[x]
    BY DEF Partly
  <2> QED BY <1>6, <1>8, <2>1
<1>10. \A x \in Objs : g.next[x] = IF x < i + 1 /\ d.next[x] = thing THEN d.next[thing] ELSE d.next[x]
  <2>1. \A x \in Objs : s.next[x] = IF x < i /\ d.next[x] = thing THEN d.next[thing] ELSE d.next[x]
    BY DEF Partly
  <2> QED BY <1>6, <1>8, <2>1
<1>11. Refers(g, D, thing, i + 1)
  <2>1. g.home = e.home /\ g.dropto = e.dropto /\ g.type = e.type
    BY <1>5 DEF SkipMade
  <2> QED BY <1>3, <2>1 DEF Refers, HomeOK, DroptoOK
<1>12. g \in Db /\ g.type = d.type /\ g.location = d.location /\ g.owner = d.owner
       /\ g.recyclable = d.recyclable
  BY <1>4, <1>5 DEF SkipMade, OnlyRefs, Partly
<1>13. Partly(d, g, D, thing, i + 1) BY <1>9, <1>10, <1>11, <1>12 DEF Partly
<1> QED BY <1>o, <1>13 DEF UnlinkStep, g, e

LEMMA UnlinkedMakes ==
    ASSUME NEW d \in Db, NEW D, NEW thing, Goes(d, thing), Sound(d, D)
    PROVE  Partly(d, Unlinked(d, thing), D, thing, db_top)
<1> USE ObjectsAssumption
<1>1. PICK at : /\ at[0] = d
                /\ \A i \in 1 .. db_top : at[i] = UnlinkStep(at[i - 1], thing, i - 1)
                /\ Unlinked(d, thing) = at[db_top]
  BY UnlinkedUnfolds DEF Goes
<1> DEFINE Bad == {i \in 0 .. db_top : ~ Partly(d, at[i], D, thing, i)}
<1>2. SUFFICES ASSUME Bad # {} PROVE FALSE
  <2>1. db_top \in 0 .. db_top OBVIOUS
  <2> QED BY <1>1, <2>1
<1>3. PICK m \in Bad : \A k \in Bad : m <= k
  <2>1. Bad \in SUBSET Nat OBVIOUS
  <2> QED BY <1>2, <2>1, LeastNat, Zenon
<1>4. m \in 0 .. db_top /\ ~ Partly(d, at[m], D, thing, m) BY <1>3
<1>5. Partly(d, at[0], D, thing, 0)
  <2>1. \A x \in Objs : ~ (x < 0) BY DEF Objs
  <2> QED BY <1>1, <2>1 DEF Partly, Refers, Sound
<1>6. m \in 1 .. db_top /\ m - 1 \in 0 .. db_top /\ m - 1 \in Objs /\ (m - 1) + 1 = m
      /\ ~(m <= m - 1)
  BY <1>4, <1>5 DEF Objs
<1>7. Partly(d, at[m - 1], D, thing, m - 1) BY <1>3, <1>6
<1>8. Fixed(d, D) /\ OwnerOK(d) BY DEF Sound
<1>9. Partly(d, UnlinkStep(at[m - 1], thing, m - 1), D, thing, (m - 1) + 1)
  <2> DEFINE s == at[m - 1]
             i == m - 1
  <2>1. Partly(d, s, D, thing, i) /\ i \in Objs BY <1>6, <1>7
  <2> HIDE DEF s, i
  <2>2. Partly(d, UnlinkStep(s, thing, i), D, thing, i + 1)
    BY <1>8, <2>1, PartlyStep
  <2> QED BY <2>2 DEF s, i
<1> QED BY <1>1, <1>4, <1>6, <1>9

\* The thing is in no list, and nothing refers to it.
LEMMA UnlinkedKeeps ==
    ASSUME NEW d, NEW D, NEW thing, Good(d, D), Goes(d, thing)
    PROVE  Steady(d, Unlinked(d, thing), D \cup {thing})
<1> DEFINE e == Unlinked(d, thing)
<1>0. d \in Db /\ Sound(d, D) /\ PlayersAt(d) /\ thing \in Objs BY DEF Good, Goes
<1>1. Partly(d, e, D, thing, db_top) BY <1>0, UnlinkedMakes
<1> HIDE DEF e
<1>2. /\ e \in Db /\ e.type = d.type /\ e.location = d.location /\ e.owner = d.owner
      /\ e.recyclable = d.recyclable /\ HomeOK(e, D) /\ DroptoOK(e, D)
  BY <1>1 DEF Partly, Refers
<1>3. \A x \in Objs : x < db_top BY ObjectsAssumption DEF Objs
<1>4. /\ \A x \in Objs : e.contents[x] = IF d.contents[x] = thing THEN d.next[thing] ELSE d.contents[x]
      /\ \A x \in Objs : e.next[x] = IF d.next[x] = thing THEN d.next[thing] ELSE d.next[x]
      /\ \A x \in Objs : d.type[x] \in {"thing", "player"} => e.home[x] # thing
      /\ \A x \in Objs : e.dropto[x] # thing
  BY <1>1, <1>2, <1>3 DEF Partly, Refers
<1>5. Sound(e, D \cup {thing})
  <2>1. Fixed(e, D \cup {thing}) BY <1>0, <1>2 DEF Sound, Fixed, Goes
  <2>2. HomeOK(e, D \cup {thing}) BY <1>2, <1>4 DEF HomeOK
  <2>3. DroptoOK(e, D \cup {thing}) BY <1>2, <1>4 DEF DroptoOK
  <2>4. OwnerOK(e) BY <1>0, <1>2 DEF OwnerOK, Sound
  <2> QED BY <2>1, <2>2, <2>3, <2>4 DEF Sound
<1>6. PICK h : Threaded(d, h) /\ Placed(d, h, D) BY DEF Good, InPlace
<1>7. PICK B : \E r : Linked(Objs, Heads, NOTHING, Firsts(d), d.next, h, r, B)
  BY <1>6 DEF Threaded
<1>8. PICK r : Linked(Objs, Heads, NOTHING, Firsts(d), d.next, h, r, B) BY <1>7
<1>9. Bypass(Objs, Heads, NOTHING, Firsts(d), d.next, h, thing, Firsts(e), e.next)
  <2>1. d.recyclable # thing
    <3>1. FirstIsIn(Heads, NOTHING, Firsts(d), h) /\ Free \in Heads /\ thing # NOTHING
      BY <1>0, <1>8, Names DEF Linked, Heads
    <3>2. Firsts(d)[Free] = d.recyclable BY <3>1 DEF Firsts
    <3>3. d.recyclable = thing => h[thing] = Free BY <3>1, <3>2 DEF FirstIsIn
    <3> QED BY <3>3, <1>0, <1>6 DEF Placed, Goes
  <2>2. \A l \in Heads : l = Free \/ l \in Objs BY DEF Heads
  <2>3. \A l \in Heads : Firsts(e)[l] = IF Firsts(d)[l] = thing THEN d.next[thing] ELSE Firsts(d)[l]
    BY <2>1, <2>2, <1>2, <1>4 DEF Firsts
  <2> QED BY <2>3, <1>4 DEF Bypass
<1>10. Threaded(e, [h EXCEPT ![thing] = NOTHING])
  BY <1>0, <1>2, <1>8, <1>9, ThreadsWithout
<1>11. Placed(e, [h EXCEPT ![thing] = NOTHING], D \cup {thing})
  <2>1. \A x \in Objs : [h EXCEPT ![thing] = NOTHING][x] = IF x = thing THEN NOTHING ELSE h[x]
    BY <1>8 DEF Linked, LinkTypes
  <2>2. NOTHING # Free /\ NOTHING \notin Objs BY Names DEF NOTHING, Free
  <2> QED BY <1>0, <1>2, <1>6, <2>1, <2>2 DEF Placed, Goes
<1>12. PlayersAt(e) BY <1>0, <1>2 DEF PlayersAt
<1> QED BY <1>2, <1>5, <1>10, <1>11, <1>12 DEF Steady, Good, InPlace, e

\* A frame of recycle() on top of the stack.
LEMMA RecyclingPush ==
    ASSUME NEW d, NEW t, NEW f \in Frames, t \in Seq(Frames), FramesOK(d, t), f.does = "recycling"
    PROVE  /\ <<f>> \o t \in Seq(Frames) /\ FramesOK(d, <<f>> \o t)
           /\ DoomedIn(<<f>> \o t) = DoomedIn(t) \cup {f.thing}
           /\ Once(t) /\ f.thing \notin DoomedIn(t) => Once(<<f>> \o t)
<1> DEFINE u == <<f>> \o t
<1>0. <<f>> \in Seq(Frames) /\ Len(<<f>>) = 1 /\ <<f>>[1] = f OBVIOUS
<1>1. /\ u \in Seq(Frames) /\ Len(u) = 1 + Len(t) /\ Len(t) \in Nat
      /\ u[1] = f
      /\ \A i \in 1 .. Len(t) : i + 1 \in 1 .. Len(u) /\ u[i + 1] = t[i]
      /\ \A i \in 1 .. Len(u) : i = 1 \/ (i - 1 \in 1 .. Len(t) /\ u[i] = t[i - 1])
  BY <1>0, JoinIs
<1> SUFFICES /\ u \in Seq(Frames) /\ FramesOK(d, u) /\ DoomedIn(u) = DoomedIn(t) \cup {f.thing}
             /\ Once(t) /\ f.thing \notin DoomedIn(t) => Once(u)
  OBVIOUS
<1> HIDE DEF u
<1>2. FramesOK(d, u)
  <2> SUFFICES ASSUME NEW i \in 1 .. Len(u)
               PROVE  FrameOK(d, u[i]) /\ (u[i].does = "toad" => i = Len(u))
    BY DEF FramesOK
  <2>1. CASE i = 1 BY <2>1, <1>1 DEF FrameOK
  <2>2. CASE i # 1
    <3>1. i - 1 \in 1 .. Len(t) /\ u[i] = t[i - 1] BY <2>2, <1>1
    <3>2. FrameOK(d, t[i - 1]) /\ (t[i - 1].does = "toad" => i - 1 = Len(t))
      BY <3>1 DEF FramesOK
    <3> QED BY <3>1, <3>2, <1>1
  <2> QED BY <2>1, <2>2
<1>3. u # << >> /\ Head(u) = f /\ 1 \in 1 .. Len(u) BY <1>1, EmptySeq
<1>4. \A o \in Objs : (\E i \in 1 .. Len(u) : u[i].does = "recycling" /\ u[i].thing = o)
        <=> \/ (\E i \in 1 .. Len(t) : t[i].does = "recycling" /\ t[i].thing = o)
            \/ f.thing = o
  <2> TAKE o \in Objs
  <2>1. ASSUME NEW i \in 1 .. Len(u), u[i].does = "recycling", u[i].thing = o, i # 1
        PROVE  \E j \in 1 .. Len(t) : t[j].does = "recycling" /\ t[j].thing = o
    <3>1. i - 1 \in 1 .. Len(t) /\ u[i] = t[i - 1] BY <1>1, <2>1
    <3> QED BY <2>1, <3>1
  <2>2. ASSUME NEW i \in 1 .. Len(t), t[i].does = "recycling", t[i].thing = o
        PROVE  \E j \in 1 .. Len(u) : u[j].does = "recycling" /\ u[j].thing = o
    <3>1. i + 1 \in 1 .. Len(u) /\ u[i + 1] = t[i] BY <1>1
    <3> QED BY <2>2, <3>1
  <2> QED BY <2>1, <2>2, <1>1, <1>3
<1>5. DoomedIn(u) = DoomedIn(t) \cup {f.thing}
  <2>1. f.thing \in Objs BY Zenon DEF Frames
  <2> DEFINE x == f.thing
  <2>2. \A o \in Objs : o \in DoomedIn(u) <=> o \in DoomedIn(t) \/ o = x
    BY <1>4 DEF DoomedIn
  <2>3. DoomedIn(t) \subseteq Objs /\ DoomedIn(u) \subseteq Objs BY DEF DoomedIn
  <2> HIDE DEF x
  <2> QED BY <2>1, <2>2, <2>3 DEF x
<1>6. ASSUME Once(t), f.thing \notin DoomedIn(t) PROVE Once(u)
  <2> SUFFICES ASSUME NEW i \in 1 .. Len(u), NEW j \in 1 .. Len(u),
                      u[i].does = "recycling", u[j].does = "recycling", u[i].thing = u[j].thing
               PROVE  i = j
    BY DEF Once
  <2>1. \A k \in 1 .. Len(t) : t[k].does = "recycling" => t[k].thing # f.thing
    <3>1. f.thing \in Objs BY Zenon DEF Frames
    <3> QED BY <1>6, <3>1 DEF DoomedIn
  <2>2. CASE i # 1 /\ j # 1
    <3>1. /\ i - 1 \in 1 .. Len(t) /\ u[i] = t[i - 1]
          /\ j - 1 \in 1 .. Len(t) /\ u[j] = t[j - 1]
      BY <2>2, <1>1
    <3>2. i - 1 = j - 1 BY <3>1, <1>6 DEF Once
    <3> QED BY <3>2, <1>1
  <2>3. CASE i = 1 /\ j # 1
    <3>1. j - 1 \in 1 .. Len(t) /\ u[j] = t[j - 1] /\ u[i] = f BY <2>3, <1>1
    <3> QED BY <3>1, <2>1
  <2>4. CASE i # 1 /\ j = 1
    <3>1. i - 1 \in 1 .. Len(t) /\ u[i] = t[i - 1] /\ u[j] = f BY <2>4, <1>1
    <3> QED BY <3>1, <2>1
  <2> QED BY <2>2, <2>3, <2>4
<1> QED BY <1>1, <1>2, <1>5, <1>6

\* recycle() begins.
LEMMA RecyclePush ==
    ASSUME NEW d, NEW t, NEW thing, Whole(d, t), Goes(d, thing),
           thing \notin DoomedIn(t)
    PROVE  Whole(Recycle(d, thing).db, Recycle(d, thing).then \o t)
<1> DEFINE f == [does |-> "recycling", thing |-> thing, last |-> NOTHING, looplimit |-> db_top]
           e == Unlinked(d, thing)
           u == <<f>> \o t
<1>1. Recycle(d, thing).db = e /\ Recycle(d, thing).then \o t = u BY DEF Recycle
<1>2. Good(d, DoomedIn(t)) /\ t \in Seq(Frames) /\ FramesOK(d, t) /\ Once(t)
  BY DEF Whole
<1>3. Steady(d, e, DoomedIn(t) \cup {thing}) BY <1>2, UnlinkedKeeps
<1> HIDE DEF e
<1>4. f \in Frames /\ f.does = "recycling" /\ f.thing = thing
  <2>1. thing \in Objs /\ NOTHING \in Refs /\ db_top \in 0 .. db_top
    BY ObjectsAssumption DEF Goes, Refs
  <2> QED BY Zenon, <2>1 DEF Frames
<1> HIDE DEF f
<1>5. /\ u \in Seq(Frames) /\ FramesOK(d, u) /\ DoomedIn(u) = DoomedIn(t) \cup {thing}
      /\ Once(u)
  BY <1>2, <1>4, RecyclingPush
<1> HIDE DEF u
<1>6. FramesOK(e, u) BY <1>3, <1>5, SteadyFrames
<1> QED BY <1>1, <1>3, <1>5, <1>6 DEF Whole, Steady

LEMMA InvFrom ==
    ASSUME Whole(db', task'), ran' \in 0 .. MaxPrograms
    PROVE  Inv'
BY DEF Inv, Whole, Good, Sound, Fixed, OwnerOK, HomeOK, DroptoOK, PlayersAt, InPlace, FramesOK, FrameOK, DoomedIn, Once

LEMMA DoRecycleKeeps ==
    ASSUME NEW thing \in Objs, Inv, DoRecycle(thing)
    PROVE  Inv'
<1>1. Goes(db, thing) /\ task = << >>
  BY DEF DoRecycle, MayRecycle, Is, Goes, Does, Command
<1>2. Whole(Recycle(db, thing).db, Recycle(db, thing).then \o << >>)
  BY <1>1, NoneDoomed, RecyclePush DEF Inv
<1>3. db' = Recycle(db, thing).db /\ task' = Recycle(db, thing).then /\ ran' = 0
  BY DEF DoRecycle, Does
<1>4. Recycle(db, thing).then \o << >> = Recycle(db, thing).then
  <2> DEFINE f == [does |-> "recycling", thing |-> thing, last |-> NOTHING, looplimit |-> db_top]
  <2>1. Recycle(db, thing).then = <<f>> BY DEF Recycle
  <2> HIDE DEF f
  <2>2. <<f>> \in Seq({f}) OBVIOUS
  <2> QED BY <2>1, <2>2, ConcatEmptySeq
<1> QED BY <1>2, <1>3, <1>4, InvFrom, TuneAssumption

\* The loop of recycle(): its frame stays below what a movement leaves to do.
LEMMA RecycleOn ==
    ASSUME NEW d, NEW t, NEW m, NEW f \in Frames, Whole(d, t), t # << >>,
           Head(t).does = "recycling", f.does = "recycling", f.thing = Head(t).thing,
           Fine(d, m, DoomedIn(t))
    PROVE  Whole(m.db, (m.then \o <<f>>) \o Tail(t))
<1> DEFINE rest == Tail(t)
           u == <<f>> \o rest
<1>1. Good(d, DoomedIn(t)) /\ t \in Seq(Frames) /\ FramesOK(d, t) /\ Once(t)
  BY DEF Whole
<1>2. /\ rest \in Seq(Frames) /\ FramesOK(d, rest) /\ DoomedIn(t) = DoomedIn(rest) \cup {f.thing}
      /\ Once(rest) /\ f.thing \notin DoomedIn(rest)
  BY <1>1, TaskPop
<1> HIDE DEF rest
<1>3. u \in Seq(Frames) /\ FramesOK(d, u) /\ DoomedIn(u) = DoomedIn(t) /\ Once(u)
  BY <1>2, RecyclingPush
<1>4. (m.then \o <<f>>) \o rest = m.then \o u
  <2> DEFINE p == m.then
             q == <<f>>
  <2>1. p \in Seq(Frames) /\ q \in Seq(Frames) BY DEF Fine, Plain
  <2> HIDE DEF p, q
  <2>2. (p \o q) \o rest = p \o (q \o rest) BY <1>2, <2>1, ConcatAssociative
  <2> QED BY <2>2 DEF p, q
<1> HIDE DEF u
<1>5. Whole(d, u) /\ Fine(d, m, DoomedIn(u)) BY <1>1, <1>3 DEF Whole
<1>6. Whole(m.db, m.then \o u) BY <1>5, PushKeeps
<1> QED BY <1>4, <1>6 DEF rest

LEMMA RecyclingKeeps == Inv /\ Recycling => Inv'
<1> SUFFICES ASSUME Inv, Recycling PROVE Inv' OBVIOUS
<1> DEFINE r == Head(task)
           first == db.contents[r.thing]
           again == [r EXCEPT !.last = first, !.looplimit = @ - 1]
           forgets == [r EXCEPT !.last = NOTHING]
           dragged == r.last \in Here(r.thing)
           walks == \/ db.type[first] = "player"
                    \/ db.type[first] = "thing"
                       /\ (tp_thing_movement \/ first \in Zombie \cup Vehicle)
           move == IF walks THEN Enters(db, first, HOME) ELSE Moves(db, first, HOME)
           next == IF walks THEN again ELSE [again EXCEPT !.last = NOTHING]
           D == DoomedIn(task)
<1>1. /\ task # << >> /\ r.does = "recycling" /\ ran' = ran
      /\ \/ /\ dragged
            /\ db' = Moveto(db, r.last, HOME) /\ task' = <<forgets>> \o Tail(task)
         \/ /\ first # NOTHING /\ r.looplimit > 0
            /\ Continue([move EXCEPT !.then = @ \o <<next>>])
  BY Zenon DEF Recycling, Doing, Continue
<1>2. Good(db, D) /\ r \in Frames /\ Whole(db, task) BY Zenon, <1>1, HeadIs DEF Inv
<1>3. /\ r \in [does : {"recycling"}, thing : Objs, last : Refs, looplimit : 0 .. db_top]
  BY Zenon, <1>1, <1>2 DEF Frames
<1> HIDE DEF r
<1>4. first \in Refs BY <1>2, <1>3 DEF Good, Db
<1>5. PlaceFor(db, first, HOME) /\ PlaceFor(db, r.last, HOME) /\ HOME \in Refs \cup {HOME}
  BY DEF PlaceFor
<1>6. CASE /\ dragged
           /\ db' = Moveto(db, r.last, HOME) /\ task' = <<forgets>> \o Tail(task)
  <2> DEFINE last == r.last
             m == Moves(db, last, HOME)
  <2>1. last \in Objs BY <1>6 DEF Here
  <2>2. forgets \in Frames /\ forgets.does = "recycling" /\ forgets.thing = r.thing
    <3>1. NOTHING \in Refs BY DEF Refs
    <3> QED BY Zenon, <1>3, <3>1 DEF Frames
  <2> HIDE DEF last, forgets
  <2>3. Fine(db, m, D) BY <1>2, <1>5, <2>1, MovesFine DEF last
  <2>4. Whole(m.db, (m.then \o <<forgets>>) \o Tail(task))
    BY Zenon, <1>1, <1>2, <2>2, <2>3, RecycleOn DEF r
  <2>5. m.db = Moveto(db, last, HOME) /\ m.then \o <<forgets>> = <<forgets>>
    <3>1. <<forgets>> \in Seq(Frames) BY <2>2
    <3> QED BY <3>1, ConcatEmptySeq DEF Moves
  <2>6. Whole(db', task') BY <1>6, <2>4, <2>5 DEF last
  <2> QED BY Zenon, <2>6, <1>1, InvFrom DEF Inv
<1>7. CASE /\ first # NOTHING /\ r.looplimit > 0
           /\ Continue([move EXCEPT !.then = @ \o <<next>>])
  <2>1. next \in Frames /\ next.does = "recycling" /\ next.thing = r.thing
    <3>1. r.looplimit - 1 \in 0 .. db_top /\ NOTHING \in Refs
      <4>1. r.looplimit \in 0 .. db_top /\ r.looplimit > 0 /\ db_top \in Nat
        BY <1>3, <1>7, ObjectsAssumption
      <4>2. NOTHING \in Refs BY DEF Refs
      <4> QED BY <4>1, <4>2
    <3> HIDE DEF first
    <3>2. again \in [does : {"recycling"}, thing : Objs, last : Refs, looplimit : 0 .. db_top]
          /\ again.thing = r.thing
      <4> DEFINE limit == r.looplimit - 1
      <4>1. limit \in 0 .. db_top /\ first \in Refs BY <3>1, <1>4
      <4> HIDE DEF limit
      <4>2. [r EXCEPT !.last = first, !.looplimit = limit]
              \in [does : {"recycling"}, thing : Objs, last : Refs, looplimit : 0 .. db_top]
            /\ [r EXCEPT !.last = first, !.looplimit = limit].thing = r.thing
        BY Zenon, <1>3, <4>1
      <4> QED BY <4>2 DEF limit
    <3> HIDE DEF again
    <3>3. next \in [does : {"recycling"}, thing : Objs, last : Refs, looplimit : 0 .. db_top]
          /\ next.thing = r.thing
      BY <3>1, <3>2
    <3> HIDE DEF next
    <3> QED BY Zenon, <3>3 DEF Frames
  <2>2. first \in Objs BY Zenon, <1>4, <1>7 DEF Refs
  <2> HIDE DEF next, first
  <2>3. Fine(db, move, D) BY <1>2, <1>5, <2>2, MovesFine, EntersFine
  <2> HIDE DEF move
  <2>4. Whole(move.db, (move.then \o <<next>>) \o Tail(task))
    BY <1>1, <1>2, <2>1, <2>3, RecycleOn DEF r
  <2> DEFINE m == [move EXCEPT !.then = @ \o <<next>>]
  <2>5. m.db = move.db /\ m.then = move.then \o <<next>>
    <3> DEFINE c == move.then \o <<next>>
    <3>1. move = [db |-> move.db, then |-> move.then] BY <2>3 DEF Fine
    <3> HIDE DEF c
    <3>2. [move EXCEPT !.then = c].db = move.db /\ [move EXCEPT !.then = c].then = c
      BY <3>1
    <3> QED BY <3>2 DEF c
  <2>6. db' = m.db /\ task' = m.then \o Tail(task) BY <1>7 DEF Continue
  <2> HIDE DEF m
  <2>7. Whole(db', task') BY <2>4, <2>5, <2>6
  <2> QED BY <2>7, <1>1, InvFrom DEF Inv
<1> QED BY Zenon, <1>1, <1>6, <1>7

\* What becomes of the thing at last.
Buried(d, e, thing) ==
    /\ e \in Db
    /\ e.type = [d.type EXCEPT ![thing] = "garbage"]
    /\ e.location = [d.location EXCEPT ![thing] = NOTHING]
    /\ e.contents = [d.contents EXCEPT ![thing] = NOTHING]
    /\ e.home = [d.home EXCEPT ![thing] = NOTHING]
    /\ e.dropto = [d.dropto EXCEPT ![thing] = NOTHING]
    /\ e.owner = [d.owner EXCEPT ![thing] = 0]
    /\ e.next = [d.next EXCEPT ![thing] = d.recyclable] /\ e.recyclable = thing

\* Nothing but what is being recycled lies in garbage.
NothingIn(d, D) == \A o \in Objs \ D : \A g \in Objs : d.type[g] = "garbage" => d.location[o] # g

LEMMA BuriedThreads ==
    ASSUME NEW d \in Db, NEW e, NEW thing \in Objs, NEW h, Threaded(d, h), h[thing] = NOTHING,
           Buried(d, e, thing)
    PROVE  Threaded(e, [Emptied(Objs, NOTHING, h, thing) EXCEPT ![thing] = Free])
<1>1. PICK B : \E r : Linked(Objs, Heads, NOTHING, Firsts(d), d.next, h, r, B)
  BY DEF Threaded
<1>2. PICK r : Linked(Objs, Heads, NOTHING, Firsts(d), d.next, h, r, B) BY <1>1
<1>f. /\ Firsts(d) \in [Heads -> Refs] /\ Firsts(d)[Free] = d.recyclable
      /\ \A l \in Objs : Firsts(d)[l] = d.contents[l]
      /\ d.next \in [Objs -> Refs] /\ d.contents \in [Objs -> Refs] /\ d.recyclable \in Refs
  BY FirstsTyped, Zenon
<1>l. /\ thing \in Heads /\ thing # NOTHING /\ thing # Free /\ Free \in Heads
      /\ \A l \in Heads : l = Free \/ l \in Objs
  BY Names DEF Heads
<1> DEFINE c == [Firsts(d) EXCEPT ![thing] = NOTHING]
           k == Emptied(Objs, NOTHING, h, thing)
<1>3. Linked(Objs, Heads, NOTHING, c, d.next, k, r, B)
  BY <1>2, <1>l, Names, ChainTake
<1>4. k[thing] = NOTHING /\ c[Free] = d.recyclable BY <1>f, <1>l DEF Emptied
<1> HIDE DEF c, k
<1>5. Linked(Objs, Heads, NOTHING, [c EXCEPT ![Free] = thing], [d.next EXCEPT ![thing] = c[Free]],
            [k EXCEPT ![thing] = Free], [r EXCEPT ![thing] = B + 1], B + 1)
  BY <1>3, <1>4, <1>l, Names, ChainPush
<1>6. Firsts(e) = [c EXCEPT ![Free] = thing]
  <2>1. Firsts(e) = [l \in Heads |-> IF l = Free THEN thing ELSE [d.contents EXCEPT ![thing] = NOTHING][l]]
    BY DEF Firsts, Buried
  <2>2. c \in [Heads -> Refs] /\ \A l \in Heads : c[l] = IF l = thing THEN NOTHING ELSE Firsts(d)[l]
    BY <1>f DEF c, Refs
  <2>3. [c EXCEPT ![Free] = thing] = [l \in Heads |-> IF l = Free THEN thing ELSE c[l]]
    BY <2>2
  <2>4. \A l \in Heads : l # Free => [d.contents EXCEPT ![thing] = NOTHING][l] = c[l]
    BY <2>2, <1>f, <1>l
  <2> QED BY <2>1, <2>3, <2>4
<1>7. e.next = [d.next EXCEPT ![thing] = c[Free]] BY <1>4 DEF Buried
<1> QED BY <1>5, <1>6, <1>7 DEF Threaded, k

LEMMA BuriedKeeps ==
    ASSUME NEW d, NEW e, NEW D, NEW thing \in Objs \ D, Good(d, D \cup {thing}),
           d.location[thing] = NOTHING, Buried(d, e, thing), NothingIn(e, D)
    PROVE  Good(e, D)
<1> DEFINE E == D \cup {thing}
<1>0. d \in Db /\ Sound(d, E) /\ PlayersAt(d) /\ thing \in Objs /\ thing \in E
  BY DEF Good
<1>1. /\ e \in Db /\ e.type[thing] = "garbage" /\ e.dropto[thing] = NOTHING /\ e.location[thing] = NOTHING
      /\ \A x \in Objs : x # thing => /\ e.type[x] = d.type[x] /\ e.home[x] = d.home[x]
                                      /\ e.dropto[x] = d.dropto[x] /\ e.owner[x] = d.owner[x]
                                      /\ e.location[x] = d.location[x]
  BY <1>0 DEF Buried, Db
<1>2. d.type[thing] \in {"room", "thing", "program"} BY <1>0 DEF Sound, Fixed
<1>n. NOTHING \notin Objs /\ Free \notin Objs /\ Free # NOTHING /\ Top \in Objs /\ tp_player_start \in Objs
  BY Names, ObjectsAssumption DEF Free, NOTHING, Objs, Top
<1>t. \A x \in Objs : d.owner[x] \in Objs BY <1>0 DEF Db
<1>3. Fixed(e, D) BY <1>0, <1>1, <1>n DEF Sound, Fixed
<1>4. OwnerOK(e) BY <1>0, <1>1, <1>2, <1>t DEF Sound, OwnerOK
<1>5. HomeOK(e, D) BY <1>0, <1>1 DEF Sound, HomeOK
<1>6. DroptoOK(e, D) BY <1>0, <1>1, <1>n DEF Sound, DroptoOK
<1>7. PlayersAt(e)
  <2> SUFFICES ASSUME NEW o \in Objs, e.type[o] = "player", e.location[o] # NOTHING
               PROVE  e.type[e.location[o]] \in Near
    BY DEF PlayersAt
  <2>1. o # thing /\ d.type[o] = "player" /\ d.location[o] # NOTHING /\ e.location[o] = d.location[o]
        /\ d.location[o] \in Objs
    BY <1>0, <1>1 DEF Db, Refs
  <2>2. d.type[d.location[o]] \in Near BY <1>0, <2>1 DEF PlayersAt
  <2>3. d.location[o] = thing \/ e.type[d.location[o]] = d.type[d.location[o]]
    BY <1>1, <2>1
  <2> QED BY <1>1, <2>1, <2>2, <2>3 DEF Near
<1>8. PICK h : Threaded(d, h) /\ Placed(d, h, E) BY DEF Good, InPlace
<1>9. h \in [Objs -> Heads \cup {NOTHING}] BY <1>8 DEF Threaded, Linked, LinkTypes
<1>10. h[thing] = NOTHING
  <2>1. h[thing] \notin Objs BY <1>8, <1>n, <1>0 DEF Placed
  <2>2. h[thing] # Free BY <1>8, <1>0, <1>2 DEF Placed
  <2> QED BY <2>1, <2>2, <1>9, <1>0 DEF Heads
<1> DEFINE k == [Emptied(Objs, NOTHING, h, thing) EXCEPT ![thing] = Free]
<1>11. Threaded(e, k) BY <1>0, <1>8, <1>10, BuriedThreads
<1>12. \A x \in Objs : k[x] = IF x = thing THEN Free ELSE IF h[x] = thing THEN NOTHING ELSE h[x]
  BY DEF Emptied
<1> HIDE DEF k
<1>13. Placed(e, k, D)
  <2>1. \A x \in Objs : k[x] \in Objs => e.location[x] = k[x]
    BY <1>1, <1>8, <1>12, <1>n DEF Placed
  <2>2. \A x \in Objs : k[x] = Free <=> e.type[x] = "garbage"
    <3> SUFFICES ASSUME NEW x \in Objs, x # thing PROVE k[x] = Free <=> d.type[x] = "garbage"
      BY <1>1, <1>12
    <3>1. h[x] = Free <=> d.type[x] = "garbage" BY <1>8 DEF Placed
    <3> QED BY <3>1, <1>12, <1>n, <1>0
  <2>3. \A x \in Objs : e.type[x] = "garbage" => e.location[x] = NOTHING
    BY <1>1, <1>8 DEF Placed
  <2>4. \A x \in Objs : x \notin D /\ e.type[x] # "garbage" => k[x] = e.location[x]
    <3> SUFFICES ASSUME NEW x \in Objs, x \notin D, e.type[x] # "garbage" PROVE k[x] = e.location[x]
      OBVIOUS
    <3>1. x # thing /\ d.type[x] # "garbage" /\ x \notin E /\ e.location[x] = d.location[x]
      BY <1>1
    <3>2. h[x] = d.location[x] BY <3>1, <1>8 DEF Placed
    <3>3. h[x] # thing BY <3>1, <3>2, <1>1, <1>0 DEF NothingIn
    <3> QED BY <3>1, <3>2, <3>3, <1>12
  <2> QED BY <2>1, <2>2, <2>3, <2>4 DEF Placed
<1> QED BY <1>1, <1>3, <1>4, <1>5, <1>6, <1>7, <1>11, <1>13 DEF Good, Sound, InPlace

LEMMA DoomedIs == Doomed = DoomedIn(task)
BY DEF Doomed, BeingRecycled, DoomedIn

\* Nothing but what is being recycled lies in garbage.
NothingLost == \A o \in Objs \ Doomed : db.location[o] \notin Garbage

Tables(a, b, c, n, o, p, q, r) ==
    [type |-> a, location |-> b, contents |-> c, next |-> n,
     home |-> o, owner |-> p, dropto |-> q, recyclable |-> r]

\* One field after the other.
LEMMA BuryRecord ==
    ASSUME NEW a, NEW b, NEW c, NEW n, NEW o, NEW p, NEW q, NEW r, NEW x, NEW y, NEW m, NEW e,
           m = [type |-> a, location |-> b, contents |-> c, next |-> n,
                home |-> o, owner |-> p, dropto |-> q, recyclable |-> r],
           e = [m EXCEPT !.type[x] = "garbage", !.location[x] = NOTHING,
                         !.contents[x] = NOTHING, !.home[x] = NOTHING, !.dropto[x] = NOTHING,
                         !.owner[x] = 0, !.next[x] = y, !.recyclable = x]
    PROVE  e = [type |-> [a EXCEPT ![x] = "garbage"], location |-> [b EXCEPT ![x] = NOTHING], contents |-> [c EXCEPT ![x] = NOTHING], next |-> [n EXCEPT ![x] = y],
                  home |-> [o EXCEPT ![x] = NOTHING], owner |-> [p EXCEPT ![x] = 0], dropto |-> [q EXCEPT ![x] = NOTHING], recyclable |-> x]
<1> DEFINE m1 == [m EXCEPT !.type[x] = "garbage"]
           m2 == [m1 EXCEPT !.location[x] = NOTHING]
           m3 == [m2 EXCEPT !.contents[x] = NOTHING]
           m4 == [m3 EXCEPT !.home[x] = NOTHING]
           m5 == [m4 EXCEPT !.dropto[x] = NOTHING]
           m6 == [m5 EXCEPT !.owner[x] = 0]
           m7 == [m6 EXCEPT !.next[x] = y]
           m8 == [m7 EXCEPT !.recyclable = x]
           aa == [a EXCEPT ![x] = "garbage"]
           bb == [b EXCEPT ![x] = NOTHING]
           cc == [c EXCEPT ![x] = NOTHING]
           oo == [o EXCEPT ![x] = NOTHING]
           qq == [q EXCEPT ![x] = NOTHING]
           pp == [p EXCEPT ![x] = 0]
           nn == [n EXCEPT ![x] = y]
<1>0. e = m8 OBVIOUS
<1> HIDE DEF m8, m7, m6, m5, m4, m3, m2, m1
<1>1. m1 = Tables(aa, b, c, n, o, p, q, r) BY DEF m1, Tables
<1>2. m2 = Tables(aa, bb, c, n, o, p, q, r) BY <1>1 DEF m2, Tables
<1>3. m3 = Tables(aa, bb, cc, n, o, p, q, r) BY <1>2 DEF m3, Tables
<1>4. m4 = Tables(aa, bb, cc, n, oo, p, q, r) BY <1>3 DEF m4, Tables
<1>5. m5 = Tables(aa, bb, cc, n, oo, p, qq, r) BY <1>4 DEF m5, Tables
<1>6. m6 = Tables(aa, bb, cc, n, oo, pp, qq, r) BY <1>5 DEF m6, Tables
<1>7. m7 = Tables(aa, bb, cc, nn, oo, pp, qq, r) BY <1>6 DEF m7, Tables
<1>8. m8 = Tables(aa, bb, cc, nn, oo, pp, qq, x) BY <1>7 DEF m8, Tables
<1> QED BY <1>0, <1>8 DEF Tables

\* What is left of the thing in the database.
Buries == LET thing == Head(task).thing
          IN /\ thing \in Objs /\ thing \notin DoomedIn(Tail(task))
             /\ Steady(db, Moveto(db, thing, NOTHING), DoomedIn(Tail(task)) \cup {thing})
             /\ Shifted(db, Moveto(db, thing, NOTHING), thing)
             /\ Moveto(db, thing, NOTHING).location[thing] = NOTHING
             /\ Buried(Moveto(db, thing, NOTHING), db', thing)
             /\ task' = Tail(task) /\ Good(db, DoomedIn(Tail(task)) \cup {thing})

LEMMA RecycledBuries == Inv /\ Recycled => Buries
<1> SUFFICES ASSUME Inv, Recycled PROVE Buries OBVIOUS
<1> DEFINE thing == Head(task).thing
           rest == Tail(task)
           D == DoomedIn(rest)
           moved == Moveto(db, thing, NOTHING)
<1>1. /\ task # << >> /\ Head(task).does = "recycling" /\ ran' = ran
      /\ db' = [moved EXCEPT !.type[thing] = "garbage",
                             !.location[thing] = NOTHING,
                             !.contents[thing] = NOTHING,
                             !.home[thing] = NOTHING,
                             !.dropto[thing] = NOTHING,
                             !.owner[thing] = 0,
                             !.next[thing] = db.recyclable,
                             !.recyclable = thing]
      /\ task' = << >> \o rest
  BY DEF Recycled, Doing, Continue
<1>2. Whole(db, task) /\ Head(task) \in Frames /\ task \in Seq(Frames) /\ FramesOK(db, task)
      /\ Once(task)
  BY <1>1, HeadIs DEF Inv, Whole
<1>3. thing \in Objs BY Zenon, <1>1, <1>2 DEF Frames
<1>4. rest \in Seq(Frames) /\ FramesOK(db, rest) /\ DoomedIn(task) = D \cup {thing}
      /\ Once(rest)
  BY <1>1, <1>2, TaskPop
<1>5. thing \notin D BY <1>1, <1>2, TaskPop
<1>6. task' = rest
  <2> HIDE DEF rest
  <2> QED BY <1>1, <1>4, ConcatEmptySeq
<1>7. Good(db, D \cup {thing}) BY <1>2, <1>4 DEF Whole
<1> HIDE DEF thing, rest, D, moved
<1>10. /\ Steady(db, moved, D \cup {thing})
  <2>1. PlaceFor(db, thing, NOTHING) /\ NOTHING \in Refs \cup {HOME}
    BY DEF PlaceFor, Refs
  <2> QED BY <1>3, <1>7, <2>1, MovetoKeeps DEF moved
<1>11. Shifted(db, moved, thing) /\ moved.location[thing] = NOTHING /\ moved.recyclable = db.recyclable
  <2>1. \E to \in Refs : MovedTo(db, moved, thing, to, D \cup {thing}) /\ Comes(db, D \cup {thing}, thing, NOTHING, to)
    <3>1. db \in Db /\ Sound(db, D \cup {thing}) /\ InPlace(db, D \cup {thing})
          /\ NOTHING \in Refs \cup {HOME}
      BY <1>7 DEF Good, Refs
    <3> QED BY <1>3, <3>1, MovetoMoves DEF moved
  <2> QED BY <2>1 DEF MovedTo, Shifted, Comes
<1>12. Buried(moved, db', thing)
  <2>1. moved \in Db /\ db.recyclable \in Refs /\ thing \in Refs /\ NOTHING \in Refs /\ 0 \in Objs
    <3>1. moved \in Db /\ db \in Db BY <1>7, <1>10 DEF Steady, Good
    <3>2. db.recyclable \in Refs BY <3>1 DEF Db
    <3> QED BY <1>3, <3>1, <3>2, ObjectsAssumption DEF Refs, Objs
  <2>2. moved = [type |-> moved.type, location |-> moved.location, contents |-> moved.contents,
                 next |-> moved.next, home |-> moved.home, owner |-> moved.owner,
                 dropto |-> moved.dropto, recyclable |-> moved.recyclable]
    BY <2>1 DEF Db
  <2>e. db' = [type |-> [moved.type EXCEPT ![thing] = "garbage"],
               location |-> [moved.location EXCEPT ![thing] = NOTHING],
               contents |-> [moved.contents EXCEPT ![thing] = NOTHING],
               next |-> [moved.next EXCEPT ![thing] = db.recyclable],
               home |-> [moved.home EXCEPT ![thing] = NOTHING],
               owner |-> [moved.owner EXCEPT ![thing] = 0],
               dropto |-> [moved.dropto EXCEPT ![thing] = NOTHING],
               recyclable |-> thing]
    <3>1. PICK e : e = db' OBVIOUS
    <3>2. PICK a, b, c, n, o, p, q, r :
            moved = [type |-> a, location |-> b, contents |-> c, next |-> n,
                     home |-> o, owner |-> p, dropto |-> q, recyclable |-> r]
      BY <2>2, Zenon
    <3>3. /\ moved.type = a /\ moved.location = b /\ moved.contents = c /\ moved.next = n
          /\ moved.home = o /\ moved.owner = p /\ moved.dropto = q
      BY <3>2
    <3>4. PICK y : y = db.recyclable OBVIOUS
    <3>5. e = [moved EXCEPT !.type[thing] = "garbage", !.location[thing] = NOTHING,
                            !.contents[thing] = NOTHING, !.home[thing] = NOTHING,
                            !.dropto[thing] = NOTHING, !.owner[thing] = 0,
                            !.next[thing] = y, !.recyclable = thing]
      BY <1>1, <3>1, <3>4, Zenon
    <3>6. e = [type |-> [a EXCEPT ![thing] = "garbage"], location |-> [b EXCEPT ![thing] = NOTHING],
               contents |-> [c EXCEPT ![thing] = NOTHING], next |-> [n EXCEPT ![thing] = y],
               home |-> [o EXCEPT ![thing] = NOTHING], owner |-> [p EXCEPT ![thing] = 0],
               dropto |-> [q EXCEPT ![thing] = NOTHING], recyclable |-> thing]
      BY <3>2, <3>5, BuryRecord, Zenon
    <3> QED BY <3>1, <3>3, <3>4, <3>6, Zenon
  <2>3. /\ moved.type \in [Objs -> Types] /\ moved.location \in [Objs -> Refs]
        /\ moved.contents \in [Objs -> Refs] /\ moved.home \in [Objs -> Refs]
        /\ moved.dropto \in [Objs -> Refs \cup {HOME}] /\ moved.owner \in [Objs -> Objs]
        /\ moved.next \in [Objs -> Refs]
    BY <2>1 DEF Db
  <2>4. db' \in Db
    <3>1. [moved.type EXCEPT ![thing] = "garbage"] \in [Objs -> Types]
      BY <2>3 DEF Types
    <3>2. /\ [moved.location EXCEPT ![thing] = NOTHING] \in [Objs -> Refs]
          /\ [moved.contents EXCEPT ![thing] = NOTHING] \in [Objs -> Refs]
          /\ [moved.home EXCEPT ![thing] = NOTHING] \in [Objs -> Refs]
          /\ [moved.next EXCEPT ![thing] = db.recyclable] \in [Objs -> Refs]
      BY <2>1, <2>3
    <3>3. /\ [moved.dropto EXCEPT ![thing] = NOTHING] \in [Objs -> Refs \cup {HOME}]
          /\ [moved.owner EXCEPT ![thing] = 0] \in [Objs -> Objs]
      BY <2>1, <2>3
    <3> QED BY <2>1, <2>e, <3>1, <3>2, <3>3 DEF Db
  <2>5. /\ db'.type = [moved.type EXCEPT ![thing] = "garbage"]
        /\ db'.location = [moved.location EXCEPT ![thing] = NOTHING]
        /\ db'.contents = [moved.contents EXCEPT ![thing] = NOTHING]
        /\ db'.home = [moved.home EXCEPT ![thing] = NOTHING]
        /\ db'.dropto = [moved.dropto EXCEPT ![thing] = NOTHING]
        /\ db'.owner = [moved.owner EXCEPT ![thing] = 0]
        /\ db'.next = [moved.next EXCEPT ![thing] = db.recyclable] /\ db'.recyclable = thing
    BY <2>e
  <2> QED BY <2>4, <2>5, <1>11 DEF Buried
<1> QED BY <1>3, <1>5, <1>6, <1>7, <1>10, <1>11, <1>12 DEF Buries, thing, rest, D, moved

LEMMA RecycledKeeps == Inv /\ NothingLost' /\ Recycled => Inv'
<1> SUFFICES ASSUME Inv, NothingLost', Recycled PROVE Inv' OBVIOUS
<1> DEFINE thing == Head(task).thing
           rest == Tail(task)
           D == DoomedIn(rest)
           moved == Moveto(db, thing, NOTHING)
<1>1. task # << >> /\ ran' = ran BY DEF Recycled, Doing, Continue
<1>2. Whole(db, task) BY DEF Inv
<1>3. /\ thing \in Objs /\ thing \notin D /\ Steady(db, moved, D \cup {thing})
      /\ moved.location[thing] = NOTHING /\ Buried(moved, db', thing)
      /\ task' = rest /\ Good(db, D \cup {thing})
  BY RecycledBuries DEF Buries
<1>4. rest \in Seq(Frames) /\ FramesOK(db, rest) /\ Once(rest)
  BY <1>1, <1>2, TaskPop DEF Whole
<1>8. \A o \in Objs \ D : db'.location[o] \notin Garbage'
  BY <1>3, DoomedIs DEF NothingLost, Doomed, BeingRecycled, DoomedIn
<1>9. NothingIn(db', D) BY <1>8 DEF NothingIn, Garbage
<1> HIDE DEF thing, rest, D, moved
<1>13. Good(db', D) BY <1>3, <1>9, BuriedKeeps DEF Steady
<1>14. FramesOK(db', rest)
  <2>1. \A x \in Objs : x # thing => db'.type[x] = db.type[x]
    BY <1>3 DEF Buried, Steady, Good, Db
  <2>2. db'.type[thing] = "garbage" BY <1>3 DEF Buried, Steady, Good, Db
  <2>3. db.type[thing] # "player" BY <1>3 DEF Good, Sound, Fixed
  <2>4. \A f \in Frames : FrameOK(db, f) => FrameOK(db', f)
    <3> SUFFICES ASSUME NEW f \in Frames, FrameOK(db, f) PROVE FrameOK(db', f)
      OBVIOUS
    <3>1. f.does \in {"send", "sending"} => db'.type[f.loc] \in Near
      <4> SUFFICES ASSUME f.does \in {"send", "sending"} PROVE db'.type[f.loc] \in Near
        OBVIOUS
      <4>1. f.loc \in Objs BY Zenon DEF Frames
      <4> QED BY <4>1, <2>1, <2>2 DEF FrameOK, Near
    <3>2. f.does = "moveto" => db'.type[f.what] # "player"
      <4> SUFFICES ASSUME f.does = "moveto" PROVE db'.type[f.what] # "player"
        OBVIOUS
      <4>1. f.what \in Objs BY Zenon DEF Frames
      <4> QED BY <4>1, <2>1, <2>2 DEF FrameOK
    <3>3. f.does = "toad" => f.what \in Objs /\ f.by \in Objs /\ f.recipient \in Objs
      BY Zenon DEF Frames
    <3> QED BY <3>1, <3>2, <3>3, <2>1, <2>3 DEF FrameOK
  <2>5. \A i \in 1 .. Len(rest) : rest[i] \in Frames BY <1>4
  <2> QED BY <2>4, <2>5, <1>4 DEF FramesOK
<1>15. Whole(db', task') BY <1>3, <1>4, <1>13, <1>14 DEF Whole, D
<1> QED BY <1>1, <1>15, InvFrom DEF Inv

\* @toad: the player is a thing now.
ToadedFrom(d, e, what, by, recipient) ==
    /\ e \in Db
    /\ e.type = [d.type EXCEPT ![what] = "thing"]
    /\ e.owner = [o \in Objs |-> IF o = what THEN by
                                 ELSE IF d.owner[o] = what THEN recipient ELSE d.owner[o]]
    /\ e.home = [o \in Objs |-> IF o = what THEN d.home[by]
                                ELSE IF d.type[o] = "thing" /\ d.home[o] = what
                                       THEN tp_player_start ELSE d.home[o]]
    /\ e.location = d.location /\ e.contents = d.contents /\ e.next = d.next
    /\ e.dropto = d.dropto /\ e.recyclable = d.recyclable

LEMMA ToadedGood ==
    ASSUME NEW d, NEW e, NEW what \in Objs, NEW by \in Objs, NEW recipient \in Objs,
           Good(d, {}), ToadedFrom(d, e, what, by, recipient),
           d.type[what] = "player", d.type[by] = "player", d.type[recipient] = "player",
           what \notin {by, recipient}
    PROVE  Good(e, {})
<1>1. d \in Db /\ Sound(d, {}) /\ PlayersAt(d) BY DEF Good
<1>2. /\ e \in Db /\ e.dropto = d.dropto /\ e.location = d.location
      /\ \A o \in Objs : e.type[o] = IF o = what THEN "thing" ELSE d.type[o]
      /\ e.owner[what] = by /\ e.home[what] = d.home[by]
      /\ \A o \in Objs : o # what =>
            /\ e.owner[o] = IF d.owner[o] = what THEN recipient ELSE d.owner[o]
            /\ e.home[o] = IF d.type[o] = "thing" /\ d.home[o] = what
                             THEN tp_player_start ELSE d.home[o]
  BY <1>1 DEF ToadedFrom, Db
<1>n. Top \in Objs /\ tp_player_start \in Objs BY ObjectsAssumption DEF Objs, Top
<1>t. \A x \in Objs : d.owner[x] \in Objs BY <1>1 DEF Db
<1>3. Fixed(e, {}) BY <1>1, <1>2, <1>n DEF Sound, Fixed
<1>4. OwnerOK(e) BY <1>1, <1>2, <1>t DEF Sound, OwnerOK
<1>5. HomeOK(e, {})
  <2> SUFFICES ASSUME NEW o \in Objs
               PROVE  /\ e.type[o] = "thing" => e.home[o] \in Objs /\ e.type[e.home[o]] \in Containers
                      /\ e.type[o] = "player" => e.home[o] \in Objs /\ e.type[e.home[o]] = "room"
    BY DEF HomeOK
  <2>1. CASE o = what BY <2>1, <1>1, <1>2 DEF Sound, HomeOK, Containers
  <2>2. CASE o # what BY <2>2, <1>1, <1>2, <1>n DEF Sound, Fixed, HomeOK, Containers
  <2> QED BY <2>1, <2>2
<1>6. DroptoOK(e, {}) BY <1>1, <1>2 DEF Sound, DroptoOK
<1>7. PlayersAt(e)
  <2> SUFFICES ASSUME NEW o \in Objs, e.type[o] = "player", e.location[o] # NOTHING
               PROVE  e.type[e.location[o]] \in Near
    BY DEF PlayersAt
  <2>1. d.type[o] = "player" /\ d.location[o] # NOTHING /\ d.location[o] \in Objs
    BY <1>1, <1>2 DEF Db, Refs
  <2> QED BY <2>1, <1>1, <1>2 DEF PlayersAt, Near, Containers
<1>8. PICK h : Threaded(d, h) /\ Placed(d, h, {}) BY DEF Good, InPlace
<1>9. Threaded(e, h) BY <1>8, ThreadedSame, Zenon DEF ToadedFrom
<1>10. Placed(e, h, {}) BY <1>2, <1>8 DEF Placed
<1> QED BY <1>2, <1>3, <1>4, <1>5, <1>6, <1>7, <1>9, <1>10 DEF Good, Sound, InPlace

LEMMA ToadedKeeps == Inv /\ Toaded => Inv'
<1> SUFFICES ASSUME Inv, Toaded PROVE Inv' OBVIOUS
<1> DEFINE t == Head(task)
           what == t.what
           by == t.by
           recipient == t.recipient
           owners == [o \in Objs |-> IF o = what THEN by
                                     ELSE IF db.owner[o] = what THEN recipient ELSE db.owner[o]]
           homes == [o \in Objs |-> IF o = what THEN db.home[by]
                                    ELSE IF db.type[o] = "thing" /\ db.home[o] = what
                                           THEN tp_player_start ELSE db.home[o]]
<1>1. /\ task # << >> /\ Head(task).does = "toad" /\ ran' = ran
      /\ db' = [db EXCEPT !.owner = owners, !.home = homes, !.type[what] = "thing"]
      /\ task' = << >> \o Tail(task)
  BY Zenon DEF Toaded, Doing, Continue
<1>2. Whole(db, task) /\ Head(task) \in Frames /\ FrameOK(db, Head(task))
  BY <1>1, HeadIs DEF Inv
<1>3. what \in Objs /\ by \in Objs /\ recipient \in Objs
  BY Zenon, <1>1, <1>2 DEF Frames
<1>4. /\ db.type[what] = "player" /\ db.type[by] = "player"
      /\ db.type[recipient] = "player" /\ what \notin {by, recipient}
  BY <1>1, <1>2 DEF FrameOK
<1>5. Tail(task) = << >> /\ DoomedIn(task) = DoomedIn(Tail(task))
  BY <1>1, <1>2, TaskPop DEF Whole
<1>6. Good(db, {}) /\ task' = << >>
  <2>1. << >> \o << >> = << >> BY ConcatEmptySeq
  <2> QED BY <1>1, <1>2, <1>5, <2>1, NoneDoomed DEF Whole
<1> HIDE DEF what, by, recipient
<1>7. ToadedFrom(db, db', what, by, recipient)
  <2>1. db \in Db BY <1>6 DEF Good
  <2>2. /\ owners \in [Objs -> Objs] /\ homes \in [Objs -> Refs]
        /\ [db.type EXCEPT ![what] = "thing"] \in [Objs -> Types]
    <3>1. /\ db.owner \in [Objs -> Objs] /\ db.home \in [Objs -> Refs] /\ db.type \in [Objs -> Types]
          /\ tp_player_start \in Refs /\ "thing" \in Types
      BY <2>1, ObjectsAssumption DEF Db, Refs, Objs, Types
    <3>2. owners \in [Objs -> Objs] BY <1>3, <3>1
    <3>3. homes \in [Objs -> Refs] BY <1>3, <3>1
    <3> QED BY <3>1, <3>2, <3>3
  <2> HIDE DEF owners, homes
  <2>3. db' = [type |-> [db.type EXCEPT ![what] = "thing"], location |-> db.location,
               contents |-> db.contents, next |-> db.next, home |-> homes, owner |-> owners,
               dropto |-> db.dropto, recyclable |-> db.recyclable]
    BY <1>1, <2>1 DEF Db
  <2>4. /\ db.location \in [Objs -> Refs] /\ db.contents \in [Objs -> Refs]
        /\ db.next \in [Objs -> Refs] /\ db.dropto \in [Objs -> Refs \cup {HOME}]
        /\ db.recyclable \in Refs
    BY <2>1 DEF Db
  <2>5. db' \in Db BY <2>2, <2>3, <2>4 DEF Db
  <2>6. /\ db'.type = [db.type EXCEPT ![what] = "thing"] /\ db'.owner = owners /\ db'.home = homes
        /\ db'.location = db.location /\ db'.contents = db.contents /\ db'.next = db.next
        /\ db'.dropto = db.dropto /\ db'.recyclable = db.recyclable
    BY <2>3
  <2> QED BY <2>5, <2>6, Zenon DEF ToadedFrom, owners, homes
<1>8. Good(db', {}) BY <1>3, <1>4, <1>6, <1>7, ToadedGood
<1>9. Whole(db', task')
  <2>1. DoomedIn(task') = {} /\ task' \in Seq(Frames) /\ FramesOK(db', task') /\ Once(task')
    BY <1>6, NoneDoomed DEF FramesOK, Once
  <2> QED BY <1>8, <2>1 DEF Whole
<1> QED BY <1>1, <1>9, InvFrom DEF Inv

\* A new object is made: the first of the free list.
Made(d, e, type, location, home, owner) ==
    /\ e \in Db
    /\ e.recyclable = d.next[d.recyclable]
    /\ e.type = [d.type EXCEPT ![d.recyclable] = type]
    /\ e.location = [d.location EXCEPT ![d.recyclable] = location]
    /\ e.home = [d.home EXCEPT ![d.recyclable] = home]
    /\ e.owner = [d.owner EXCEPT ![d.recyclable] = owner]
    /\ e.dropto = [d.dropto EXCEPT ![d.recyclable] = NOTHING]
    /\ e.contents = [[d.contents EXCEPT ![d.recyclable] = NOTHING]
                        EXCEPT ![location] = d.recyclable]
    /\ e.next = [d.next EXCEPT ![d.recyclable] = d.contents[location]]

\* What is made, where, whose.
MayMake(d, type, location, home, owner) ==
    /\ d.recyclable \in Objs
    /\ type \in {"room", "thing", "program"}
    /\ location \in Objs /\ d.type[location] # "garbage"
    /\ owner \in Objs /\ d.type[owner] = "player"
    /\ home \in Refs /\ (type = "thing" => home \in Objs /\ d.type[home] \in Containers)

LEMMA NewThreads ==
    ASSUME NEW d \in Db, NEW e, NEW h, NEW type, NEW location, NEW home, NEW owner,
           Threaded(d, h), Placed(d, h, {}), NothingIn(d, {}),
           MayMake(d, type, location, home, owner), Made(d, e, type, location, home, owner)
    PROVE  d.type[d.recyclable] = "garbage" /\ Threaded(e, [h EXCEPT ![d.recyclable] = location])
<1> DEFINE new == d.recyclable
<1>1. PICK B : \E r : Linked(Objs, Heads, NOTHING, Firsts(d), d.next, h, r, B)
  BY DEF Threaded
<1>2. PICK r : Linked(Objs, Heads, NOTHING, Firsts(d), d.next, h, r, B) BY <1>1
<1>f. /\ Firsts(d) \in [Heads -> Refs] /\ Firsts(d)[Free] = d.recyclable
      /\ \A l \in Objs : Firsts(d)[l] = d.contents[l]
      /\ d.next \in [Objs -> Refs] /\ d.contents \in [Objs -> Refs] /\ d.recyclable \in Refs
  BY FirstsTyped, Zenon
<1>c. /\ FirstIsIn(Heads, NOTHING, Firsts(d), h) /\ NextIsIn(Objs, NOTHING, Firsts(d), d.next, h, r)
      /\ h \in [Objs -> Heads \cup {NOTHING}]
  BY <1>2 DEF Linked, LinkTypes
<1>l. /\ new \in Objs /\ location \in Objs /\ location \in Heads /\ new \in Heads /\ Free \in Heads
      /\ new # Free /\ location # Free /\ new # NOTHING /\ Free # NOTHING
      /\ \A l \in Heads : l = Free \/ l \in Objs
  BY Names DEF Heads, MayMake, Free, NOTHING
<1>3. h[new] = Free BY <1>c, <1>f, <1>l DEF FirstIsIn
<1>4. d.type[new] = "garbage" BY <1>3, <1>l DEF Placed
<1>5. location # new BY <1>4 DEF MayMake
<1>6. d.contents[new] = NOTHING
  <2> SUFFICES ASSUME d.contents[new] # NOTHING PROVE FALSE OBVIOUS
  <2>1. d.contents[new] \in Objs /\ h[d.contents[new]] = new
    BY <1>c, <1>f, <1>l DEF FirstIsIn, Refs
  <2>2. d.location[d.contents[new]] = new BY <2>1, <1>l DEF Placed
  <2> QED BY <2>1, <2>2, <1>4, <1>l DEF NothingIn
<1> DEFINE c == [Firsts(d) EXCEPT ![Free] = d.next[new]]
           k == [h EXCEPT ![new] = NOTHING]
<1>7. c \in [Heads -> Refs] /\ \A l \in Heads : c[l] = IF l = Free THEN d.next[new] ELSE Firsts(d)[l]
  BY <1>f, <1>l
<1>8. Bypass(Objs, Heads, NOTHING, Firsts(d), d.next, h, new, c, d.next)
  <2>1. ASSUME NEW l \in Heads
        PROVE  c[l] = IF Firsts(d)[l] = new THEN d.next[new] ELSE Firsts(d)[l]
    <3>1. Firsts(d)[l] = new => l = Free BY <1>3, <1>c, <1>l DEF FirstIsIn
    <3> QED BY <3>1, <1>7, <1>f
  <2>2. ASSUME NEW y \in Objs, h[y] # NOTHING
        PROVE  d.next[y] # new
    <3> SUFFICES ASSUME d.next[y] = new PROVE FALSE OBVIOUS
    <3>1. h[new] = h[y] /\ new # Firsts(d)[h[y]] BY <2>2, <1>c, <1>l DEF NextIsIn
    <3> QED BY <3>1, <1>3, <1>f
  <2> HIDE DEF new, c
  <2> QED BY <2>1, <2>2 DEF Bypass
<1> HIDE DEF c
<1>9. Linked(Objs, Heads, NOTHING, c, d.next, k, r, B)
  <2>1. c \in [Heads -> Objs \cup {NOTHING}] /\ d.next \in [Objs -> Objs \cup {NOTHING}] /\ new \in Objs
    BY <1>7, <1>f, <1>l DEF Refs
  <2> HIDE DEF new
  <2> QED BY <1>2, <1>8, <2>1, Names, ChainWithout, Zenon
<1>10. k[new] = NOTHING /\ k \in [Objs -> Heads \cup {NOTHING}] /\ c[location] = d.contents[location]
  BY <1>7, <1>c, <1>f, <1>l
<1> HIDE DEF k
<1>11. Linked(Objs, Heads, NOTHING, [c EXCEPT ![location] = new], [d.next EXCEPT ![new] = c[location]],
             [k EXCEPT ![new] = location], [r EXCEPT ![new] = B + 1], B + 1)
  BY <1>9, <1>10, <1>l, Names, ChainPush
<1>12. Firsts(e) = [c EXCEPT ![location] = new]
  <2> DEFINE ec == [[d.contents EXCEPT ![new] = NOTHING] EXCEPT ![location] = new]
  <2>1. Firsts(e) = [l \in Heads |-> IF l = Free THEN d.next[new] ELSE ec[l]]
    <3>1. e.contents = ec /\ e.recyclable = d.next[new] BY DEF Made
    <3> QED BY <3>1, Zenon DEF Firsts
  <2>2. \A l \in Objs : ec[l] = IF l = location THEN new ELSE d.contents[l]
    BY <1>f, <1>l, <1>6
  <2> HIDE DEF ec, new
  <2>3. Firsts(e) = [l \in Heads |-> IF l = location THEN new ELSE c[l]]
    <3>1. \A l \in Heads : (IF l = Free THEN d.next[new] ELSE ec[l]) = IF l = location THEN new ELSE c[l]
      BY <2>2, <1>7, <1>f, <1>l
    <3> QED BY <2>1, <3>1
  <2> QED BY <2>3, <1>7
<1>13. e.next = [d.next EXCEPT ![new] = c[location]] BY <1>10 DEF Made
<1>14. [k EXCEPT ![new] = location] = [h EXCEPT ![new] = location]
  BY <1>c, <1>l DEF k
<1>15. Threaded(e, [k EXCEPT ![new] = location]) BY <1>11, <1>12, <1>13 DEF Threaded
<1> QED BY <1>4, <1>14, <1>15

LEMMA NewKeeps ==
    ASSUME NEW d, NEW e, NEW type, NEW location, NEW home, NEW owner,
           Good(d, {}), NothingIn(d, {}),
           MayMake(d, type, location, home, owner), Made(d, e, type, location, home, owner)
    PROVE  Good(e, {})
<1> DEFINE new == d.recyclable
<1>1. d \in Db /\ Sound(d, {}) /\ PlayersAt(d) /\ new \in Objs BY DEF Good, MayMake
<1>2. PICK h : Threaded(d, h) /\ Placed(d, h, {}) BY DEF Good, InPlace
<1>3. d.type[new] = "garbage" /\ Threaded(e, [h EXCEPT ![new] = location])
  BY <1>1, <1>2, NewThreads
<1>4. /\ e \in Db /\ e.type[new] = type /\ e.location[new] = location /\ e.home[new] = home
      /\ e.owner[new] = owner /\ e.dropto[new] = NOTHING
      /\ \A x \in Objs : x # new => /\ e.type[x] = d.type[x] /\ e.home[x] = d.home[x]
                                    /\ e.dropto[x] = d.dropto[x] /\ e.owner[x] = d.owner[x]
                                    /\ e.location[x] = d.location[x]
  BY <1>1 DEF Made, Db
<1>5. /\ type \in {"room", "thing", "program"} /\ location \in Objs /\ location # new
      /\ owner \in Objs /\ owner # new /\ d.type[owner] = "player"
      /\ type = "thing" => home \in Objs /\ home # new /\ d.type[home] \in Containers
  BY <1>3 DEF MayMake, Containers
<1>n. Top \in Objs /\ tp_player_start \in Objs /\ NOTHING \notin Objs
  BY Names, ObjectsAssumption DEF Objs, Top
<1>t. \A x \in Objs : d.owner[x] \in Objs BY <1>1 DEF Db
<1> HIDE DEF new
<1>6. Fixed(e, {}) BY <1>1, <1>3, <1>4, <1>n DEF Sound, Fixed
<1>7. OwnerOK(e) BY <1>1, <1>3, <1>4, <1>5, <1>t DEF Sound, OwnerOK
<1>8. HomeOK(e, {})
  <2> SUFFICES ASSUME NEW o \in Objs
               PROVE  /\ e.type[o] = "thing" => e.home[o] \in Objs /\ e.type[e.home[o]] \in Containers
                      /\ e.type[o] = "player" => e.home[o] \in Objs /\ e.type[e.home[o]] = "room"
    BY DEF HomeOK
  <2>1. CASE o = new BY <2>1, <1>4, <1>5
  <2>2. CASE o # new BY <2>2, <1>1, <1>3, <1>4 DEF Sound, HomeOK, Containers
  <2> QED BY <2>1, <2>2
<1>9. DroptoOK(e, {}) BY <1>1, <1>3, <1>4, <1>n DEF Sound, DroptoOK
<1>10. PlayersAt(e)
  <2> SUFFICES ASSUME NEW o \in Objs, e.type[o] = "player", e.location[o] # NOTHING
               PROVE  e.type[e.location[o]] \in Near
    BY DEF PlayersAt
  <2>1. o # new /\ d.type[o] = "player" /\ d.location[o] # NOTHING /\ e.location[o] = d.location[o]
        /\ d.location[o] \in Objs
    BY <1>1, <1>4, <1>5 DEF Db, Refs
  <2>2. d.location[o] # new BY <2>1, <1>1, <1>3 DEF NothingIn
  <2> QED BY <2>1, <2>2, <1>1, <1>4 DEF PlayersAt
<1> DEFINE k == [h EXCEPT ![new] = location]
<1>11. \A x \in Objs : k[x] = IF x = new THEN location ELSE h[x]
  BY <1>1, <1>2 DEF Threaded, Linked, LinkTypes
<1> HIDE DEF k
<1>12. Placed(e, k, {})
  <2>1. \A x \in Objs : k[x] \in Objs => e.location[x] = k[x]
    BY <1>2, <1>4, <1>11 DEF Placed
  <2>2. \A x \in Objs : k[x] = Free <=> e.type[x] = "garbage"
    BY <1>2, <1>4, <1>5, <1>11, Names DEF Placed
  <2>3. \A x \in Objs : e.type[x] = "garbage" => e.location[x] = NOTHING
    BY <1>2, <1>4, <1>5 DEF Placed
  <2>4. \A x \in Objs : x \notin {} /\ e.type[x] # "garbage" => k[x] = e.location[x]
    BY <1>2, <1>4, <1>11 DEF Placed
  <2> QED BY <2>1, <2>2, <2>3, <2>4 DEF Placed
<1>13. InPlace(e, {}) BY <1>3, <1>12 DEF InPlace, k
<1> QED BY <1>4, <1>6, <1>7, <1>8, <1>9, <1>10, <1>13 DEF Good, Sound

\* One field after the other.
LEMMA MakeRecord ==
    ASSUME NEW a, NEW b, NEW c, NEW n, NEW o, NEW p, NEW q, NEW r, NEW x, NEW z,
           NEW ty, NEW lo, NEW ho, NEW ow, NEW m, NEW e,
           m = [type |-> a, location |-> b, contents |-> c, next |-> n,
                home |-> o, owner |-> p, dropto |-> q, recyclable |-> r],
           e = [m EXCEPT !.recyclable = z, !.type[x] = ty, !.location[x] = lo,
                         !.contents[x] = NOTHING, !.home[x] = ho, !.owner[x] = ow,
                         !.dropto[x] = NOTHING]
    PROVE  e = [type |-> [a EXCEPT ![x] = ty], location |-> [b EXCEPT ![x] = lo], contents |-> [c EXCEPT ![x] = NOTHING], next |-> n,
                  home |-> [o EXCEPT ![x] = ho], owner |-> [p EXCEPT ![x] = ow], dropto |-> [q EXCEPT ![x] = NOTHING], recyclable |-> z]
<1> DEFINE m1 == [m EXCEPT !.recyclable = z]
           m2 == [m1 EXCEPT !.type[x] = ty]
           m3 == [m2 EXCEPT !.location[x] = lo]
           m4 == [m3 EXCEPT !.contents[x] = NOTHING]
           m5 == [m4 EXCEPT !.home[x] = ho]
           m6 == [m5 EXCEPT !.owner[x] = ow]
           m7 == [m6 EXCEPT !.dropto[x] = NOTHING]
           aa == [a EXCEPT ![x] = ty]
           bb == [b EXCEPT ![x] = lo]
           cc == [c EXCEPT ![x] = NOTHING]
           oo == [o EXCEPT ![x] = ho]
           pp == [p EXCEPT ![x] = ow]
           qq == [q EXCEPT ![x] = NOTHING]
<1>0. e = m7 OBVIOUS
<1> HIDE DEF m7, m6, m5, m4, m3, m2, m1
<1>1. m1 = Tables(a, b, c, n, o, p, q, z) BY DEF m1, Tables
<1>2. m2 = Tables(aa, b, c, n, o, p, q, z) BY <1>1 DEF m2, Tables
<1>3. m3 = Tables(aa, bb, c, n, o, p, q, z) BY <1>2 DEF m3, Tables
<1>4. m4 = Tables(aa, bb, cc, n, o, p, q, z) BY <1>3 DEF m4, Tables
<1>5. m5 = Tables(aa, bb, cc, n, oo, p, q, z) BY <1>4 DEF m5, Tables
<1>6. m6 = Tables(aa, bb, cc, n, oo, pp, q, z) BY <1>5 DEF m6, Tables
<1>7. m7 = Tables(aa, bb, cc, n, oo, pp, qq, z) BY <1>6 DEF m7, Tables
<1> QED BY <1>0, <1>7 DEF Tables


LEMMA NewMakes ==
    ASSUME NEW type, NEW location, NEW home, NEW owner, db \in Db,
           MayMake(db, type, location, home, owner), location # db.recyclable
    PROVE  Made(db, New(type, location, home, owner), type, location, home, owner)
<1> DEFINE new == db.recyclable
           m == [db EXCEPT !.recyclable = db.next[new], !.type[new] = type,
                           !.location[new] = location, !.contents[new] = NOTHING,
                           !.home[new] = home, !.owner[new] = owner, !.dropto[new] = NOTHING]
           e == [m EXCEPT !.next[new] = m.contents[location], !.contents[location] = new]
<1>1. New(type, location, home, owner) = e BY Zenon DEF New, Push
<1> SUFFICES Made(db, e, type, location, home, owner) BY <1>1
<1>2. PICK a, b, c, n, o, p, q, r :
        db = [type |-> a, location |-> b, contents |-> c, next |-> n,
              home |-> o, owner |-> p, dropto |-> q, recyclable |-> r]
  BY DEF Db
<1>3. /\ db.type = a /\ db.location = b /\ db.contents = c /\ db.next = n
      /\ db.home = o /\ db.owner = p /\ db.dropto = q
  BY <1>2
<1>4. PICK z : z = db.next[new] OBVIOUS
<1>m. PICK mm : mm = m OBVIOUS
<1>5. mm = [db EXCEPT !.recyclable = z, !.type[new] = type, !.location[new] = location,
                      !.contents[new] = NOTHING, !.home[new] = home, !.owner[new] = owner,
                      !.dropto[new] = NOTHING]
  BY <1>4, <1>m, Zenon
<1>x. PICK x : x = new OBVIOUS
<1>6. mm = [db EXCEPT !.recyclable = z, !.type[x] = type, !.location[x] = location,
                      !.contents[x] = NOTHING, !.home[x] = home, !.owner[x] = owner,
                      !.dropto[x] = NOTHING]
  BY <1>5, <1>x, Zenon
<1>7. mm = [type |-> [a EXCEPT ![x] = type], location |-> [b EXCEPT ![x] = location],
            contents |-> [c EXCEPT ![x] = NOTHING], next |-> n,
            home |-> [o EXCEPT ![x] = home], owner |-> [p EXCEPT ![x] = owner],
            dropto |-> [q EXCEPT ![x] = NOTHING], recyclable |-> z]
  BY <1>2, <1>6, MakeRecord, Zenon
<1>8. PICK ee : ee = e OBVIOUS
<1>9. ee = [mm EXCEPT !.next[x] = mm.contents[location], !.contents[location] = x]
  BY <1>8, <1>m, <1>x, Zenon
<1> SUFFICES Made(db, ee, type, location, home, owner) BY <1>8
<1> HIDE DEF m, e, new
<1>10. [c EXCEPT ![x] = NOTHING][location] = c[location]
  BY <1>3, <1>x DEF Db, new, MayMake
<1>11. ee = [type |-> [a EXCEPT ![x] = type], location |-> [b EXCEPT ![x] = location],
             contents |-> [[c EXCEPT ![x] = NOTHING] EXCEPT ![location] = x],
             next |-> [n EXCEPT ![x] = c[location]],
             home |-> [o EXCEPT ![x] = home], owner |-> [p EXCEPT ![x] = owner],
             dropto |-> [q EXCEPT ![x] = NOTHING], recyclable |-> z]
  <2> DEFINE c1 == [c EXCEPT ![x] = NOTHING]
  <2>1. mm.contents = c1 /\ c1[location] = c[location] /\ mm.next = n BY <1>7, <1>10
  <2> DEFINE A == [a EXCEPT ![x] = type]
             L == [b EXCEPT ![x] = location]
             O == [o EXCEPT ![x] = home]
             W == [p EXCEPT ![x] = owner]
             Q == [q EXCEPT ![x] = NOTHING]
  <2>2. mm = [type |-> A, location |-> L, contents |-> c1, next |-> n,
              home |-> O, owner |-> W, dropto |-> Q, recyclable |-> z]
    BY <1>7
  <2> HIDE DEF A, L, O, W, Q, c1
  <2>3. ee = [type |-> A, location |-> L, contents |-> [c1 EXCEPT ![location] = x],
              next |-> [n EXCEPT ![x] = c[location]],
              home |-> O, owner |-> W, dropto |-> Q, recyclable |-> z]
    <3> DEFINE v == mm.contents[location]
               m2 == [mm EXCEPT !.next[x] = v]
    <3>1. ee = [m2 EXCEPT !.contents[location] = x] BY <1>9, Zenon
    <3>2. v = c[location] BY <2>1
    <3> HIDE DEF v
    <3>3. m2 = [type |-> A, location |-> L, contents |-> c1, next |-> [n EXCEPT ![x] = v],
                home |-> O, owner |-> W, dropto |-> Q, recyclable |-> z]
      BY <2>2
    <3> HIDE DEF m2
    <3>4. ee = [type |-> A, location |-> L, contents |-> [c1 EXCEPT ![location] = x],
                next |-> [n EXCEPT ![x] = v],
                home |-> O, owner |-> W, dropto |-> Q, recyclable |-> z]
      BY <3>1, <3>3
    <3> QED BY <3>2, <3>4
  <2> QED BY <2>3 DEF A, L, O, W, Q, c1
<1>12. ee \in Db
  <2>1. /\ a \in [Objs -> Types] /\ b \in [Objs -> Refs] /\ c \in [Objs -> Refs] /\ n \in [Objs -> Refs]
        /\ o \in [Objs -> Refs] /\ p \in [Objs -> Objs] /\ q \in [Objs -> Refs \cup {HOME}]
    BY <1>3 DEF Db
  <2>2. x \in Objs /\ x \in Refs /\ z \in Refs /\ location \in Objs /\ location \in Refs /\ type \in Types
        /\ home \in Refs /\ owner \in Objs /\ NOTHING \in Refs /\ c[location] \in Refs
    BY <1>x, <1>3, <1>4, <2>1 DEF MayMake, new, Refs, Types
  <2>3. /\ [a EXCEPT ![x] = type] \in [Objs -> Types] /\ [b EXCEPT ![x] = location] \in [Objs -> Refs]
        /\ [[c EXCEPT ![x] = NOTHING] EXCEPT ![location] = x] \in [Objs -> Refs]
        /\ [n EXCEPT ![x] = c[location]] \in [Objs -> Refs]
    BY <2>1, <2>2
  <2>4. /\ [o EXCEPT ![x] = home] \in [Objs -> Refs] /\ [p EXCEPT ![x] = owner] \in [Objs -> Objs]
        /\ [q EXCEPT ![x] = NOTHING] \in [Objs -> Refs \cup {HOME}]
    BY <2>1, <2>2
  <2> QED BY <1>11, <2>2, <2>3, <2>4 DEF Db
<1>13. /\ ee.type = [a EXCEPT ![x] = type] /\ ee.location = [b EXCEPT ![x] = location]
       /\ ee.contents = [[c EXCEPT ![x] = NOTHING] EXCEPT ![location] = x]
       /\ ee.next = [n EXCEPT ![x] = c[location]]
       /\ ee.home = [o EXCEPT ![x] = home] /\ ee.owner = [p EXCEPT ![x] = owner]
       /\ ee.dropto = [q EXCEPT ![x] = NOTHING] /\ ee.recyclable = z
  BY <1>11
<1> QED BY <1>3, <1>4, <1>x, <1>12, <1>13, Zenon DEF Made, new

-----------------------------------------------------------------------------
(* The commands. *)

\* Between two commands nothing is being recycled, and nothing lies in garbage.
LEMMA Between ==
    ASSUME Inv, task = << >>
    PROVE  Good(db, {}) /\ Whole(db, << >>) /\ (NothingLost => NothingIn(db, {}))
<1>1. DoomedIn(task) = {} BY NoneDoomed
<1>2. Whole(db, << >>) /\ Good(db, {}) BY <1>1 DEF Inv, Whole
<1>3. NothingLost => \A o \in Objs \ {} : db.location[o] \notin Garbage
  BY <1>1, DoomedIs DEF NothingLost
<1> QED BY <1>2, <1>3 DEF NothingIn, Garbage

LEMMA StartStep ==
    ASSUME NEW name, NEW m, Inv, Does(name, m), Fine(db, m, {})
    PROVE  Inv'
<1>1. Whole(m.db, m.then) BY Between, StartKeeps DEF Does, Command
<1>2. db' = m.db /\ task' = m.then /\ ran' = 0 BY DEF Does
<1> QED BY <1>1, <1>2, InvFrom, TuneAssumption

LEMMA WholeStarts ==
    ASSUME NEW e, NEW f, Good(e, {}), Plain(e, f)
    PROVE  Whole(e, f)
<1> DEFINE m == [db |-> e, then |-> f]
<1>1. Fine(e, m, {}) BY FineNow
<1>2. Whole(e, << >>)
  <2>1. FramesOK(e, << >>) /\ << >> \in Seq(Frames) /\ Once(<< >>)
    BY DEF FramesOK, Once
  <2> QED BY <2>1, NoneDoomed DEF Whole
<1>3. m.db = e /\ m.then = f OBVIOUS
<1> HIDE DEF m
<1>4. Whole(m.db, m.then) BY <1>1, <1>2, StartKeeps
<1> QED BY <1>3, <1>4

LEMMA CreateMakes ==
    ASSUME NEW player \in Objs, NEW type \in {"thing", "program"}, NEW home \in Refs,
           Inv, NothingLost, Create(player, type, home)
    PROVE  /\ Good(db, {}) /\ NothingIn(db, {}) /\ MayMake(db, type, player, home, player)
           /\ Made(db, db', type, player, home, player) /\ task' = << >> /\ ran' = 0
<1>1. /\ db.type[player] = "player" /\ db.recyclable # NOTHING /\ task = << >>
      /\ db' = New(type, player, home, player) /\ task' = << >> /\ ran' = 0
  BY DEF Create, Does, Command, Is
<1>2. Good(db, {}) /\ NothingIn(db, {}) BY <1>1, Between
<1>3. db \in Db /\ HomeOK(db, {}) /\ PlayersAt(db) BY <1>2 DEF Good, Sound
<1>4. type = "thing" => home \in Objs /\ db.type[home] \in Containers
  <2> SUFFICES ASSUME type = "thing" PROVE home \in Objs /\ db.type[home] \in Containers
    OBVIOUS
  <2>1. CASE home = db.location[player] /\ home # NOTHING
    <3>1. home \in Objs /\ db.type[home] \in Near
      BY <2>1, <1>1, <1>3 DEF Refs, PlayersAt
    <3>2. db.type[home] # "garbage" BY <2>1, <3>1, <1>2 DEF NothingIn
    <3> QED BY <3>1, <3>2 DEF Near
  <2>2. CASE home = player BY <2>2, <1>1 DEF Containers
  <2>3. ASSUME NEW thing \in Objs, db.type[thing] = "thing", home = db.home[thing]
        PROVE  home \in Objs /\ db.type[home] \in Containers
    BY <2>3, <1>3 DEF HomeOK
  <2> QED BY <2>1, <2>2, <2>3 DEF Create, Is
<1>5. db.recyclable \in Objs BY <1>1, <1>3 DEF Db, Refs
<1>6. MayMake(db, type, player, home, player) BY <1>1, <1>4, <1>5 DEF MayMake
<1>7. player # db.recyclable
  <2>1. PICK h : Threaded(db, h) /\ Placed(db, h, {}) BY <1>2 DEF Good, InPlace
  <2>2. \E r, B : Linked(Objs, Heads, NOTHING, Firsts(db), db.next, h, r, B)
    BY <2>1 DEF Threaded
  <2>3. FirstIsIn(Heads, NOTHING, Firsts(db), h) BY <2>2 DEF Linked
  <2>4. Firsts(db)[Free] = db.recyclable /\ Free \in Heads
    BY <1>3, FirstsTyped DEF Heads
  <2>5. h[db.recyclable] = Free BY <1>1, <2>3, <2>4 DEF FirstIsIn
  <2> QED BY <1>1, <1>5, <2>1, <2>5 DEF Placed
<1>8. Made(db, db', type, player, home, player) BY <1>1, <1>3, <1>6, <1>7, NewMakes
<1> QED BY <1>1, <1>2, <1>6, <1>8

LEMMA CreateKeeps ==
    ASSUME NEW player \in Objs, NEW type \in {"thing", "program"}, NEW home \in Refs,
           Inv, NothingLost, Create(player, type, home)
    PROVE  Inv'
<1>1. /\ Good(db, {}) /\ NothingIn(db, {}) /\ MayMake(db, type, player, home, player)
      /\ Made(db, db', type, player, home, player) /\ task' = << >> /\ ran' = 0
  BY CreateMakes
<1>9. Good(db', {}) BY <1>1, NewKeeps
<1>10. Whole(db', task')
  <2>1. DoomedIn(task') = {} /\ task' \in Seq(Frames) /\ FramesOK(db', task') /\ Once(task')
    BY <1>1, NoneDoomed DEF FramesOK, Once
  <2> QED BY <1>9, <2>1 DEF Whole
<1> QED BY <1>1, <1>10, InvFrom, TuneAssumption

LEMMA DigMakes ==
    ASSUME NEW player \in Objs, NEW parent \in Objs, Inv, NothingLost, Dig(player, parent)
    PROVE  /\ Good(db, {}) /\ NothingIn(db, {}) /\ MayMake(db, "room", Top, NOTHING, player)
           /\ Made(db, db', "room", Top, NOTHING, player) /\ ran' = 0
           /\ task' = <<[does |-> "moveto", what |-> db.recyclable, where |-> parent]>>
<1> DEFINE f == [does |-> "moveto", what |-> db.recyclable, where |-> parent]
<1>1. /\ db.type[player] = "player" /\ db.recyclable # NOTHING /\ task = << >>
      /\ db' = New("room", Top, NOTHING, player) /\ task' = <<f>> /\ ran' = 0
  BY DEF Dig, Does, Command, Is
<1>2. Good(db, {}) /\ NothingIn(db, {}) BY <1>1, Between
<1>3. db \in Db /\ Fixed(db, {}) /\ Top \in Objs
  BY <1>2, ObjectsAssumption DEF Good, Sound, Objs, Top
<1>5. db.recyclable \in Objs /\ NOTHING \in Refs BY <1>1, <1>3 DEF Db, Refs
<1>6. MayMake(db, "room", Top, NOTHING, player)
  BY <1>1, <1>3, <1>5 DEF MayMake, Fixed
<1>7. Top # db.recyclable
  <2>1. PICK h : Threaded(db, h) /\ Placed(db, h, {}) BY <1>2 DEF Good, InPlace
  <2>2. \E r, B : Linked(Objs, Heads, NOTHING, Firsts(db), db.next, h, r, B)
    BY <2>1 DEF Threaded
  <2>3. FirstIsIn(Heads, NOTHING, Firsts(db), h) BY <2>2 DEF Linked
  <2>4. Firsts(db)[Free] = db.recyclable /\ Free \in Heads
    BY <1>3, FirstsTyped DEF Heads
  <2>5. h[db.recyclable] = Free BY <1>1, <2>3, <2>4 DEF FirstIsIn
  <2> QED BY <1>3, <1>5, <2>1, <2>5 DEF Placed, Fixed
<1>8. Made(db, db', "room", Top, NOTHING, player)
  BY <1>1, <1>3, <1>6, <1>7, NewMakes
<1> QED BY <1>1, <1>2, <1>6, <1>8

LEMMA DigKeeps ==
    ASSUME NEW player \in Objs, NEW parent \in Objs, Inv, NothingLost, Dig(player, parent)
    PROVE  Inv'
<1> DEFINE f == [does |-> "moveto", what |-> db.recyclable, where |-> parent]
<1>1. /\ Good(db, {}) /\ NothingIn(db, {}) /\ MayMake(db, "room", Top, NOTHING, player)
      /\ Made(db, db', "room", Top, NOTHING, player) /\ task' = <<f>> /\ ran' = 0
  BY DigMakes
<1>2. db \in Db /\ db.recyclable \in Objs BY <1>1 DEF Good, MayMake
<1>9. Good(db', {}) BY <1>1, NewKeeps
<1>10. db'.type[db.recyclable] = "room" BY <1>1, <1>2 DEF Made, Db
<1>11. f \in Frames /\ f.does = "moveto" /\ f.what = db.recyclable
  BY Zenon, <1>2 DEF Frames
<1> HIDE DEF f
<1>12. Plain(db', <<f>>) BY <1>10, <1>11, PlainOne DEF FrameOK
<1>13. Whole(db', <<f>>) BY <1>9, <1>12, WholeStarts
<1> QED BY <1>1, <1>13, InvFrom, TuneAssumption

LEMMA TriggerKeeps ==
    ASSUME NEW player \in Objs, NEW dest \in Objs, Inv, Trigger(player, dest)
    PROVE  Inv'
<1>1. task = << >> BY DEF Trigger, Does, Command
<1>2. Good(db, {}) /\ db \in Db /\ PlayersAt(db) BY <1>1, Between DEF Good
<1>3. CASE db.type[dest] \in {"room", "thing"} /\ Does("go", Enters(db, player, dest))
  <2>1. PlaceFor(db, player, dest) /\ dest \in Refs \cup {HOME}
    BY <1>3 DEF PlaceFor, Near, Containers, Refs
  <2>2. Fine(db, Enters(db, player, dest), {}) BY <1>2, <2>1, EntersFine
  <2> QED BY <1>3, <2>2, StartStep
<1>4. CASE /\ db.type[dest] = "player" /\ db.location[dest] # NOTHING
           /\ Does("go", Enters(db, player, db.location[dest]))
  <2> DEFINE to == db.location[dest]
  <2>1. PlaceFor(db, player, to) /\ to \in Refs \cup {HOME}
    BY <1>2, <1>4 DEF PlaceFor, PlayersAt, Db
  <2> HIDE DEF to
  <2>2. Fine(db, Enters(db, player, to), {}) BY <1>2, <2>1, EntersFine
  <2> QED BY <1>4, <2>2, StartStep DEF to
<1> QED BY <1>3, <1>4 DEF Trigger, Is

LEMMA SummonKeeps ==
    ASSUME NEW dest \in Objs, NEW at \in Objs, NEW sobjact \in BOOLEAN, Inv,
           Summon(dest, at, sobjact)
    PROVE  Inv'
<1> DEFINE to == IF Is({"thing"}, at) THEN db.location[at] ELSE at
           move == ThingMoves(db, dest, to)
           home == IF Is({"thing"}, at) /\ sobjact
                     THEN <<[does |-> "send home", thing |-> at, puppethome |-> FALSE]>> ELSE << >>
           m == [move EXCEPT !.then = @ \o home]
<1>1. task = << >> /\ db.type[dest] = "thing" /\ Does("summon", m)
  BY Zenon DEF Summon, Does, Command, Is
<1>2. Good(db, {}) /\ db \in Db BY Zenon, <1>1, Between DEF Good
<1>3. to \in Refs \cup {HOME} /\ PlaceFor(db, dest, to)
  BY Zenon, <1>1, <1>2 DEF Db, Refs, PlaceFor
<1>4. Plain(db, home) BY Zenon, SendHomePlain, PlainNone
<1> HIDE DEF to, home
<1>5. Fine(db, move, {}) BY <1>2, <1>3, ThingMovesFine
<1> HIDE DEF move
<1>6. Fine(db, m, {}) BY <1>4, <1>5, FineThen
<1> QED BY <1>1, <1>6, StartStep

LEMMA LeaveKeeps ==
    ASSUME NEW player \in Objs, Inv, Leave(player)
    PROVE  Inv'
<1> DEFINE dest == db.location[db.location[player]]
<1>1. task = << >> /\ Is({"room", "thing"}, dest) /\ Does("go", Enters(db, player, dest))
  BY DEF Leave, Does, Command
<1>2. dest \in Refs \cup {HOME} /\ PlaceFor(db, player, dest)
  BY <1>1 DEF Is, PlaceFor, Near, Containers, Refs
<1>3. Good(db, {}) BY <1>1, Between
<1> HIDE DEF dest
<1>4. Fine(db, Enters(db, player, dest), {}) BY <1>2, <1>3, EntersFine
<1> QED BY <1>1, <1>4, StartStep

LEMMA GetKeeps ==
    ASSUME NEW player \in Objs, NEW thing \in Objs, Inv, Get(player, thing)
    PROVE  Inv'
<1>1. task = << >> /\ db.type[thing] # "player" /\ Does("get", ThingMoves(db, thing, player))
  BY DEF Get, Does, Command, Is
<1>2. player \in Refs \cup {HOME} /\ PlaceFor(db, thing, player)
  BY <1>1 DEF PlaceFor, Refs
<1>3. Good(db, {}) BY <1>1, Between
<1>4. Fine(db, ThingMoves(db, thing, player), {}) BY <1>2, <1>3, ThingMovesFine
<1> QED BY <1>1, <1>4, StartStep

LEMMA DropKeeps ==
    ASSUME NEW player \in Objs, NEW thing \in Objs, NEW cont \in Objs, Inv, Drop(player, thing, cont)
    PROVE  Inv'
<1> DEFINE dropto == db.dropto[cont]
           to == IF Is({"room"}, cont) /\ dropto # NOTHING /\ cont \notin Sticky
                   THEN dropto ELSE cont
           home == <<[does |-> "send home", thing |-> thing, puppethome |-> FALSE]>>
           m == IF Is({"room"}, cont) /\ Is({"thing"}, thing) /\ thing \in Sticky
                  THEN Then(home) ELSE ThingMoves(db, thing, to)
<1>1. task = << >> /\ db.type[thing] # "player" /\ Does("drop", m)
  BY Zenon DEF Drop, Does, Command, Is
<1>2. Good(db, {}) /\ db \in Db BY Zenon, <1>1, Between DEF Good
<1>3. to \in Refs \cup {HOME} /\ PlaceFor(db, thing, to)
  BY Zenon, <1>1, <1>2 DEF PlaceFor, Refs, Db
<1>4. Plain(db, home) BY Zenon, SendHomePlain
<1> HIDE DEF to, home
<1>5. Fine(db, ThingMoves(db, thing, to), {}) BY <1>2, <1>3, ThingMovesFine
<1>6. Fine(db, Then(home), {}) BY <1>2, <1>4, FineNow DEF Then
<1>7. Fine(db, m, {}) BY <1>5, <1>6
<1> HIDE DEF m
<1> QED BY <1>1, <1>7, StartStep

LEMMA HomeKeeps ==
    ASSUME NEW player \in Objs, Inv, Home(player)
    PROVE  Inv'
<1> DEFINE home == <<[does |-> "send home", thing |-> player, puppethome |-> TRUE]>>
<1>1. task = << >> /\ Does("home", Then(home)) BY Zenon DEF Home, Does, Command
<1>2. Good(db, {}) /\ Plain(db, home) BY Zenon, <1>1, Between, SendHomePlain
<1> HIDE DEF home
<1>3. Fine(db, Then(home), {}) BY <1>2, FineNow DEF Then
<1> QED BY <1>1, <1>3, StartStep

LEMMA TeleportKeeps ==
    ASSUME NEW victim \in Objs, NEW dest \in Objs, Inv, Teleport(victim, dest)
    PROVE  Inv'
<1> DEFINE dropto == db.dropto[dest]
           to == IF Is({"room"}, dest) /\ dropto # NOTHING /\ dest \notin Sticky
                   THEN dropto ELSE dest
<1>1. \/ /\ db.type[dest] \in {"room", "thing"}
         /\ Does("tel", Enters(db, victim, dest))
      \/ db.type[victim] # "player" /\ Does("tel", ThingMoves(db, victim, to))
      \/ db.type[victim] # "player" /\ Does("tel", Moves(db, victim, dest))
  BY DEF Teleport, Is
<1>2. task = << >> BY <1>1 DEF Does, Command
<1>3. Good(db, {}) /\ db \in Db BY <1>2, Between DEF Good
<1>4. to \in Refs \cup {HOME} /\ dest \in Refs \cup {HOME} BY <1>3 DEF Refs, Db
<1> HIDE DEF to
<1>5. CASE db.type[dest] \in {"room", "thing"} /\ Does("tel", Enters(db, victim, dest))
  <2>1. PlaceFor(db, victim, dest) BY <1>5 DEF PlaceFor, Near, Containers
  <2>2. Fine(db, Enters(db, victim, dest), {}) BY <1>3, <1>4, <2>1, EntersFine
  <2> QED BY <1>5, <2>2, StartStep
<1>6. CASE db.type[victim] # "player"
  <2>1. PlaceFor(db, victim, dest) /\ PlaceFor(db, victim, to) BY <1>6 DEF PlaceFor
  <2>2. Fine(db, ThingMoves(db, victim, to), {}) /\ Fine(db, Moves(db, victim, dest), {})
    BY <1>3, <1>4, <2>1, ThingMovesFine, MovesFine
  <2>3. Does("tel", Moves(db, victim, dest)) => Inv' BY <2>2, StartStep
  <2>4. Does("tel", ThingMoves(db, victim, to)) => Inv' BY <2>2, StartStep
  <2> QED BY <1>1, <1>5, <2>3, <2>4
<1> QED BY <1>1, <1>5, <1>6

\* What becomes of homes and droptos does not move anything.
LEMMA LinksKeep ==
    ASSUME NEW d, NEW e \in Db, Good(d, {}), e.type = d.type, e.location = d.location,
           e.contents = d.contents, e.next = d.next, e.recyclable = d.recyclable,
           e.owner = d.owner, HomeOK(e, {}), DroptoOK(e, {})
    PROVE  Fine(d, [db |-> e, then |-> << >>], {})
<1>1. PICK h : Threaded(d, h) /\ Placed(d, h, {}) BY DEF Good, InPlace
<1>2. Threaded(e, h) BY <1>1, ThreadedSame, Zenon
<1>3. Placed(e, h, {}) BY <1>1 DEF Placed
<1>4. PlayersAt(e) /\ Fixed(e, {}) /\ OwnerOK(e)
  BY DEF Good, Sound, PlayersAt, Fixed, OwnerOK
<1>5. Steady(d, e, {}) BY <1>2, <1>3, <1>4 DEF Steady, Good, Sound, InPlace
<1> QED BY <1>5, PlainNone DEF Fine

LEMMA HomesKeep ==
    ASSUME NEW d, Good(d, {}), NEW thing \in Objs, NEW dest \in Objs,
           d.type[thing] = "thing" => d.type[dest] \in Containers,
           d.type[thing] = "player" => d.type[dest] = "room"
    PROVE  Fine(d, [db |-> [d EXCEPT !.home[thing] = dest], then |-> << >>], {})
<1> DEFINE e == [d EXCEPT !.home[thing] = dest]
<1>1. d \in Db /\ HomeOK(d, {}) /\ DroptoOK(d, {}) /\ dest \in Refs
  BY DEF Good, Sound, Refs
<1>2. /\ e \in Db /\ e.type = d.type /\ e.location = d.location
      /\ e.contents = d.contents /\ e.next = d.next /\ e.recyclable = d.recyclable
      /\ e.owner = d.owner /\ e.dropto = d.dropto
      /\ \A o \in Objs : e.home[o] = IF o = thing THEN dest ELSE d.home[o]
  BY <1>1 DEF Db
<1> HIDE DEF e
<1>3. HomeOK(e, {}) BY <1>1, <1>2 DEF HomeOK
<1>4. DroptoOK(e, {}) BY <1>1, <1>2 DEF DroptoOK
<1>5. Fine(d, [db |-> e, then |-> << >>], {}) BY <1>2, <1>3, <1>4, LinksKeep
<1> QED BY <1>5 DEF e

LEMMA DroptosKeep ==
    ASSUME NEW d, Good(d, {}), NEW room \in Objs, NEW dest \in Refs \cup {HOME},
           d.type[room] = "room", dest \in Objs => d.type[dest] \in {"room", "thing"}
    PROVE  Fine(d, [db |-> [d EXCEPT !.dropto[room] = dest], then |-> << >>], {})
<1> DEFINE e == [d EXCEPT !.dropto[room] = dest]
<1>1. d \in Db /\ HomeOK(d, {}) /\ DroptoOK(d, {}) BY DEF Good, Sound
<1>2. /\ e \in Db /\ e.type = d.type /\ e.location = d.location
      /\ e.contents = d.contents /\ e.next = d.next /\ e.recyclable = d.recyclable
      /\ e.owner = d.owner /\ e.home = d.home
      /\ \A o \in Objs : e.dropto[o] = IF o = room THEN dest ELSE d.dropto[o]
  BY <1>1 DEF Db
<1> HIDE DEF e
<1>3. HomeOK(e, {}) BY <1>1, <1>2 DEF HomeOK
<1>4. DroptoOK(e, {}) BY <1>1, <1>2 DEF DroptoOK
<1>5. Fine(d, [db |-> e, then |-> << >>], {}) BY <1>2, <1>3, <1>4, LinksKeep
<1> QED BY <1>5 DEF e

LEMMA LinkKeeps ==
    ASSUME NEW thing \in Objs, NEW dest \in Objs, Inv, Link(thing, dest)
    PROVE  Inv'
<1> DEFINE m == [db |-> [db EXCEPT !.home[thing] = dest], then |-> << >>]
<1>1. /\ task = << >> /\ Does("link", m)
      /\ \/ db.type[thing] = "thing" /\ db.type[dest] \in Containers
         \/ db.type[thing] = "player" /\ db.type[dest] = "room"
  BY DEF Link, Does, Command, Is, Containers
<1>2. Good(db, {}) BY <1>1, Between
<1>3. Fine(db, m, {}) BY <1>1, <1>2, HomesKeep
<1> HIDE DEF m
<1> QED BY <1>1, <1>3, StartStep

LEMMA LinkRoomKeeps ==
    ASSUME NEW room \in Objs, NEW dest \in Objs \cup {HOME}, Inv, LinkRoom(room, dest)
    PROVE  Inv'
<1> DEFINE m == [db |-> [db EXCEPT !.dropto[room] = dest], then |-> << >>]
<1>1. /\ task = << >> /\ Does("dropto", m) /\ db.type[room] = "room"
      /\ dest = HOME \/ db.type[dest] \in {"room", "thing"}
  BY DEF LinkRoom, Does, Command, Is
<1>2. Good(db, {}) BY <1>1, Between
<1>3. dest \in Refs \cup {HOME} /\ HOME \notin Objs BY Names DEF Refs
<1>4. Fine(db, m, {}) BY <1>1, <1>2, <1>3, DroptosKeep
<1> HIDE DEF m
<1> QED BY <1>1, <1>4, StartStep

LEMMA UnlinkKeeps ==
    ASSUME NEW thing \in Objs, Inv, Unlink(thing)
    PROVE  Inv'
<1> DEFINE owner == [db |-> [db EXCEPT !.home[thing] = db.owner[thing]], then |-> << >>]
           start == [db |-> [db EXCEPT !.home[thing] = tp_player_start], then |-> << >>]
           none == [db |-> [db EXCEPT !.dropto[thing] = NOTHING], then |-> << >>]
<1>1. /\ task = << >>
      /\ \/ db.type[thing] = "thing" /\ Does("unlink", owner)
         \/ db.type[thing] = "player" /\ Does("unlink", start)
         \/ db.type[thing] = "room" /\ Does("unlink", none)
  BY DEF Unlink, Does, Command, Is
<1>2. Good(db, {}) /\ db \in Db /\ Fixed(db, {}) /\ OwnerOK(db)
  BY <1>1, Between DEF Good, Sound
<1>3. CASE db.type[thing] = "thing" /\ Does("unlink", owner)
  <2> DEFINE dest == db.owner[thing]
  <2>1. dest \in Objs /\ db.type[dest] \in Containers
    BY <1>2, <1>3 DEF Db, OwnerOK, Containers
  <2> HIDE DEF dest
  <2>2. Fine(db, [db |-> [db EXCEPT !.home[thing] = dest], then |-> << >>], {})
    BY <1>2, <1>3, <2>1, HomesKeep
  <2>3. Fine(db, owner, {}) BY <2>2 DEF dest
  <2> HIDE DEF owner
  <2> QED BY <1>3, <2>3, StartStep
<1>4. CASE db.type[thing] = "player" /\ Does("unlink", start)
  <2>1. tp_player_start \in Objs /\ db.type[tp_player_start] = "room"
    BY <1>2, ObjectsAssumption DEF Fixed, Objs
  <2>2. Fine(db, start, {}) BY <1>2, <1>4, <2>1, HomesKeep
  <2> HIDE DEF start
  <2> QED BY <1>4, <2>2, StartStep
<1>5. CASE db.type[thing] = "room" /\ Does("unlink", none)
  <2>1. NOTHING \in Refs \cup {HOME} /\ NOTHING \notin Objs BY Names DEF Refs
  <2>2. Fine(db, none, {}) BY <1>2, <1>5, <2>1, DroptosKeep
  <2> HIDE DEF none
  <2> QED BY <1>5, <2>2, StartStep
<1> QED BY <1>1, <1>3, <1>4, <1>5

LEMMA ToadKeeps ==
    ASSUME NEW player \in Objs, NEW victim \in Objs, NEW recipient \in Objs, Inv,
           Toad(player, victim, recipient)
    PROVE  Inv'
<1> DEFINE send == [does |-> "send", loc |-> victim, dest |-> HOME]
           toad == [does |-> "toad", what |-> victim, by |-> player, recipient |-> recipient]
           u == <<send, toad>>
<1>1. /\ db.type[player] = "player" /\ db.type[recipient] = "player" /\ db.type[victim] = "player"
      /\ victim \notin {player, recipient}
      /\ task = << >> /\ db' = db /\ task' = u /\ ran' = 0
  BY DEF Toad, Does, Command, Is
<1>2. Good(db, {}) BY <1>1, Between
<1>3. send \in Frames /\ toad \in Frames BY Zenon DEF Frames
<1>4. FrameOK(db, send) /\ FrameOK(db, toad) BY <1>1 DEF FrameOK, Near, Containers
<1>5. send.does = "send" /\ toad.does = "toad" OBVIOUS
<1> HIDE DEF send, toad
<1>6. u \in Seq(Frames) /\ Len(u) = 2 /\ u[1] = send /\ u[2] = toad BY <1>3
<1>7. \A i \in 1 .. Len(u) : i = 1 \/ i = 2 BY <1>6
<1> HIDE DEF u
<1>8. FramesOK(db, u) BY <1>4, <1>5, <1>6, <1>7 DEF FramesOK
<1>9. DoomedIn(u) = {} /\ Once(u)
  <2>1. \A i \in 1 .. Len(u) : u[i].does # "recycling" BY <1>5, <1>6, <1>7
  <2> QED BY <2>1 DEF DoomedIn, Once
<1>10. Whole(db, u) BY <1>2, <1>6, <1>8, <1>9 DEF Whole
<1>11. Whole(db', task') BY <1>1, <1>10
<1> QED BY <1>1, <1>11, InvFrom, TuneAssumption

\* Programs do nothing amid a command.
Alone == ProgramsDo = {}

LEMMA NextKeeps ==
    ASSUME Alone, Inv, NothingLost, NothingLost', [Next]_vars
    PROVE  Inv'
<1>1. CASE PlayerActs
  <2>1. ASSUME NEW a \in Objs, NEW b \in Objs, Trigger(a, b) PROVE Inv'
    BY <2>1, TriggerKeeps
  <2>2. ASSUME NEW a \in Objs, NEW b \in Objs, Get(a, b) PROVE Inv'
    BY <2>2, GetKeeps
  <2>3. ASSUME NEW a \in Objs, NEW b \in Objs, Teleport(a, b) PROVE Inv'
    BY <2>3, TeleportKeeps
  <2>4. ASSUME NEW a \in Objs, NEW b \in Objs, Dig(a, b) PROVE Inv'
    BY <2>4, DigKeeps
  <2>5. ASSUME NEW a \in Objs, NEW b \in Objs, Link(a, b) PROVE Inv'
    BY <2>5, LinkKeeps
  <2>6. ASSUME NEW a \in Objs, NEW b \in Objs, NEW c \in Objs, Drop(a, b, c) PROVE Inv'
    BY <2>6, DropKeeps
  <2>7. ASSUME NEW a \in Objs, NEW b \in Objs, NEW c \in Objs, Toad(a, b, c) PROVE Inv'
    BY <2>7, ToadKeeps
  <2>8. ASSUME NEW a \in Objs, NEW b \in Objs, NEW sobjact \in BOOLEAN, Summon(a, b, sobjact)
        PROVE  Inv'
    BY <2>8, SummonKeeps
  <2>9. ASSUME NEW a \in Objs, Leave(a) PROVE Inv' BY <2>9, LeaveKeeps
  <2>10. ASSUME NEW a \in Objs, Home(a) PROVE Inv' BY <2>10, HomeKeeps
  <2>11. ASSUME NEW a \in Objs, DoRecycle(a) PROVE Inv' BY <2>11, DoRecycleKeeps
  <2>12. ASSUME NEW a \in Objs, Unlink(a) PROVE Inv' BY <2>12, UnlinkKeeps
  <2>13. ASSUME NEW a \in Objs, NEW b \in Objs \cup {HOME}, LinkRoom(a, b) PROVE Inv'
    BY <2>13, LinkRoomKeeps
  <2>14. ASSUME NEW a \in Objs, NEW type \in {"thing", "program"}, NEW home \in Refs,
                Create(a, type, home)
         PROVE  Inv'
    BY <2>14, CreateKeeps
  <2> QED
    BY <1>1, <2>1, <2>2, <2>3, <2>4, <2>5, <2>6, <2>7, <2>8, <2>9, <2>10, <2>11, <2>12,
       <2>13, <2>14 DEF PlayerActs
<1>2. CASE Step
  BY <1>2, SendKeeps, SendingKeeps, SentKeeps, EnterKeeps, MoveOnKeeps, SendHomeKeeps,
     DepartKeeps, ArriveKeeps, RecyclingKeeps, RecycledKeeps, ToadedKeeps DEF Step
<1>3. CASE ProgramActs BY <1>3 DEF ProgramActs, ProgramMoves, ProgramRecycles, Alone
<1>4. CASE UNCHANGED vars BY <1>4, InvFrom DEF vars, Inv
<1> QED BY <1>1, <1>2, <1>3, <1>4 DEF Next

-----------------------------------------------------------------------------
(* The first database. *)

\* The list an object of the first database is in.
FirstIn == [o \in Objs |-> IF Type0[o] = "garbage" THEN Free ELSE Location0[o]]
First == Initial(Type0, Location0, Home0, Owner0)

LEMMA FirstIs ==
    /\ First \in Db
    /\ First.type = Type0 /\ First.location = Location0 /\ First.home = Home0
    /\ First.owner = Owner0 /\ First.dropto = [o \in Objs |-> NOTHING]
    /\ FirstIn \in [Objs -> Heads \cup {NOTHING}]
    /\ Sorted(Objs, Heads, NOTHING, Firsts(First), First.next, FirstIn)
<1> DEFINE here(o) == {x \in Objs : Type0[x] # "garbage" /\ Location0[x] = o}
           garbage == {x \in Objs : Type0[x] = "garbage"}
           kin(x) == IF x \in garbage THEN garbage
                     ELSE IF Location0[x] = NOTHING THEN {} ELSE here(Location0[x])
           c == [o \in Objs |-> Least(NOTHING, here(o))]
           n == [o \in Objs |-> Least(NOTHING, {x \in kin(o) : x > o})]
           q == [o \in Objs |-> NOTHING]
           z == Least(NOTHING, garbage)
<1>1. First = [type |-> Type0, location |-> Location0, contents |-> c, next |-> n,
               home |-> Home0, owner |-> Owner0, dropto |-> q, recyclable |-> z]
  BY DEF First, Initial, Least
<1>2. Type0 \in [Objs -> Types] /\ Location0 \in [Objs -> Refs] /\ Home0 \in [Objs -> Refs]
      /\ Owner0 \in [Objs -> Objs]
  BY FirstAssumption
<1>3. c \in [Objs -> Refs] /\ n \in [Objs -> Refs] /\ q \in [Objs -> Refs \cup {HOME}] /\ z \in Refs
  <2>1. \A o \in Objs : here(o) \subseteq Objs /\ {x \in kin(o) : x > o} \subseteq Objs
    OBVIOUS
  <2>2. garbage \subseteq Objs OBVIOUS
  <2> HIDE DEF here, kin, garbage
  <2>0. ASSUME NEW S \in SUBSET Objs PROVE Least(NOTHING, S) \in Refs
    <3>1. S \in SUBSET Nat BY ObjectsAssumption DEF Objs
    <3>2. NOTHING \notin S BY Names
    <3>3. Least(NOTHING, S) \in S \cup {NOTHING} BY <3>1, <3>2, LeastIs, Zenon
    <3> QED BY <3>3 DEF Refs
  <2>3. \A o \in Objs : Least(NOTHING, here(o)) \in Refs BY <2>0, <2>1
  <2>4. \A o \in Objs : Least(NOTHING, {x \in kin(o) : x > o}) \in Refs
    BY <2>0, <2>1
  <2>5. z \in Refs BY <2>0, <2>2
  <2> QED BY <2>3, <2>4, <2>5 DEF Refs
<1>4. FirstIn \in [Objs -> Heads \cup {NOTHING}] BY <1>2 DEF FirstIn, Heads, Refs
<1>5. \A o \in Objs : FirstIn[o] = IF o \in garbage THEN Free ELSE Location0[o]
  BY DEF FirstIn
<1>n. Free \notin Refs /\ Free # NOTHING /\ NOTHING \notin Objs
  BY Names DEF Refs, Free, NOTHING
<1>6. InList(Objs, FirstIn, Free) = garbage BY <1>2, <1>5, <1>n DEF InList
<1>7. \A l \in Objs : InList(Objs, FirstIn, l) = here(l)
  BY <1>2, <1>5, <1>n DEF InList, Refs
<1>8. \A x \in Objs : FirstIn[x] # NOTHING => LaterIn(Objs, FirstIn, x) = {y \in kin(x) : y > x}
  <2> SUFFICES ASSUME NEW x \in Objs, FirstIn[x] # NOTHING
               PROVE  LaterIn(Objs, FirstIn, x) = {y \in kin(x) : y > x}
    OBVIOUS
  <2>1. kin(x) = InList(Objs, FirstIn, FirstIn[x])
    <3>1. CASE x \in garbage BY <3>1, <1>5, <1>6
    <3>2. CASE x \notin garbage
      <4>1. FirstIn[x] = Location0[x] /\ Location0[x] \in Objs
        BY <3>2, <1>2, <1>5 DEF Refs
      <4>2. kin(x) = here(Location0[x]) BY <3>2, <4>1, <1>n
      <4> QED BY <4>1, <4>2, <1>7
    <3> QED BY <3>1, <3>2
  <2> HIDE DEF kin
  <2> QED BY <2>1 DEF LaterIn, InList
<1>9. Firsts(First) = [l \in Heads |-> IF l = Free THEN z ELSE c[l]]
  BY <1>1 DEF Firsts
<1>10. \A l \in Heads : l = Free \/ l \in Objs BY DEF Heads
<1>11. \A l \in Heads : Firsts(First)[l] = Least(NOTHING, InList(Objs, FirstIn, l))
  BY <1>6, <1>7, <1>9, <1>10, <1>n DEF Refs
<1>12. \A x \in Objs : FirstIn[x] # NOTHING => First.next[x] = Least(NOTHING, LaterIn(Objs, FirstIn, x))
  BY <1>1, <1>8
<1> HIDE DEF c, n, q, z
<1>13. First \in Db BY <1>1, <1>2, <1>3 DEF Db
<1>14. Sorted(Objs, Heads, NOTHING, Firsts(First), First.next, FirstIn)
  <2>1. Firsts(First) \in [Heads -> Refs] /\ First.next \in [Objs -> Refs]
    BY <1>13, FirstsTyped DEF Db
  <2> QED BY <1>4, <1>11, <1>12, <2>1 DEF Sorted, Refs
<1>15. First.type = Type0 /\ First.location = Location0 /\ First.home = Home0
       /\ First.owner = Owner0 /\ First.dropto = q
  BY <1>1
<1> QED BY <1>4, <1>13, <1>14, <1>15 DEF q

LEMMA FirstGood == Good(First, {})
<1> DEFINE d == First
<1>1. /\ d \in Db
      /\ d.type = Type0 /\ d.location = Location0 /\ d.home = Home0
      /\ d.owner = Owner0 /\ d.dropto = [o \in Objs |-> NOTHING]
      /\ FirstIn \in [Objs -> Heads \cup {NOTHING}]
      /\ Sorted(Objs, Heads, NOTHING, Firsts(d), d.next, FirstIn)
  BY FirstIs
<1> HIDE DEF d
<1>2. /\ Type0[Top] = "room" /\ Type0[tp_player_start] = "room"
      /\ \A o \in Objs :
           IF Type0[o] = "garbage" THEN Location0[o] = NOTHING
           ELSE /\ Location0[o] # NOTHING => Type0[Location0[o]] \in Containers
                /\ Type0[Owner0[o]] = "player"
                /\ Type0[o] = "thing" => Home0[o] # NOTHING /\ Type0[Home0[o]] \in Containers
                /\ Type0[o] = "player" => Home0[o] # NOTHING /\ Type0[Home0[o]] = "room"
  BY FirstAssumption
<1>3. Type0 \in [Objs -> Types] /\ Location0 \in [Objs -> Refs] /\ Home0 \in [Objs -> Refs]
  BY FirstAssumption
<1>n. NOTHING \notin Objs /\ Free \notin Objs /\ Free # NOTHING /\ Free \notin Refs
  BY Names DEF Free, NOTHING, Refs
<1>4. Fixed(d, {}) /\ OwnerOK(d) BY <1>1, <1>2 DEF Fixed, OwnerOK
<1>5. HomeOK(d, {}) BY <1>1, <1>2, <1>3 DEF HomeOK, Refs
<1>6. DroptoOK(d, {}) BY <1>1, <1>n DEF DroptoOK
<1>7. PlayersAt(d) BY <1>1, <1>2 DEF PlayersAt, Near
<1>8. Placed(d, FirstIn, {})
  <2>1. \A o \in Objs : FirstIn[o] = IF Type0[o] = "garbage" THEN Free ELSE Location0[o]
    BY DEF FirstIn
  <2> QED BY <2>1, <1>1, <1>2, <1>3, <1>n DEF Placed
<1>9. Threaded(d, FirstIn)
  <2>1. NOTHING \notin Objs \cup Heads /\ db_top \in Nat /\ Objs \subseteq 0 .. db_top
    BY ObjectsAssumption, Names DEF Objs
  <2>2. \E r : Linked(Objs, Heads, NOTHING, Firsts(d), d.next, FirstIn, r, db_top)
    BY <1>1, <2>1, SortedChain, Zenon
  <2> QED BY <2>2 DEF Threaded
<1>10. Good(d, {})
  BY <1>1, <1>4, <1>5, <1>6, <1>7, <1>8, <1>9 DEF Good, Sound, InPlace
<1> QED BY <1>10 DEF d

LEMMA InitKeeps == Init => Inv
<1> SUFFICES ASSUME Init PROVE Inv OBVIOUS
<1>1. db = First /\ task = << >> /\ ran = 0 BY DEF Init, First
<1>2. Good(db, {}) BY <1>1, FirstGood
<1>3. Whole(db, task)
  <2>1. FramesOK(db, << >>) /\ << >> \in Seq(Frames) /\ Once(<< >>)
    BY DEF FramesOK, Once
  <2> QED BY <1>1, <1>2, <2>1, NoneDoomed DEF Whole
<1> QED BY <1>1, <1>3, TuneAssumption DEF Inv

-----------------------------------------------------------------------------
(* The properties. *)

LEMMA InvTypes == Inv => TypeOK
BY DEF Inv, Whole, Good, TypeOK

LEMMA InvReferences == Inv => NoDanglingReference
<1> SUFFICES ASSUME Inv PROVE NoDanglingReference OBVIOUS
<1>1. TypeOK /\ Sound(db, DoomedIn(task)) BY InvTypes DEF Inv, Whole, Good
<1>2. ASSUME NEW o \in Objs \ Garbage
      PROVE  /\ db.type[db.owner[o]] = "player"
             /\ Is({"thing"}, o) => Is({"room", "player", "thing"}, db.home[o])
             /\ Is({"player"}, o) => Is({"room"}, db.home[o])
             /\ db.dropto[o] \in Objs => Is({"room", "thing"}, db.dropto[o])
  BY <1>1 DEF Sound, OwnerOK, HomeOK, DroptoOK, Is, Garbage, Containers
<1> QED BY <1>1, <1>2 DEF NoDanglingReference

LEMMA InvLists == Inv => ListsAgree
<1> SUFFICES ASSUME Inv PROVE ListsAgree OBVIOUS
<1> DEFINE D == DoomedIn(task)
<1>1. Good(db, D) /\ Doomed = D BY DoomedIs DEF Inv, Whole
<1>2. PICK h : Threaded(db, h) /\ Placed(db, h, D) BY <1>1 DEF Good, InPlace
<1>3. PICK B : \E r : Linked(Objs, Heads, NOTHING, Firsts(db), db.next, h, r, B)
  BY <1>2 DEF Threaded
<1>4. PICK r : Linked(Objs, Heads, NOTHING, Firsts(db), db.next, h, r, B) BY <1>3
<1>f. /\ Firsts(db)[Free] = db.recyclable
      /\ \A l \in Objs : Firsts(db)[l] = db.contents[l]
      /\ db.next \in [Objs -> Refs]
  BY <1>1, FirstsTyped DEF Good
<1>5. \A l \in Heads : Ends(db, Firsts(db)[l]) /\ HoldsOf(Objs, h, l, Members(db, Firsts(db)[l]))
  BY <1>4, <1>f, ListMembers
<1>6. /\ \A l \in Objs : Ends(db, db.contents[l]) /\ HoldsOf(Objs, h, l, Members(db, db.contents[l]))
      /\ Ends(db, db.recyclable) /\ HoldsOf(Objs, h, Free, Members(db, db.recyclable))
  BY <1>5, <1>f DEF Heads
<1> HIDE DEF D
<1>7. Members(db, db.recyclable) = Garbage
  BY <1>2, <1>6 DEF HoldsOf, Placed, Garbage
<1>8. ASSUME NEW o \in Objs
      PROVE  /\ Members(db, db.contents[o]) \subseteq Here(o)
             /\ o \notin Garbage => Here(o) \ Members(db, db.contents[o]) \subseteq Doomed
  <2>1. Members(db, db.contents[o]) = {x \in Objs : h[x] = o} BY <1>6 DEF HoldsOf
  <2>2. \A x \in Objs : h[x] = o => db.location[x] = o BY <1>2 DEF Placed
  <2>3. ASSUME NEW x \in Objs, db.location[x] = o, x \notin D PROVE h[x] = o
    <3>1. db.type[x] # "garbage" BY <2>3, <1>2, Names DEF Placed
    <3> QED BY <2>3, <3>1, <1>2 DEF Placed
  <2> QED BY <1>1, <2>1, <2>2, <2>3 DEF Here
<1> QED BY <1>6, <1>7, <1>8 DEF ListsAgree, Garbage

-----------------------------------------------------------------------------
(* What Places promises: it is instantiated here with where the objects of *)
(* the database are, but nothing below uses that.                          *)

\* Where the objects are, and which there are.
At == [o \in Objs |-> IF o \in Doomed THEN NOTHING ELSE db.location[o]]
Live == Objs \ Garbage

\* Of the places f, as in Places: an object and all in it; none is inside itself.
Closed(f, U) == \A x \in Objs : f[x] \in U => x \in U
Below(f, o) == {x \in Objs : \A U \in SUBSET Objs : (o \in U /\ Closed(f, U)) => x \in U}
Forest(f) == \A S \in (SUBSET Objs) \ {{}} : \E o \in S : f[o] \notin S
Out(f, L) == \A o \in Objs : /\ f[o] \in L \cup {NOTHING}
                             /\ o \notin L => f[o] = NOTHING

\* Below(f, o) has o in it and, with an object, all that is in it.
LEMMA BelowIsClosed ==
    ASSUME NEW f, NEW o \in Objs
    PROVE  /\ o \in Below(f, o)
           /\ \A x \in Objs : f[x] \in Below(f, o) => x \in Below(f, o)
<1>1. o \in Below(f, o) BY DEF Below
<1>2. ASSUME NEW x \in Objs, f[x] \in Below(f, o)
      PROVE  x \in Below(f, o)
  <2> SUFFICES ASSUME NEW U \in SUBSET Objs, o \in U, Closed(f, U)
               PROVE  x \in U
    BY DEF Below
  <2>1. f[x] \in U BY <1>2 DEF Below
  <2> QED BY <2>1 DEF Closed
<1> QED BY <1>1, <1>2

\* Taking objects off their places makes no loop.
LEMMA RemovalKeepsForest ==
    ASSUME NEW f, NEW R \in SUBSET Objs, Forest(f)
    PROVE  Forest([o \in Objs |-> IF o \in R THEN NOTHING ELSE f[o]])
<1> SUFFICES ASSUME NEW S \in SUBSET Objs, S # {},
                    \A o \in S : [x \in Objs |-> IF x \in R THEN NOTHING ELSE f[x]][o] \in S
             PROVE  FALSE
  BY DEF Forest
<1>1. \A o \in S : f[o] \in S BY Names
<1> QED BY <1>1 DEF Forest

\* Nor does putting an object where it is not above: what of the loop is not below it
\* would have been one before.
LEMMA PutKeepsForest ==
    ASSUME NEW f, NEW o \in Objs, NEW w \in Objs,
           f \in [Objs -> Refs], Forest(f), w \notin Below(f, o)
    PROVE  Forest([f EXCEPT ![o] = w])
<1> DEFINE g == [f EXCEPT ![o] = w]
<1>1. g[o] = w /\ \A x \in Objs : x # o => g[x] = f[x] OBVIOUS
<1> HIDE DEF g
<1> SUFFICES ASSUME NEW S \in SUBSET Objs, S # {}, \A x \in S : g[x] \in S
             PROVE  FALSE
  BY DEF Forest, g
<1> DEFINE T == S \ Below(f, o)
<1>2. ASSUME NEW x \in T
      PROVE  f[x] \in T
  <2>1. x # o /\ x \in Objs BY BelowIsClosed
  <2>2. f[x] \in S BY <1>1, <2>1
  <2>3. f[x] \notin Below(f, o) BY <2>1, BelowIsClosed
  <2> QED BY <2>2, <2>3
<1>3. T # {}
  <2>1. CASE o \in S BY <2>1, <1>1
  <2>2. CASE o \notin S BY <2>2, <1>1 DEF Forest
  <2> QED BY <2>1, <2>2
<1> QED BY <1>2, <1>3 DEF Forest

\* The inductive invariant, of the places and what there is.
Tree(f, L) == f \in [Objs -> Refs] /\ L \in SUBSET Objs /\ Out(f, L) /\ Forest(f) /\ Top \in L

LEMMA LiftTree ==
    ASSUME NEW f, NEW L, NEW S \in SUBSET Objs, Tree(f, L)
    PROVE  Tree([o \in Objs |-> IF o \in S THEN NOTHING ELSE f[o]], L)
<1> DEFINE g == [o \in Objs |-> IF o \in S THEN NOTHING ELSE f[o]]
<1>1. g \in [Objs -> Refs] /\ Out(g, L) BY DEF Tree, Out, Refs
<1>2. Forest(g) BY RemovalKeepsForest DEF Tree
<1> QED BY <1>1, <1>2 DEF Tree

LEMMA PutTree ==
    ASSUME NEW f, NEW L, NEW o \in L, NEW w \in L, Tree(f, L), w \notin Below(f, o)
    PROVE  Tree([f EXCEPT ![o] = w], L)
<1> DEFINE g == [f EXCEPT ![o] = w]
<1>1. g \in [Objs -> Refs] /\ Out(g, L) BY DEF Tree, Out, Refs
<1>2. Forest(g) BY PutKeepsForest DEF Tree
<1> QED BY <1>1, <1>2 DEF Tree

\* What is made was garbage: nothing is in it, so that it is above nothing.
LEMMA MakeTree ==
    ASSUME NEW f, NEW L, NEW o \in Objs \ L, NEW w \in L, Tree(f, L)
    PROVE  Tree([f EXCEPT ![o] = w], L \cup {o})
<1> DEFINE g == [f EXCEPT ![o] = w]
<1>1. g \in [Objs -> Refs] /\ Out(g, L \cup {o}) /\ L \cup {o} \in SUBSET Objs
  BY DEF Tree, Out, Refs
<1>2. w \notin Below(f, o)
  <2>1. Closed(f, {o}) /\ {o} \in SUBSET Objs BY Names DEF Closed, Tree, Out
  <2>2. w # o OBVIOUS
  <2> QED BY <2>1, <2>2 DEF Below
<1>3. Forest(g) BY <1>2, PutKeepsForest DEF Tree
<1> QED BY <1>1, <1>3 DEF Tree

LEMMA FreeTree ==
    ASSUME NEW f, NEW L, NEW o \in L, o # Top, \A x \in Objs : f[x] # o, Tree(f, L)
    PROVE  Tree([f EXCEPT ![o] = NOTHING], L \ {o})
<1> DEFINE g == [x \in Objs |-> IF x \in {o} THEN NOTHING ELSE f[x]]
<1>1. g = [f EXCEPT ![o] = NOTHING] BY DEF Tree
<1>2. g \in [Objs -> Refs] /\ Out(g, L \ {o}) BY DEF Tree, Out, Refs
<1>3. Forest(g) BY RemovalKeepsForest DEF Tree
<1> QED BY <1>1, <1>2, <1>3 DEF Tree

LEMMA PlacesAre ==
    /\ P!Acyclic <=> Forest(At)
    /\ P!GarbageIsOut <=> Out(At, Live)
    /\ P!TypeOK <=> At \in [Objs -> Refs] /\ Live \in SUBSET Objs
BY DEF P!Acyclic, P!GarbageIsOut, P!TypeOK, Forest, Out, At, Live, Refs

LEMMA PlacesStep == Tree(At, Live) /\ [P!Next]_(P!vars) => Tree(At', Live')
<1> SUFFICES ASSUME Tree(At, Live), [P!Next]_(P!vars) PROVE Tree(At', Live') OBVIOUS
<1>1. ASSUME NEW c \in Objs, NEW S \in SUBSET Objs, P!Lift(c, S) PROVE Tree(At', Live')
  <2>1. At' = [o \in Objs |-> IF o \in S THEN NOTHING ELSE At[o]] /\ Live' = Live
    BY <1>1 DEF P!Lift, At, Live
  <2> QED BY <2>1, LiftTree
<1>2. ASSUME NEW o \in Objs, NEW w \in Objs, P!Put(o, w) PROVE Tree(At', Live')
  <2>1. o \in Live /\ w \in Live /\ At' = [At EXCEPT ![o] = w] /\ Live' = Live
    BY <1>2 DEF P!Put, At, Live
  <2>2. w \notin Below(At, o)
    BY <1>2 DEF P!Put, P!Under, P!ClosedBelow, Below, Closed, At
  <2> QED BY <2>1, <2>2, PutTree
<1>3. ASSUME NEW o \in Objs, NEW w \in Objs, P!Make(o, w) PROVE Tree(At', Live')
  <2>1. o \in Objs \ Live /\ w \in Live /\ At' = [At EXCEPT ![o] = w] /\ Live' = Live \cup {o}
    BY <1>3 DEF P!Make, At, Live
  <2> QED BY <2>1, MakeTree
<1>4. ASSUME NEW o \in Objs, P!Free(o) PROVE Tree(At', Live')
  <2>1. /\ o \in Live /\ o # Top /\ \A x \in Objs : At[x] # o
        /\ At' = [At EXCEPT ![o] = NOTHING] /\ Live' = Live \ {o}
    BY <1>4 DEF P!Free, At, Live
  <2> QED BY <2>1, FreeTree
<1>5. CASE UNCHANGED P!vars BY <1>5 DEF P!vars, At, Live
<1> QED BY <1>1, <1>2, <1>3, <1>4, <1>5 DEF P!Next

(* The places of the objects stay a forest: no object is inside itself,    *)
(* garbage is nowhere and holds nothing. ImplementsPlaces carries this     *)
(* over to the contents lists of the code.                                 *)
THEOREM PlacesStayATree == P!Spec => [](P!Acyclic /\ P!GarbageIsOut)
<1>1. P!Init => Tree(At, Live) BY PlacesAre DEF P!Init, Tree, Live
<1>2. Tree(At, Live) => P!Acyclic /\ P!GarbageIsOut BY PlacesAre DEF Tree
<1> DEFINE T == Tree(At, Live)
<1>3. P!Init => T BY <1>1
<1>4. T /\ [P!Next]_(P!vars) => T' BY PlacesStep
<1>5. T => P!Acyclic /\ P!GarbageIsOut BY <1>2
<1> HIDE DEF T
<1> QED BY <1>3, <1>4, <1>5, PTL DEF P!Spec

-----------------------------------------------------------------------------
(* Where programs move and recycle nothing, recycle() empties what it      *)
(* recycles: its looplimit is never what ends its loop. W holds what may   *)
(* still be in the thing, and does not grow; the list that send_contents() *)
(* walks stays as it was taken off, because nothing acts during the walk.  *)

\* The rest of a walk: the objects of K, which are nowhere, along their next fields.
Walked(d, K, r, first) ==
    /\ first \in K \cup {NOTHING}
    /\ \A y \in K : /\ d.location[y] = NOTHING
                    /\ d.next[y] # NOTHING => d.next[y] \in K /\ r[d.next[y]] < r[y]
Walk(d, W, first) == \E K \in SUBSET W : \E r \in [Objs -> Int] : Walked(d, K, r, first)

Safe(d, D, to) == to \in {NOTHING, HOME} \/ Stays(d, D, to)

FrameCalm(d, D, W, f) ==
    /\ f.does \in {"send", "sending"} => d.type[f.loc] # "garbage" /\ Safe(d, D, f.dest)
    /\ f.does = "sending" => Walk(d, IF f.loc \in D THEN W ELSE Objs, f.first)
    /\ f.does = "moveto" => Stays(d, D, f.where)
    /\ f.does = "enter" => d.type[f.what] \in {"player", "thing"}
    /\ f.does = "recycling" => Cardinality(W) <= f.looplimit /\ f.last \notin W

\* What is being recycled is what the command recycles; above a walk there is
\* nothing that moves.
Arranged(t) ==
    /\ \A i \in 1 .. Len(t) : t[i].does = "recycling" => i = Len(t)
    /\ \A i, j \in 1 .. Len(t) : i < j /\ t[j].does = "sending" => t[i].does = "arrive"

Inside(d, D, W) == NothingIn(d, D) /\ \A o \in Objs : d.location[o] \in D => o \in W

Calm(d, t, D, W) ==
    /\ W \in SUBSET Objs /\ D = DoomedIn(t) /\ Inside(d, D, W)
    /\ \A i \in 1 .. Len(t) : FrameCalm(d, D, W, t[i])
    /\ Arranged(t)
Quiet == \E W : Calm(db, task, DoomedIn(task), W)

LEMMA QuietLosesNothing == Quiet => NothingLost
BY DoomedIs DEF Quiet, Calm, Inside, NothingIn, NothingLost, Garbage

\* Frames that recycle nothing, on top of others.
LEMMA DoomedJoin ==
    ASSUME NEW f \in Seq(Frames), NEW t \in Seq(Frames),
           \A i \in 1 .. Len(f) : f[i].does # "recycling"
    PROVE  DoomedIn(f \o t) = DoomedIn(t)
<1> DEFINE u == f \o t
<1>1. /\ \A i \in 1 .. Len(t) : i + Len(f) \in 1 .. Len(u) /\ u[i + Len(f)] = t[i]
      /\ \A i \in 1 .. Len(u) :
            \/ i \in 1 .. Len(f) /\ u[i] = f[i]
            \/ i - Len(f) \in 1 .. Len(t) /\ u[i] = t[i - Len(f)]
  BY JoinIs
<1> HIDE DEF u
<1>2. ASSUME NEW o \in Objs
      PROVE  (\E i \in 1 .. Len(u) : u[i].does = "recycling" /\ u[i].thing = o)
             <=> (\E i \in 1 .. Len(t) : t[i].does = "recycling" /\ t[i].thing = o)
  <2>1. ASSUME NEW i \in 1 .. Len(u), u[i].does = "recycling", u[i].thing = o
        PROVE  \E j \in 1 .. Len(t) : t[j].does = "recycling" /\ t[j].thing = o
    <3>1. ~ (i \in 1 .. Len(f) /\ u[i] = f[i]) BY <2>1
    <3>2. i - Len(f) \in 1 .. Len(t) /\ u[i] = t[i - Len(f)] BY <1>1, <3>1, Zenon
    <3> QED BY <2>1, <3>2
  <2>2. ASSUME NEW i \in 1 .. Len(t), t[i].does = "recycling", t[i].thing = o
        PROVE  \E j \in 1 .. Len(u) : u[j].does = "recycling" /\ u[j].thing = o
    BY <1>1, <2>2
  <2> QED BY <2>1, <2>2
<1>3. DoomedIn(u) = DoomedIn(t) BY <1>2 DEF DoomedIn
<1> QED BY <1>3 DEF u

\* The frames of a stack without its top.
LEMMA PopIs ==
    ASSUME NEW t \in Seq(Frames), t # << >>
    PROVE  /\ Tail(t) \in Seq(Frames) /\ Len(Tail(t)) = Len(t) - 1 /\ Len(t) \in Nat
           /\ 1 \in 1 .. Len(t) /\ Head(t) = t[1]
           /\ \A i \in 1 .. Len(Tail(t)) : i + 1 \in 1 .. Len(t) /\ Tail(t)[i] = t[i + 1]
<1>1. /\ Tail(t) \in Seq(Frames) /\ Len(Tail(t)) = Len(t) - 1
      /\ \A i \in 1 .. Len(Tail(t)) : Tail(t)[i] = t[i + 1]
  BY HeadTailProperties
<1>2. Len(t) \in Nat /\ Len(t) # 0 /\ Head(t) = t[1] BY EmptySeq
<1>3. Len(Tail(t)) = Len(t) - 1 => \A i \in 1 .. Len(Tail(t)) : i + 1 \in 1 .. Len(t)
  BY <1>2
<1> QED BY <1>1, <1>2, <1>3

\* Where no walk is below the top, and it recycles nothing, frames may take its place.
NoWalk(t) == \A i \in 1 .. Len(t) : t[i].does # "sending"
LEMMA CalmOn ==
    ASSUME NEW d, NEW D, NEW W, NEW e, NEW g \in Seq(Frames), NEW u \in Seq(Frames),
           e.type = d.type, Inside(e, D, W), W \in SUBSET Objs, D = DoomedIn(u), NoWalk(u),
           \A i \in 1 .. Len(u) : FrameCalm(d, D, W, u[i]), Arranged(u),
           \A i \in 1 .. Len(g) : FrameCalm(e, D, W, g[i]) /\ g[i].does # "recycling",
           Arranged(g)
    PROVE  Calm(e, g \o u, D, W)
<1> DEFINE v == g \o u
<1>1. /\ v \in Seq(Frames) /\ Len(v) = Len(g) + Len(u) /\ Len(g) \in Nat /\ Len(u) \in Nat
      /\ \A i \in 1 .. Len(v) :
            \/ i \in 1 .. Len(g) /\ v[i] = g[i]
            \/ i - Len(g) \in 1 .. Len(u) /\ v[i] = u[i - Len(g)]
  BY JoinIs
<1>2. D = DoomedIn(v) BY DoomedJoin
<1> HIDE DEF v
<1>3. \A i \in 1 .. Len(u) : FrameCalm(e, D, W, u[i])
  BY DEF FrameCalm, NoWalk, Stays, Safe
<1>4. \A i \in 1 .. Len(v) : FrameCalm(e, D, W, v[i]) BY <1>1, <1>3
<1>5. Arranged(v)
  <2>1. ASSUME NEW i \in 1 .. Len(v), v[i].does = "recycling" PROVE i = Len(v)
    <3>1. i - Len(g) \in 1 .. Len(u) /\ v[i] = u[i - Len(g)] BY <2>1, <1>1
    <3>2. i - Len(g) = Len(u) BY <2>1, <3>1 DEF Arranged
    <3> QED BY <3>2, <1>1
  <2>2. ASSUME NEW i \in 1 .. Len(v), NEW j \in 1 .. Len(v), i < j, v[j].does = "sending"
        PROVE  v[i].does = "arrive"
    <3>1. j \in 1 .. Len(g) /\ v[j] = g[j] BY <2>2, <1>1 DEF NoWalk
    <3>2. i \in 1 .. Len(g) /\ v[i] = g[i] BY <2>2, <3>1, <1>1
    <3> QED BY <2>2, <3>1, <3>2 DEF Arranged
  <2> QED BY <2>1, <2>2 DEF Arranged
<1>6. Calm(e, v, D, W) BY <1>2, <1>4, <1>5 DEF Calm
<1> QED BY <1>6 DEF v

\* The stack below a frame that is at the top.
LEMMA CalmPop ==
    ASSUME NEW d, NEW t \in Seq(Frames), NEW D, NEW W, Calm(d, t, D, W), t # << >>
    PROVE  /\ Tail(t) \in Seq(Frames) /\ FrameCalm(d, D, W, Head(t))
           /\ \A i \in 1 .. Len(Tail(t)) : FrameCalm(d, D, W, Tail(t)[i])
           /\ Arranged(Tail(t))
           /\ Head(t).does # "arrive" => NoWalk(Tail(t))
           /\ Head(t).does = "recycling" => Tail(t) = << >>
           /\ Head(t).does # "recycling" => D = DoomedIn(Tail(t))
<1> DEFINE u == Tail(t)
<1>1. /\ u \in Seq(Frames) /\ Len(u) = Len(t) - 1 /\ Len(t) \in Nat
      /\ 1 \in 1 .. Len(t) /\ Head(t) = t[1]
      /\ \A i \in 1 .. Len(u) : i + 1 \in 1 .. Len(t) /\ u[i] = t[i + 1]
  BY PopIs
<1>d. Head(t).does # "recycling" => DoomedIn(t) = DoomedIn(u)
  <2> SUFFICES ASSUME Head(t).does # "recycling" PROVE DoomedIn(t) = DoomedIn(u)
    OBVIOUS
  <2>1. t = <<Head(t)>> \o Tail(t) /\ <<Head(t)>> \in Seq(Frames) /\ Len(<<Head(t)>>) = 1
        /\ <<Head(t)>>[1] = Head(t)
    BY HeadTailProperties
  <2>2. \A i \in 1 .. Len(<<Head(t)>>) : <<Head(t)>>[i].does # "recycling" BY <2>1
  <2> QED BY <1>1, <2>1, <2>2, DoomedJoin
<1> HIDE DEF u
<1>2. /\ D = DoomedIn(t) /\ Arranged(t)
      /\ \A i \in 1 .. Len(t) : FrameCalm(d, D, W, t[i])
  BY DEF Calm
<1>3. \A i \in 1 .. Len(u) : FrameCalm(d, D, W, u[i]) BY <1>1, <1>2
<1>4. Arranged(u)
  <2>1. ASSUME NEW i \in 1 .. Len(u), u[i].does = "recycling" PROVE i = Len(u)
    <3>1. i + 1 = Len(t) BY <1>1, <1>2, <2>1 DEF Arranged
    <3> QED BY <3>1, <1>1
  <2>2. ASSUME NEW i \in 1 .. Len(u), NEW j \in 1 .. Len(u), i < j, u[j].does = "sending"
        PROVE  u[i].does = "arrive"
    <3>1. i + 1 \in 1 .. Len(t) /\ j + 1 \in 1 .. Len(t) /\ i + 1 < j + 1
          /\ u[i] = t[i + 1] /\ u[j] = t[j + 1]
      BY <1>1, <2>2
    <3> QED BY <3>1, <1>2, <2>2 DEF Arranged
  <2> QED BY <2>1, <2>2 DEF Arranged
<1>5. Head(t).does # "arrive" => NoWalk(u)
  <2> SUFFICES ASSUME NEW i \in 1 .. Len(u), u[i].does = "sending" PROVE Head(t).does = "arrive"
    BY DEF NoWalk
  <2>1. i + 1 \in 1 .. Len(t) /\ 1 < i + 1 /\ t[i + 1].does = "sending" BY <1>1
  <2> QED BY <2>1, <1>1, <1>2 DEF Arranged
<1>6. Head(t).does = "recycling" => u = << >>
  <2> SUFFICES ASSUME Head(t).does = "recycling" PROVE u = << >> OBVIOUS
  <2>1. 1 = Len(t) BY <1>1, <1>2 DEF Arranged
  <2>2. Len(u) = 0 BY <2>1, <1>1
  <2> QED BY <2>2, <1>1, EmptySeq
<1>7. FrameCalm(d, D, W, Head(t)) BY <1>1, <1>2
<1> QED BY <1>1, <1>2, <1>3, <1>4, <1>5, <1>6, <1>7, <1>d DEF u

\* What a movement does to where things are.
Gone(d, e, D, what, where) ==
    /\ e.type = d.type /\ \A o \in Objs : o # what => e.location[o] = d.location[o]
    /\ e.location[what] \in {NOTHING, where} \/ Stays(d, D, e.location[what])

LEMMA MovetoGoes ==
    ASSUME NEW d, NEW D, NEW what \in Objs, NEW where \in Refs \cup {HOME}, Good(d, D)
    PROVE  Gone(d, Moveto(d, what, where), D, what, where)
<1> DEFINE e == Moveto(d, what, where)
<1>1. d \in Db /\ Sound(d, D) /\ InPlace(d, D) BY DEF Good
<1>2. \E to \in Refs : MovedTo(d, e, what, to, D) /\ Comes(d, D, what, where, to)
  BY <1>1, MovetoMoves
<1> HIDE DEF e
<1>3. Gone(d, e, D, what, where) BY <1>2 DEF MovedTo, Shifted, Comes, Gone
<1> QED BY <1>3 DEF e

\* Who goes home has one.
Homed(d, what, where) == where = HOME => d.type[what] \in {"player", "thing"}

LEMMA EnteredGoes ==
    ASSUME NEW d, NEW D, NEW what \in Objs, NEW where \in Refs \cup {HOME},
           Good(d, D), Homed(d, what, where), d.type[what] # "garbage"
    PROVE  /\ Entered(d, what, where) \in Refs
           /\ Entered(d, what, where) = where \/ Stays(d, D, Entered(d, what, where))
<1>1. d \in Db /\ Sound(d, D) /\ HomeOK(d, D) BY DEF Good, Sound
<1>2. Stays(d, D, Fallback(d, what)) BY <1>1, FallbackIs DEF Lands
<1> DEFINE loc == IF where = HOME THEN d.home[what] ELSE where
<1>3. loc \in Refs /\ (loc = where \/ Stays(d, D, loc))
  <2>1. d.home \in [Objs -> Refs] BY <1>1 DEF Db
  <2>2. where = HOME => Stays(d, D, d.home[what])
    BY <1>1 DEF HomeOK, Homed, Stays, Containers
  <2> QED BY <2>1, <2>2
<1>4. Entered(d, what, where) = Fallback(d, what) \/ Entered(d, what, where) = loc
  BY DEF Entered
<1> HIDE DEF loc
<1> QED BY <1>2, <1>3, <1>4 DEF Stays, Refs

LEMMA EnterRoomGoes ==
    ASSUME NEW d, NEW D, NEW what \in Objs, NEW where \in Refs \cup {HOME},
           Good(d, D), Homed(d, what, where)
    PROVE  Gone(d, EnterRoom(d, what, where), D, what, where)
<1> DEFINE to == Entered(d, what, where)
<1>1. CASE d.type[what] = "garbage"
  <2>1. Moveto(d, what, to) = d BY <1>1 DEF Moveto
  <2>2. EnterRoom(d, what, where) = d BY <2>1 DEF EnterRoom
  <2>3. d.location[what] = NOTHING BY <1>1 DEF Good, InPlace, Placed
  <2> QED BY <2>2, <2>3 DEF Gone
<1>2. CASE d.type[what] # "garbage"
  <2>1. to \in Refs /\ (to = where \/ Stays(d, D, to)) BY <1>2, EnteredGoes
  <2> HIDE DEF to
  <2>2. Gone(d, Moveto(d, what, to), D, what, to) BY <2>1, MovetoGoes
  <2>3. to = d.location[what] => Gone(d, d, D, what, where) BY <2>1 DEF Gone
  <2>4. Gone(d, Moveto(d, what, to), D, what, where) BY <2>1, <2>2 DEF Gone
  <2> QED BY <2>3, <2>4 DEF EnterRoom, to
<1> QED BY <1>1, <1>2

\* Where it may go in view of what is being recycled.
Fits(d, D, W, what, where) ==
    \/ where \in {NOTHING, HOME}
    \/ where \in Objs /\ d.type[where] # "garbage" /\ (where \in D => what \in W)

LEMMA GoneInside ==
    ASSUME NEW d, NEW e, NEW D \in SUBSET Objs, NEW W, NEW what \in Objs, NEW where,
           Inside(d, D, W), Gone(d, e, D, what, where), Fits(d, D, W, what, where)
    PROVE  Inside(e, D, W)
<1>1. NOTHING \notin Objs /\ HOME \notin Objs BY Names DEF Refs
<1>2. e.location[what] \in D => what \in W BY <1>1 DEF Gone, Fits, Stays
<1>3. \A g \in Objs : d.type[g] = "garbage" => e.location[what] # g
  BY <1>1 DEF Gone, Fits, Stays
<1>4. e.type = d.type /\ \A o \in Objs : o # what => e.location[o] = d.location[o]
  BY DEF Gone
<1>5. NothingIn(e, D)
  <2>1. \A o \in Objs \ D : \A g \in Objs : d.type[g] = "garbage" => d.location[o] # g
    BY DEF Inside, NothingIn
  <2> QED BY <2>1, <1>3, <1>4 DEF NothingIn
<1>6. \A o \in Objs : e.location[o] \in D => o \in W
  <2>1. \A o \in Objs : d.location[o] \in D => o \in W BY DEF Inside
  <2> QED BY <2>1, <1>2, <1>4
<1> QED BY <1>5, <1>6 DEF Inside

\* What a movement leaves to do does nothing.
Light(f) ==
    /\ f \in Seq(Frames)
    /\ \A i \in 1 .. Len(f) : f[i].does \in {"depart", "arrive", "send home"}

LEMMA LightCalm ==
    ASSUME NEW e, NEW D, NEW W, NEW f, Light(f)
    PROVE  /\ f \in Seq(Frames) /\ Arranged(f)
           /\ \A i \in 1 .. Len(f) : FrameCalm(e, D, W, f[i]) /\ f[i].does # "recycling"
BY Zenon DEF Light, Arranged, FrameCalm

LEMMA AfterwardsLight ==
    ASSUME NEW d \in Db, NEW what \in Objs, NEW where
    PROVE  /\ Light(Afterwards(d, what, where))
           /\ d.location[what] = NOTHING
              => Afterwards(d, what, where) = <<[does |-> "arrive"]>>
<1> DEFINE old == d.location[what]
           arrive == [does |-> "arrive"]
           depart == [does |-> "depart", old |-> old]
<1>1. arrive \in Frames /\ arrive.does = "arrive" BY DEF Frames
<1>2. old # NOTHING => depart \in Frames
  <2>1. old \in Refs BY DEF Db
  <2> QED BY <2>1 DEF Frames, Refs
<1>3. depart.does = "depart" OBVIOUS
<1>4. \/ Afterwards(d, what, where) = <<arrive>>
      \/ old # NOTHING /\ Afterwards(d, what, where) = <<depart, arrive>>
  BY DEF Afterwards
<1> HIDE DEF arrive, depart
<1>5. Light(<<arrive>>)
  <2>1. <<arrive>> \in Seq(Frames) /\ Len(<<arrive>>) = 1 /\ <<arrive>>[1] = arrive
    BY <1>1
  <2> DEFINE f == <<arrive>>
  <2> HIDE DEF f
  <2>2. \A i \in 1 .. Len(f) : i = 1 BY <2>1 DEF f
  <2>3. \A i \in 1 .. Len(f) : f[i].does \in {"depart", "arrive", "send home"}
    BY Zenon, <2>1, <2>2, <1>1 DEF f
  <2>4. Light(f) BY Zenon, <2>1, <2>3 DEF Light, f
  <2> QED BY <2>4 DEF f
<1>6. old # NOTHING => Light(<<depart, arrive>>)
  <2> SUFFICES ASSUME old # NOTHING PROVE Light(<<depart, arrive>>) OBVIOUS
  <2>1. <<depart, arrive>> \in Seq(Frames) /\ Len(<<depart, arrive>>) = 2
        /\ <<depart, arrive>>[1] = depart /\ <<depart, arrive>>[2] = arrive
    BY <1>1, <1>2
  <2> DEFINE f == <<depart, arrive>>
  <2> HIDE DEF f
  <2>2. \A i \in 1 .. Len(f) : i = 1 \/ i = 2 BY <2>1 DEF f
  <2>3. \A i \in 1 .. Len(f) : f[i].does \in {"depart", "arrive", "send home"}
    BY Zenon, <2>1, <2>2, <1>1, <1>3 DEF f
  <2>4. Light(f) BY Zenon, <2>1, <2>3 DEF Light, f
  <2> QED BY <2>4 DEF f
<1> QED BY <1>4, <1>5, <1>6 DEF arrive

\* A movement in quiet.
Drifts(d, m, D, what, where) ==
    m = [db |-> m.db, then |-> m.then] /\ Gone(d, m.db, D, what, where) /\ Light(m.then)

LEMMA MovementDrifts ==
    ASSUME NEW d, NEW D, NEW what \in Objs, NEW where \in Refs \cup {HOME}, Good(d, D)
    PROVE  /\ Drifts(d, Moves(d, what, where), D, what, where)
           /\ Homed(d, what, where) => Drifts(d, Enters(d, what, where), D, what, where)
           /\ Drifts(d, ThingMoves(d, what, where), D, what, where)
<1>1. Light(<< >>) /\ Light(Afterwards(d, what, where))
  <2>1. d \in Db BY DEF Good
  <2>2. Light(<< >>) BY DEF Light
  <2> QED BY <2>1, <2>2, AfterwardsLight
<1>2. Drifts(d, Moves(d, what, where), D, what, where)
  BY <1>1, MovetoGoes DEF Moves, Drifts
<1>3. Homed(d, what, where) => Drifts(d, Enters(d, what, where), D, what, where)
  BY <1>1, EnterRoomGoes DEF Enters, Drifts
<1>4. d.type[what] = "thing" => Homed(d, what, where) BY DEF Homed
<1> QED BY <1>2, <1>3, <1>4 DEF ThingMoves

LEMMA QuietFrom ==
    ASSUME NEW W, Calm(db', task', DoomedIn(task'), W)
    PROVE  Quiet'
BY DEF Quiet, Calm, Inside, NothingIn, FrameCalm, Walk, Walked, Safe, Stays, Arranged, DoomedIn

LEMMA DoomedObjs == \A t : DoomedIn(t) \in SUBSET Objs
BY DEF DoomedIn

\* A step of a frame that neither walks past another nor recycles.
LEMMA CalmStep ==
    ASSUME NEW m, NEW W, NEW D, Inv, Calm(db, task, D, W), Continue(m), task # << >>,
           Head(task).does \notin {"recycling", "arrive"},
           m.db.type = db.type, Inside(m.db, D, W), m.then \in Seq(Frames), Arranged(m.then),
           \A i \in 1 .. Len(m.then) :
              FrameCalm(m.db, D, W, m.then[i]) /\ m.then[i].does # "recycling"
    PROVE  Quiet'
<1> DEFINE u == Tail(task)
<1>1. task \in Seq(Frames) BY DEF Inv, Whole
<1>2. /\ u \in Seq(Frames) /\ NoWalk(u) /\ Arranged(u) /\ D = DoomedIn(u)
      /\ \A i \in 1 .. Len(u) : FrameCalm(db, D, W, u[i])
  BY <1>1, CalmPop
<1>3. W \in SUBSET Objs BY DEF Calm
<1>4. db' = m.db /\ task' = m.then \o u BY DEF Continue
<1> HIDE DEF u
<1>5. Calm(m.db, m.then \o u, D, W) BY <1>2, <1>3, CalmOn
<1>6. Calm(db', task', DoomedIn(task'), W) BY <1>4, <1>5 DEF Calm
<1> QED BY <1>6, QuietFrom

\* One that moves what may be moved.
LEMMA DriftStep ==
    ASSUME NEW m, NEW W, NEW D, NEW what \in Objs, NEW where,
           Inv, Calm(db, task, D, W), Continue(m), task # << >>,
           Head(task).does \notin {"recycling", "arrive"},
           Drifts(db, m, D, what, where), Fits(db, D, W, what, where)
    PROVE  Quiet'
<1>1. Inside(db, D, W) /\ D \in SUBSET Objs BY DoomedObjs DEF Calm
<1>2. Gone(db, m.db, D, what, where) /\ Light(m.then) BY DEF Drifts
<1>3. Inside(m.db, D, W) BY <1>1, <1>2, GoneInside
<1>4. m.db.type = db.type BY <1>2 DEF Gone
<1>5. /\ m.then \in Seq(Frames) /\ Arranged(m.then)
      /\ \A i \in 1 .. Len(m.then) :
            FrameCalm(m.db, D, W, m.then[i]) /\ m.then[i].does # "recycling"
  BY <1>2, LightCalm
<1> QED BY <1>3, <1>4, <1>5, CalmStep

\* One that leaves the database alone and has one frame for another.
LEMMA CalmOne ==
    ASSUME NEW e, NEW D, NEW W, NEW f \in Frames, FrameCalm(e, D, W, f), f.does # "recycling"
    PROVE  /\ <<f>> \in Seq(Frames) /\ Arranged(<<f>>)
           /\ \A i \in 1 .. Len(<<f>>) : FrameCalm(e, D, W, <<f>>[i]) /\ <<f>>[i].does # "recycling"
<1>1. <<f>> \in Seq(Frames) /\ Len(<<f>>) = 1 /\ <<f>>[1] = f OBVIOUS
<1>2. \A i \in 1 .. 1 : i = 1 OBVIOUS
<1>3. \A i, j \in 1 .. 1 : ~ (i < j) OBVIOUS
<1> HIDE DEF FrameCalm
<1> QED BY <1>1, <1>2, <1>3 DEF Arranged

LEMMA EnterQuiet == Inv /\ Quiet /\ Enter => Quiet'
<1> SUFFICES ASSUME Inv, Quiet, Enter PROVE Quiet' OBVIOUS
<1> DEFINE D == DoomedIn(task)
           what == Head(task).what
           m == Enters(db, what, HOME)
<1>1. task # << >> /\ Head(task).does = "enter" /\ Continue(m) BY DEF Enter, Doing
<1>2. Good(db, D) /\ Head(task) \in Frames /\ task \in Seq(Frames)
  BY <1>1, HeadIs DEF Inv, Whole
<1>3. PICK W : Calm(db, task, D, W) BY DEF Quiet
<1>4. what \in Objs /\ FrameCalm(db, D, W, Head(task))
  BY Zenon, <1>1, <1>2, <1>3, CalmPop DEF Frames
<1>5. Homed(db, what, HOME) BY <1>1, <1>4 DEF FrameCalm, Homed
<1> HIDE DEF what, D
<1>6. Drifts(db, m, D, what, HOME) BY <1>2, <1>4, <1>5, MovementDrifts
<1>7. Fits(db, D, W, what, HOME) BY DEF Fits
<1> HIDE DEF m
<1> QED BY <1>1, <1>3, <1>4, <1>6, <1>7, DriftStep

LEMMA MoveOnQuiet == Inv /\ Quiet /\ MoveOn => Quiet'
<1> SUFFICES ASSUME Inv, Quiet, MoveOn PROVE Quiet' OBVIOUS
<1> DEFINE D == DoomedIn(task)
           what == Head(task).what
           where == Head(task).where
           m == Moves(db, what, where)
<1>1. task # << >> /\ Head(task).does = "moveto" /\ Continue(m) BY DEF MoveOn, Doing
<1>2. Good(db, D) /\ Head(task) \in Frames /\ task \in Seq(Frames)
  BY <1>1, HeadIs DEF Inv, Whole
<1>3. PICK W : Calm(db, task, D, W) BY DEF Quiet
<1>4. what \in Objs /\ where \in Objs /\ FrameCalm(db, D, W, Head(task))
  BY Zenon, <1>1, <1>2, <1>3, CalmPop DEF Frames
<1>5. Stays(db, D, where) BY <1>1, <1>4 DEF FrameCalm
<1> HIDE DEF what, where, D
<1>6. Drifts(db, m, D, what, where) BY <1>2, <1>4, MovementDrifts DEF Refs
<1>7. Fits(db, D, W, what, where) BY <1>5 DEF Fits, Stays
<1> HIDE DEF m
<1> QED BY <1>1, <1>3, <1>4, <1>6, <1>7, DriftStep

LEMMA SendHomeQuiet == Inv /\ Quiet /\ SendHome => Quiet'
<1> SUFFICES ASSUME Inv, Quiet, SendHome PROVE Quiet' OBVIOUS
<1> DEFINE D == DoomedIn(task)
           thing == Head(task).thing
           enter == [does |-> "enter", what |-> thing]
           send == [does |-> "send", loc |-> thing, dest |-> HOME]
           again == [does |-> "send home", thing |-> thing, puppethome |-> FALSE]
           goes == <<enter>>
<1>1. /\ task # << >> /\ Head(task).does = "send home"
      /\ \/ db.type[thing] = "player" /\ Continue([db |-> db, then |-> <<send>> \o goes])
         \/ db.type[thing] = "thing" /\ Continue([db |-> db, then |-> <<send>> \o <<again>>])
         \/ db.type[thing] = "thing" /\ Continue([db |-> db, then |-> goes])
         \/ Continue(Moves(db, thing, HOME))
  BY Zenon DEF SendHome, Doing
<1>2. Good(db, D) /\ Head(task) \in Frames /\ task \in Seq(Frames)
  BY Zenon, <1>1, HeadIs DEF Inv, Whole
<1>3. PICK W : Calm(db, task, D, W) BY DEF Quiet
<1>4. thing \in Objs /\ Inside(db, D, W) BY Zenon, <1>1, <1>2, <1>3 DEF Frames, Calm
<1> HIDE DEF thing, D
<1>b. again \in Frames /\ again.does = "send home" BY Zenon, <1>4 DEF Frames
<1> HIDE DEF again
<1>c. FrameCalm(db, D, W, again) BY <1>b DEF FrameCalm
<1>5. CASE Continue(Moves(db, thing, HOME))
  <2>1. Drifts(db, Moves(db, thing, HOME), D, thing, HOME) /\ Fits(db, D, W, thing, HOME)
    BY <1>2, <1>4, MovementDrifts DEF Fits
  <2> QED BY Zenon, <1>1, <1>3, <1>4, <1>5, <2>1, DriftStep
<1>6. enter \in Frames /\ enter.does = "enter" /\ enter.what = thing
  BY <1>4 DEF Frames
<1>7. db.type[thing] \in {"player", "thing"} => FrameCalm(db, D, W, enter)
  BY <1>6 DEF FrameCalm
<1> HIDE DEF enter
<1>8. CASE db.type[thing] = "thing" /\ Continue([db |-> db, then |-> goes])
  <2>1. /\ goes \in Seq(Frames) /\ Arranged(goes)
        /\ \A i \in 1 .. Len(goes) : FrameCalm(db, D, W, goes[i]) /\ goes[i].does # "recycling"
    BY <1>6, <1>7, <1>8, CalmOne
  <2> DEFINE m == [db |-> db, then |-> goes]
  <2>2. m.db = db /\ m.then = goes /\ Continue(m) BY <1>8
  <2> HIDE DEF goes, m
  <2> QED BY Zenon, <1>1, <1>3, <1>4, <2>1, <2>2, CalmStep
<1>9. ASSUME NEW g \in {enter, again}, db.type[thing] \in {"player", "thing"},
             FrameCalm(db, D, W, g), Continue([db |-> db, then |-> <<send>> \o <<g>>])
      PROVE  Quiet'
  <2> DEFINE both == <<send>> \o <<g>>
  <2>0. g \in Frames /\ g.does \in {"enter", "send home"} BY <1>6, <1>b, <1>9
  <2>1. send \in Frames /\ send.does = "send" /\ send.loc = thing /\ send.dest = HOME
    BY Zenon, <1>4 DEF Frames
  <2>2. FrameCalm(db, D, W, send) BY <1>9, <2>1 DEF FrameCalm, Safe
  <2> HIDE DEF send
  <2>3. both \in Seq(Frames) /\ Len(both) = 2 /\ both[1] = send /\ both[2] = g
    <3>1. ASSUME NEW x \in Frames, NEW y \in Frames
          PROVE  /\ <<x>> \o <<y>> \in Seq(Frames) /\ Len(<<x>> \o <<y>>) = 2
                 /\ (<<x>> \o <<y>>)[1] = x /\ (<<x>> \o <<y>>)[2] = y
      OBVIOUS
    <3>2. send \in Frames /\ g \in Frames BY Zenon, <2>0, <2>1
    <3>3. /\ <<send>> \o <<g>> \in Seq(Frames) /\ Len(<<send>> \o <<g>>) = 2
          /\ (<<send>> \o <<g>>)[1] = send /\ (<<send>> \o <<g>>)[2] = g
      BY ONLY Zenon, <3>1, <3>2
    <3> QED BY ONLY Zenon, <3>3 DEF both
  <2>4. \A i \in 1 .. Len(both) : i = 1 \/ i = 2 BY <2>3
  <2> HIDE DEF both
  <2>5. \A i \in 1 .. Len(both) : FrameCalm(db, D, W, both[i]) /\ both[i].does # "recycling"
    BY <1>9, <2>0, <2>1, <2>2, <2>3, <2>4
  <2>6. Arranged(both) BY <2>0, <2>1, <2>3, <2>4 DEF Arranged
  <2> DEFINE m == [db |-> db, then |-> both]
  <2>7. m.db = db /\ m.then = both /\ Continue(m)
    <3>1. Continue(m) BY Zenon, <1>9 DEF both
    <3> QED BY Zenon, <3>1
  <2> HIDE DEF m
  <2> QED BY Zenon, <1>1, <1>3, <1>4, <2>3, <2>5, <2>6, <2>7, CalmStep
<1>10. CASE db.type[thing] = "player" /\ Continue([db |-> db, then |-> <<send>> \o goes])
  BY <1>7, <1>9, <1>10, Zenon
<1>11. CASE db.type[thing] = "thing" /\ Continue([db |-> db, then |-> <<send>> \o <<again>>])
  BY <1>c, <1>9, <1>11, Zenon
<1> QED BY Zenon, <1>1, <1>5, <1>8, <1>10, <1>11

LEMMA DepartQuiet == Inv /\ Quiet /\ Depart => Quiet'
<1> SUFFICES ASSUME Inv, Quiet, Depart PROVE Quiet' OBVIOUS
<1> DEFINE D == DoomedIn(task)
           old == Head(task).old
           dropto == db.dropto[old]
           send == [does |-> "send", loc |-> old, dest |-> dropto]
<1>1. /\ task # << >> /\ Head(task).does = "depart"
      /\ \/ /\ db.type[old] = "room" /\ dropto # NOTHING
            /\ Continue([db |-> db, then |-> <<send>>])
         \/ Continue([db |-> db, then |-> << >>])
  BY DEF Depart, Doing
<1>2. Good(db, D) /\ Head(task) \in Frames BY <1>1, HeadIs DEF Inv
<1>3. PICK W : Calm(db, task, D, W) BY DEF Quiet
<1>4. old \in Objs /\ Inside(db, D, W) BY Zenon, <1>1, <1>2, <1>3 DEF Frames, Calm
<1> HIDE DEF old, D
<1>5. CASE Continue([db |-> db, then |-> << >>])
  <2> DEFINE m == [db |-> db, then |-> << >>]
  <2>1. m.db = db /\ m.then = << >> /\ Continue(m) BY <1>5
  <2>2. << >> \in Seq(Frames) /\ Arranged(<< >>) /\ Len(<< >>) = 0 BY DEF Arranged
  <2>3. \A i \in 1 .. Len(<< >>) : FALSE BY <2>2
  <2> HIDE DEF m
  <2>4. /\ m.db.type = db.type /\ Inside(m.db, D, W) /\ m.then \in Seq(Frames) /\ Arranged(m.then)
        /\ \A i \in 1 .. Len(m.then) :
              FrameCalm(m.db, D, W, m.then[i]) /\ m.then[i].does # "recycling"
    BY <1>4, <2>1, <2>2, <2>3
  <2> QED BY <1>1, <1>3, <2>1, <2>4, CalmStep
<1>6. CASE /\ db.type[old] = "room" /\ dropto # NOTHING
           /\ Continue([db |-> db, then |-> <<send>>])
  <2>1. dropto \in Objs \cup {HOME} BY <1>2, <1>4, <1>6 DEF Good, Db, Refs
  <2>2. Safe(db, D, dropto)
    <3>1. dropto \in Objs => dropto \notin D /\ db.type[dropto] \in {"room", "thing"}
      BY <1>2, <1>4 DEF Good, Sound, DroptoOK
    <3> QED BY <2>1, <3>1 DEF Safe, Stays
  <2> HIDE DEF dropto
  <2>3. send \in Frames /\ send.does = "send" /\ send.loc = old /\ send.dest = dropto
    BY Zenon, <1>4, <2>1 DEF Frames
  <2>4. FrameCalm(db, D, W, send) BY <1>6, <2>2, <2>3 DEF FrameCalm
  <2> HIDE DEF send
  <2>5. /\ <<send>> \in Seq(Frames) /\ Arranged(<<send>>)
        /\ \A i \in 1 .. Len(<<send>>) : FrameCalm(db, D, W, <<send>>[i]) /\ <<send>>[i].does # "recycling"
    BY <2>3, <2>4, CalmOne
  <2> DEFINE c == <<send>>
             m == [db |-> db, then |-> c]
  <2>6. m.db = db /\ m.then = c /\ Continue(m) BY <1>6
  <2>7. /\ c \in Seq(Frames) /\ Arranged(c)
        /\ \A i \in 1 .. Len(c) : FrameCalm(db, D, W, c[i]) /\ c[i].does # "recycling"
    BY <2>5
  <2> HIDE DEF m, c
  <2> QED BY <1>1, <1>3, <1>4, <2>6, <2>7, CalmStep
<1> QED BY <1>1, <1>5, <1>6

LEMMA ArriveQuiet == Inv /\ Quiet /\ Arrive => Quiet'
<1> SUFFICES ASSUME Inv, Quiet, Arrive PROVE Quiet' OBVIOUS
<1> DEFINE D == DoomedIn(task)
           u == Tail(task)
<1>1. task # << >> /\ Head(task).does = "arrive" /\ db' = db /\ task' = << >> \o u
  BY DEF Arrive, Doing, Continue
<1>2. task \in Seq(Frames) BY DEF Inv, Whole
<1>3. PICK W : Calm(db, task, D, W) BY DEF Quiet
<1>4. /\ u \in Seq(Frames) /\ Arranged(u) /\ D = DoomedIn(u)
      /\ \A i \in 1 .. Len(u) : FrameCalm(db, D, W, u[i])
  BY <1>1, <1>2, <1>3, CalmPop
<1> HIDE DEF u
<1>5. task' = u BY <1>1, <1>4, ConcatEmptySeq
<1>6. Calm(db, u, D, W) BY <1>3, <1>4 DEF Calm
<1>7. Calm(db', task', DoomedIn(task'), W) BY <1>1, <1>4, <1>5, <1>6
<1> QED BY <1>7, QuietFrom

\* The walk of send_contents() begins with the whole list.
ListOffSafe(d, e, D, W, loc) ==
    /\ e.type = d.type /\ Inside(e, D, W)
    /\ Walk(e, IF loc \in D THEN W ELSE Objs, d.contents[loc])

LEMMA ListOffWalks ==
    ASSUME NEW d, NEW D, NEW W, NEW loc \in Objs, Good(d, D), Inside(d, D, W), W \in SUBSET Objs,
           D \in SUBSET Objs
    PROVE  ListOffSafe(d, ListOff(d, loc), D, W, loc)
<1> DEFINE e == ListOff(d, loc)
           K == Members(d, d.contents[loc])
           first == d.contents[loc]
<1> SUFFICES ListOffSafe(d, e, D, W, loc) OBVIOUS
<1>0. d \in Db BY DEF Good
<1>1. PICK h : Threaded(d, h) /\ Placed(d, h, D) BY DEF Good, InPlace
<1>2. PICK B : \E r : Linked(Objs, Heads, NOTHING, Firsts(d), d.next, h, r, B)
  BY <1>1 DEF Threaded
<1>3. PICK r : Linked(Objs, Heads, NOTHING, Firsts(d), d.next, h, r, B) BY <1>2
<1>f. /\ \A l \in Objs : Firsts(d)[l] = d.contents[l]
      /\ d.next \in [Objs -> Refs] /\ d.contents \in [Objs -> Refs]
  BY <1>0, FirstsTyped, Zenon
<1>l. loc \in Heads /\ loc # NOTHING /\ NOTHING \notin Objs BY Names DEF Heads
<1>m. \A x : x \in K <=> x \in Objs /\ h[x] = loc
  <2>1. HoldsOf(Objs, h, loc, Members(d, d.contents[loc]))
    BY <1>3, <1>f, <1>l, ListMembers
  <2> QED BY <2>1 DEF HoldsOf
<1>4. e = [d EXCEPT !.contents[loc] = NOTHING,
                    !.location = [o \in Objs |-> IF o \in K THEN NOTHING ELSE @[o]]]
  BY DEF ListOff
<1> HIDE DEF e, K
<1>5. /\ e.type = d.type /\ e.next = d.next
      /\ \A o \in Objs : e.location[o] = IF o \in K THEN NOTHING ELSE d.location[o]
  <2>1. /\ e.type = d.type /\ e.next = d.next
        /\ e.location = [o \in Objs |-> IF o \in K THEN NOTHING ELSE d.location[o]]
    BY <1>0, <1>4 DEF Db
  <2> QED BY <2>1
<1>6. Inside(e, D, W)
  <2>1. NothingIn(e, D) BY <1>5, <1>l DEF Inside, NothingIn
  <2>2. \A o \in Objs : e.location[o] \in D => o \in W BY <1>5, <1>l DEF Inside
  <2> QED BY <2>1, <2>2 DEF Inside
<1>7. K \in SUBSET (IF loc \in D THEN W ELSE Objs)
  <2>1. K \subseteq Objs BY <1>m
  <2>2. loc \in D => K \subseteq W
    <3> SUFFICES ASSUME loc \in D, NEW x \in K PROVE x \in W OBVIOUS
    <3>1. x \in Objs /\ h[x] = loc BY <1>m
    <3>2. d.location[x] = loc BY <3>1, <1>1 DEF Placed
    <3> QED BY <3>1, <3>2 DEF Inside
  <2> QED BY <2>1, <2>2
<1>8. LinkTypes(Objs, Heads, NOTHING, Firsts(d), d.next, h, r, B) /\ FirstIsIn(Heads, NOTHING, Firsts(d), h)
      /\ NextIsIn(Objs, NOTHING, Firsts(d), d.next, h, r)
  BY <1>3 DEF Linked
<1>9. r \in [Objs -> Int]
  <2>1. B \in Nat /\ r \in [Objs -> 0 .. B] BY <1>8 DEF LinkTypes
  <2> QED BY <2>1
<1>10. first \in K \cup {NOTHING}
  <2> SUFFICES ASSUME first # NOTHING PROVE first \in K OBVIOUS
  <2>1. first \in Refs BY <1>f
  <2>2. first \in Objs BY <2>1 DEF Refs
  <2>3. h[first] = loc BY <1>8, <1>f, <1>l DEF FirstIsIn
  <2> HIDE DEF first
  <2> QED BY <2>2, <2>3, <1>m
<1>11. \A y \in K : d.next[y] # NOTHING => d.next[y] \in K /\ r[d.next[y]] < r[y]
  <2> SUFFICES ASSUME NEW y \in K, d.next[y] # NOTHING
               PROVE  d.next[y] \in K /\ r[d.next[y]] < r[y]
    OBVIOUS
  <2>1. y \in Objs /\ h[y] = loc BY <1>m
  <2>2. d.next[y] \in Objs BY <2>1, <1>f DEF Refs
  <2>3. h[d.next[y]] = loc /\ r[d.next[y]] < r[y] BY <2>1, <1>8, <1>l DEF NextIsIn
  <2> QED BY <2>2, <2>3, <1>m
<1>12. Walked(e, K, r, first)
  <2>1. \A y \in K : e.location[y] = NOTHING BY <1>5, <1>m
  <2> HIDE DEF first
  <2> QED BY <2>1, <1>5, <1>10, <1>11 DEF Walked
<1> HIDE DEF first
<1>13. Walk(e, IF loc \in D THEN W ELSE Objs, first) BY <1>7, <1>9, <1>12 DEF Walk
<1> QED BY <1>5, <1>6, <1>13 DEF ListOffSafe, first

LEMMA SendQuiet == Inv /\ Quiet /\ Send => Quiet'
<1> SUFFICES ASSUME Inv, Quiet, Send PROVE Quiet' OBVIOUS
<1> DEFINE loc == Head(task).loc
           dest == Head(task).dest
           first == db.contents[loc]
           e == ListOff(db, loc)
           walk == [does |-> "sending", loc |-> loc, dest |-> dest, first |-> first]
           c == <<walk>>
           m == [db |-> e, then |-> c]
           D == DoomedIn(task)
<1>1. task # << >> /\ Head(task).does = "send" /\ Continue(m)
  BY DEF Send, Doing, ListOff
<1>2. Good(db, D) /\ Head(task) \in Frames /\ task \in Seq(Frames)
  BY <1>1, HeadIs DEF Inv, Whole
<1>3. PICK W : Calm(db, task, D, W) BY DEF Quiet
<1>4. loc \in Objs /\ dest \in Objs \cup {HOME} BY Zenon, <1>1, <1>2 DEF Frames
<1>5. db.type[loc] # "garbage" /\ Safe(db, D, dest)
  <2>1. FrameCalm(db, D, W, Head(task)) BY <1>1, <1>2, <1>3, CalmPop
  <2> QED BY <1>1, <2>1 DEF FrameCalm
<1> HIDE DEF loc, dest, D
<1>6. W \in SUBSET Objs /\ D \in SUBSET Objs /\ Inside(db, D, W)
  BY <1>3, DoomedObjs DEF Calm
<1>7. ListOffSafe(db, e, D, W, loc) BY <1>2, <1>4, <1>6, ListOffWalks
<1> HIDE DEF e
<1>8. e.type = db.type /\ Inside(e, D, W) /\ Walk(e, IF loc \in D THEN W ELSE Objs, first)
  BY <1>7 DEF ListOffSafe
<1>9. first \in Refs BY <1>2, <1>4 DEF Good, Db
<1> HIDE DEF first
<1>10. walk \in Frames /\ walk.does = "sending" /\ walk.loc = loc /\ walk.dest = dest
       /\ walk.first = first
  BY Zenon, <1>4, <1>9 DEF Frames
<1> HIDE DEF walk
<1>11. FrameCalm(e, D, W, walk) BY <1>5, <1>8, <1>10 DEF FrameCalm, Safe, Stays
<1>12. /\ c \in Seq(Frames) /\ Arranged(c)
       /\ \A i \in 1 .. Len(c) : FrameCalm(e, D, W, c[i]) /\ c[i].does # "recycling"
  BY <1>10, <1>11, CalmOne
<1>13. m.db = e /\ m.then = c OBVIOUS
<1> HIDE DEF m, c
<1> QED BY <1>1, <1>3, <1>8, <1>12, <1>13, CalmStep

LEMMA SentQuiet == Inv /\ Quiet /\ Sent => Quiet'
<1> SUFFICES ASSUME Inv, Quiet, Sent PROVE Quiet' OBVIOUS
<1> DEFINE loc == Head(task).loc
           e == ReverseContents(db, loc)
           m == [db |-> e, then |-> << >>]
           D == DoomedIn(task)
<1>1. task # << >> /\ Head(task).does = "sending" /\ Continue(m) BY DEF Sent, Doing
<1>2. Good(db, D) /\ Head(task) \in Frames BY <1>1, HeadIs DEF Inv
<1>3. loc \in Objs BY Zenon, <1>1, <1>2 DEF Frames
<1>p. PICK W : Calm(db, task, D, W) BY DEF Quiet
<1> HIDE DEF loc, D
<1>4. PICK h : Threaded(db, h) /\ Placed(db, h, D) BY <1>2 DEF Good, InPlace
<1>5. Relinked(db, e, h) BY <1>2, <1>3, <1>4, ReverseThreads DEF Good
<1> HIDE DEF e
<1>6. e.type = db.type /\ e.location = db.location BY <1>5 DEF Relinked, OnlyLists
<1>7. Inside(e, D, W)
  <2>1. Inside(db, D, W) BY <1>p DEF Calm
  <2> QED BY <2>1, <1>6 DEF Inside, NothingIn
<1>8. m.db = e /\ m.then = << >> OBVIOUS
<1> HIDE DEF m
<1>9. /\ m.then \in Seq(Frames) /\ Arranged(m.then)
      /\ \A i \in 1 .. Len(m.then) :
            FrameCalm(m.db, D, W, m.then[i]) /\ m.then[i].does # "recycling"
  <2>1. << >> \in Seq(Frames) /\ Arranged(<< >>) /\ \A i \in 1 .. Len(<< >>) : FALSE
    BY DEF Arranged
  <2> QED BY <1>8, <2>1
<1> QED BY <1>1, <1>p, <1>6, <1>7, <1>8, <1>9, CalmStep

\* What is in no list is put into one without a change to the others.
NextKept(d, e, what) == \A x \in Objs : x # what => e.next[x] = d.next[x]

LEMMA MovetoNext ==
    ASSUME NEW d \in Db, NEW what \in Objs, NEW where, d.location[what] = NOTHING
    PROVE  /\ NextKept(d, Moveto(d, what, where), what)
           /\ NextKept(d, EnterRoom(d, what, where), what)
<1>1. ASSUME NEW to PROVE NextKept(d, Moveto(d, what, to), what)
  <2> DEFINE place == IF to = HOME \/ ParentLoopCheck(d, what, to) THEN Fallback(d, what) ELSE to
  <2>1. CASE Moveto(d, what, to) = d BY <2>1 DEF NextKept
  <2>2. CASE Moveto(d, what, to) = [d EXCEPT !.location[what] = NOTHING]
    <3>1. [d EXCEPT !.location[what] = NOTHING].next = d.next BY DEF Db
    <3> QED BY <2>2, <3>1 DEF NextKept
  <2>3. CASE Moveto(d, what, to) = [Push(d, what, place) EXCEPT !.location[what] = place]
    <3> HIDE DEF place
    <3>1. Push(d, what, place).next = [d.next EXCEPT ![what] = d.contents[place]]
      BY DEF Push, Db
    <3> DEFINE p == Push(d, what, place)
    <3>2. p = [p EXCEPT !.next = p.next] BY DEF Push, Db
    <3>3. [p EXCEPT !.location[what] = place].next = p.next BY DEF Push, Db
    <3>4. d.next \in [Objs -> Refs] BY DEF Db
    <3> HIDE DEF p
    <3> QED BY <2>3, <3>1, <3>3, <3>4 DEF NextKept, p
  <2>4. \/ Moveto(d, what, to) = d
        \/ Moveto(d, what, to) = [d EXCEPT !.location[what] = NOTHING]
        \/ Moveto(d, what, to) = [Push(d, what, place) EXCEPT !.location[what] = place]
    <3> DEFINE pushed == [Push(d, what, place) EXCEPT !.location[what] = place]
               lifted == [d EXCEPT !.location[what] = NOTHING]
    <3>1. Moveto(d, what, to) = CASE d.type[what] = "garbage" -> d
                                  [] d.type[what] # "garbage" /\ to = NOTHING -> lifted
                                  [] OTHER -> pushed
      BY DEF Moveto
    <3> HIDE DEF pushed, lifted
    <3>2. \/ Moveto(d, what, to) = d \/ Moveto(d, what, to) = lifted \/ Moveto(d, what, to) = pushed
      BY <3>1
    <3> QED BY <3>2 DEF pushed, lifted
  <2> QED BY <2>1, <2>2, <2>3, <2>4
<1>2. NextKept(d, d, what) BY DEF NextKept
<1> QED BY <1>1, <1>2 DEF EnterRoom

\* After it nothing moves but the walk.
Arrives(f) == f \in Seq(Frames) /\ \A i \in 1 .. Len(f) : f[i].does = "arrive"
Puts(d, m, what) == NextKept(d, m.db, what) /\ Arrives(m.then)

LEMMA MovementPuts ==
    ASSUME NEW d \in Db, NEW what \in Objs, NEW where, d.location[what] = NOTHING
    PROVE  Puts(d, Moves(d, what, where), what) /\ Puts(d, ThingMoves(d, what, where), what)
<1> DEFINE arrive == [does |-> "arrive"]
<1>1. Arrives(<< >>) BY DEF Arrives
<1>2. Arrives(<<arrive>>)
  <2>1. arrive \in Frames /\ arrive.does = "arrive" BY DEF Frames
  <2> HIDE DEF arrive
  <2> QED BY <2>1 DEF Arrives
<1>3. Afterwards(d, what, where) = <<arrive>> BY AfterwardsLight
<1> HIDE DEF arrive
<1>4. Puts(d, Moves(d, what, where), what) BY <1>1, MovetoNext DEF Moves, Puts
<1>5. Puts(d, Enters(d, what, where), what)
  BY <1>2, <1>3, MovetoNext DEF Enters, Puts
<1> QED BY <1>4, <1>5 DEF ThingMoves

LEMMA WalkGoesOn ==
    ASSUME NEW d, NEW e, NEW D, NEW S \in SUBSET Objs, NEW first, NEW where, first # NOTHING,
           Walk(d, S, first), Gone(d, e, D, first, where), NextKept(d, e, first)
    PROVE  Walk(e, S, d.next[first])
<1>1. PICK K \in SUBSET S : \E r \in [Objs -> Int] : Walked(d, K, r, first)
  BY DEF Walk
<1>2. PICK r \in [Objs -> Int] : Walked(d, K, r, first) BY <1>1
<1> DEFINE M == {y \in K : r[y] < r[first]}
<1>3. K \subseteq Objs /\ first \in K /\ first \in Objs BY <1>2 DEF Walked
<1>4. /\ d.next[first] \in M \cup {NOTHING}
      /\ \A y \in M : d.next[y] # NOTHING => d.next[y] \in M /\ r[d.next[y]] < r[y]
      /\ \A y \in M : y \in Objs /\ y # first /\ d.location[y] = NOTHING
  <2>1. \A y \in K : /\ d.location[y] = NOTHING
                     /\ d.next[y] # NOTHING => d.next[y] \in K /\ r[d.next[y]] < r[y]
    BY <1>2 DEF Walked
  <2>2. \A y \in K : r[y] \in Int BY <1>3
  <2>3. \A y \in M : d.next[y] # NOTHING => d.next[y] \in M /\ r[d.next[y]] < r[y]
    <3> SUFFICES ASSUME NEW y \in M, d.next[y] # NOTHING
                 PROVE  d.next[y] \in M /\ r[d.next[y]] < r[y]
      OBVIOUS
    <3>1. d.next[y] \in K /\ r[d.next[y]] < r[y] /\ r[y] < r[first] BY <2>1
    <3>2. r[d.next[y]] \in Int /\ r[y] \in Int /\ r[first] \in Int
      BY <2>2, <3>1, <1>3
    <3> QED BY <3>1, <3>2
  <2>4. d.next[first] \in M \cup {NOTHING} BY <2>1, <1>3
  <2>5. \A y \in M : y \in Objs /\ y # first /\ d.location[y] = NOTHING
    <3> SUFFICES ASSUME NEW y \in M PROVE y # first BY <2>1, <1>3
    <3>1. r[y] < r[first] /\ r[first] \in Int BY <2>2, <1>3
    <3> QED BY <3>1
  <2> QED BY <2>3, <2>4, <2>5
<1>5. M \in SUBSET S OBVIOUS
<1> HIDE DEF M
<1>6. \A y \in M : e.location[y] = d.location[y] /\ e.next[y] = d.next[y]
  BY <1>4 DEF Gone, NextKept
<1>7. Walked(e, M, r, d.next[first]) BY <1>4, <1>6 DEF Walked
<1> QED BY <1>5, <1>7 DEF Walk

\* Then the frame of the walk, and of what programs do, on top of the stack.
LEMMA ArrivesThen ==
    ASSUME NEW e, NEW D, NEW W, NEW g, NEW f \in Frames, Arrives(g), f.does = "sending",
           FrameCalm(e, D, W, f)
    PROVE  /\ g \o <<f>> \in Seq(Frames) /\ Arranged(g \o <<f>>)
           /\ \A i \in 1 .. Len(g \o <<f>>) :
                 FrameCalm(e, D, W, (g \o <<f>>)[i]) /\ (g \o <<f>>)[i].does # "recycling"
<1> DEFINE v == g \o <<f>>
<1>0. <<f>> \in Seq(Frames) /\ Len(<<f>>) = 1 /\ <<f>>[1] = f /\ g \in Seq(Frames)
  BY DEF Arrives
<1>1. /\ v \in Seq(Frames) /\ Len(v) = Len(g) + 1 /\ Len(g) \in Nat
      /\ \A i \in 1 .. Len(v) :
            i \in 1 .. Len(g) \/ (i - Len(g) \in 1 .. 1 /\ v[i] = <<f>>[i - Len(g)])
      /\ \A i \in 1 .. Len(g) : v[i] = g[i]
  BY <1>0, JoinIs
<1>2. \A i \in 1 .. Len(v) : \/ i \in 1 .. Len(g) /\ v[i] = g[i]
                             \/ i = Len(v) /\ v[i] = f
  <2> SUFFICES ASSUME NEW i \in 1 .. Len(v), i \notin 1 .. Len(g)
               PROVE  i = Len(v) /\ v[i] = f
    BY <1>1
  <2>1. i - Len(g) \in 1 .. 1 /\ v[i] = <<f>>[i - Len(g)] BY <1>1
  <2>2. i - Len(g) = 1 /\ Len(v) = Len(g) + 1 BY <2>1, <1>1
  <2> QED BY <2>1, <2>2, <1>0, <1>1
<1> HIDE DEF v
<1>3. \A i \in 1 .. Len(g) : g[i].does = "arrive" /\ FrameCalm(e, D, W, g[i])
  BY DEF Arrives, FrameCalm
<1>4. \A i \in 1 .. Len(v) : FrameCalm(e, D, W, v[i]) /\ v[i].does # "recycling"
  BY <1>2, <1>3
<1>5. \A i, j \in 1 .. Len(v) : i < j /\ v[j].does = "sending" => v[i].does = "arrive"
  <2> SUFFICES ASSUME NEW i \in 1 .. Len(v), NEW j \in 1 .. Len(v), i < j PROVE v[i].does = "arrive"
    OBVIOUS
  <2>1. i # Len(v) BY <1>1
  <2> QED BY <2>1, <1>2, <1>3
<1>6. Arranged(v) BY <1>4, <1>5 DEF Arranged
<1> QED BY <1>1, <1>4, <1>6 DEF v

LEMMA SendingQuiet == Inv /\ Quiet /\ Sending => Quiet'
<1> SUFFICES ASSUME Inv, Quiet, Sending PROVE Quiet' OBVIOUS
<1> DEFINE walk == Head(task)
           first == walk.first
           loc == walk.loc
           dest == walk.dest
           where == IF first \in Sticky THEN HOME ELSE dest
           fits == IF ParentLoopCheck(db, first, where) THEN loc ELSE where
           move == IF db.type[first] \notin {"thing", "program"}
                     THEN Moves(db, first, loc)
                     ELSE ThingMoves(db, first, fits)
           rest == [walk EXCEPT !.first = db.next[first]]
           c == move.then \o <<rest>>
           m == [move EXCEPT !.then = @ \o <<rest>>]
           D == DoomedIn(task)
<1>1. task # << >> /\ walk.does = "sending" /\ Continue(m) /\ first # NOTHING
  BY Zenon DEF Sending, Doing
<1>2. Good(db, D) /\ walk \in Frames /\ task \in Seq(Frames)
  BY <1>1, HeadIs DEF Inv, Whole
<1>3. PICK W : Calm(db, task, D, W) BY DEF Quiet
<1>4. /\ walk \in [does : {"sending"}, loc : Objs, dest : Objs \cup {HOME}, first : Refs]
      /\ first \in Objs /\ loc \in Objs /\ dest \in Objs \cup {HOME} /\ db.next[first] \in Refs
  <2>1. walk \in [does : {"sending"}, loc : Objs, dest : Objs \cup {HOME}, first : Refs]
    BY Zenon, <1>1, <1>2 DEF Frames
  <2>2. first \in Objs BY <1>1, <2>1 DEF Refs
  <2> QED BY <1>2, <2>1, <2>2 DEF Good, Db
<1> DEFINE S == IF loc \in D THEN W ELSE Objs
<1>5. db.type[loc] # "garbage" /\ Safe(db, D, dest) /\ Walk(db, S, first)
  <2>1. FrameCalm(db, D, W, walk) BY <1>1, <1>2, <1>3, CalmPop
  <2> QED BY <1>1, <2>1 DEF FrameCalm
<1>6. W \in SUBSET Objs /\ D \in SUBSET Objs /\ Inside(db, D, W)
  BY <1>3, DoomedObjs DEF Calm
<1>7. db.location[first] = NOTHING /\ (loc \in D => first \in W)
  <2>1. PICK K \in SUBSET S : \E r \in [Objs -> Int] : Walked(db, K, r, first)
    BY <1>5 DEF Walk
  <2>2. first \in K /\ db.location[first] = NOTHING BY Zenon, <2>1, <1>1 DEF Walked
  <2> QED BY <2>1, <2>2
<1>8. rest \in Frames /\ rest.does = "sending" /\ rest.loc = loc /\ rest.dest = dest
      /\ rest.first = db.next[first]
  BY Zenon, <1>4 DEF Frames
<1> HIDE DEF walk, D, rest
<1>9. \E to : Drifts(db, move, D, first, to) /\ Fits(db, D, W, first, to) /\ Puts(db, move, first)
  <2>0. db \in Db BY <1>2 DEF Good
  <2>1. CASE db.type[first] \notin {"thing", "program"}
    <3>1. Drifts(db, Moves(db, first, loc), D, first, loc)
      BY <1>2, <1>4, MovementDrifts DEF Refs
    <3>2. Fits(db, D, W, first, loc) BY <1>4, <1>5, <1>7 DEF Fits
    <3>3. Puts(db, Moves(db, first, loc), first) BY <2>0, <1>4, <1>7, MovementPuts
    <3> QED BY <2>1, <3>1, <3>2, <3>3
  <2>2. CASE db.type[first] \in {"thing", "program"}
    <3>1. fits \in Refs \cup {HOME} BY <1>4 DEF Refs
    <3>2. Fits(db, D, W, first, fits) BY <1>4, <1>5, <1>7 DEF Fits, Safe, Stays
    <3> HIDE DEF fits
    <3>3. Drifts(db, ThingMoves(db, first, fits), D, first, fits)
      BY <1>2, <1>4, <3>1, MovementDrifts
    <3>4. Puts(db, ThingMoves(db, first, fits), first)
      BY <2>0, <1>4, <1>7, MovementPuts
    <3> QED BY <2>2, <3>2, <3>3, <3>4
  <2> QED BY <2>1, <2>2
<1>10. PICK to : Drifts(db, move, D, first, to) /\ Fits(db, D, W, first, to) /\ Puts(db, move, first)
  BY <1>9
<1> HIDE DEF move
<1>11. /\ move = [db |-> move.db, then |-> move.then] /\ Gone(db, move.db, D, first, to)
       /\ NextKept(db, move.db, first) /\ Arrives(move.then)
  BY <1>10 DEF Drifts, Puts
<1>12. move.db.type = db.type BY <1>11 DEF Gone
<1>13. Inside(move.db, D, W) BY <1>4, <1>6, <1>10, <1>11, GoneInside
<1>14. Walk(move.db, S, db.next[first])
  <2>1. S \in SUBSET Objs BY <1>6
  <2> HIDE DEF S
  <2> QED BY <1>1, <1>5, <1>11, <2>1, WalkGoesOn
<1>15. FrameCalm(move.db, D, W, rest)
  <2>1. Safe(move.db, D, dest) BY <1>5, <1>12 DEF Safe, Stays
  <2>2. Walk(move.db, IF rest.loc \in D THEN W ELSE Objs, rest.first) BY <1>8, <1>14
  <2> QED BY <1>5, <1>8, <1>12, <2>1, <2>2 DEF FrameCalm
<1>16. /\ c \in Seq(Frames) /\ Arranged(c)
       /\ \A i \in 1 .. Len(c) : FrameCalm(move.db, D, W, c[i]) /\ c[i].does # "recycling"
  BY <1>8, <1>11, <1>15, ArrivesThen
<1>17. m.db = move.db /\ m.then = c
  <2>1. m = [move EXCEPT !.then = c] BY <1>11
  <2> HIDE DEF m, c
  <2> QED BY <1>11, <2>1
<1> HIDE DEF m, c
<1>18. Head(task).does \notin {"recycling", "arrive"} BY <1>1 DEF walk
<1> QED BY <1>1, <1>3, <1>12, <1>13, <1>16, <1>17, <1>18, CalmStep

\* Nothing is below the frame of recycle(), and it alone recycles.
LEMMA RecyclesAlone ==
    ASSUME NEW W, Inv, Calm(db, task, DoomedIn(task), W), task # << >>, Head(task).does = "recycling"
    PROVE  /\ Tail(task) = << >> /\ DoomedIn(Tail(task)) = {}
           /\ DoomedIn(task) = {Head(task).thing}
           /\ Cardinality(W) <= Head(task).looplimit /\ Head(task).last \notin W
<1>1. Whole(db, task) /\ task \in Seq(Frames) BY DEF Inv, Whole
<1>2. Tail(task) = << >> /\ FrameCalm(db, DoomedIn(task), W, Head(task))
  BY <1>1, CalmPop
<1>3. DoomedIn(Tail(task)) = {} BY <1>2, NoneDoomed
<1>4. DoomedIn(task) = DoomedIn(Tail(task)) \cup {Head(task).thing}
  BY <1>1, TaskPop DEF Whole
<1>5. Cardinality(W) <= Head(task).looplimit /\ Head(task).last \notin W
  BY <1>2 DEF FrameCalm
<1> QED BY <1>2, <1>3, <1>4, <1>5

\* What is first in a thing is in it.
LEMMA FirstIsHere ==
    ASSUME NEW d, NEW D, NEW loc \in Objs, Good(d, D), d.contents[loc] # NOTHING
    PROVE  d.contents[loc] \in Objs /\ d.location[d.contents[loc]] = loc
<1>0. d \in Db BY DEF Good
<1>1. PICK h : Threaded(d, h) /\ Placed(d, h, D) BY DEF Good, InPlace
<1>2. \E r, B : Linked(Objs, Heads, NOTHING, Firsts(d), d.next, h, r, B)
  BY <1>1 DEF Threaded
<1>3. FirstIsIn(Heads, NOTHING, Firsts(d), h) BY <1>2 DEF Linked
<1>4. Firsts(d)[loc] = d.contents[loc] /\ loc \in Heads
  BY <1>0, FirstsTyped DEF Heads
<1>5. h[d.contents[loc]] = loc BY <1>3, <1>4 DEF FirstIsIn
<1>6. d.contents[loc] \in Objs BY <1>0 DEF Db, Refs
<1> QED BY <1>1, <1>5, <1>6 DEF Placed

\* Where nothing is first nothing is, but for what is being recycled.
LEMMA EmptyIsEmpty ==
    ASSUME NEW d, NEW D, NEW loc \in Objs, Good(d, D), d.contents[loc] = NOTHING,
           NEW x \in Objs \ D
    PROVE  d.location[x] # loc
<1>0. d \in Db /\ NOTHING \notin Objs BY Names DEF Good
<1>1. PICK h : Threaded(d, h) /\ Placed(d, h, D) BY DEF Good, InPlace
<1>2. PICK B : \E r : Linked(Objs, Heads, NOTHING, Firsts(d), d.next, h, r, B)
  BY <1>1 DEF Threaded
<1>3. PICK r : Linked(Objs, Heads, NOTHING, Firsts(d), d.next, h, r, B) BY <1>2
<1>4. Firsts(d)[loc] = d.contents[loc] /\ loc \in Heads /\ d.next \in [Objs -> Refs]
  BY <1>0, FirstsTyped DEF Heads
<1>5. HasEnds(Objs, NOTHING, d.next, Firsts(d), h, loc)
  BY <1>3, <1>4, Names, ObjsFinite, ChainEnd
<1>6. h[x] # loc BY <1>4, <1>5 DEF HasEnds
<1> QED BY <1>0, <1>1, <1>6 DEF Placed

\* The frame of recycle() under what a movement leaves to do.
LEMMA LightThen ==
    ASSUME NEW d, NEW e, NEW D, NEW W, NEW g, NEW f \in Frames, Light(g), f.does = "recycling",
           e.type = d.type, Inside(e, D, W), W \in SUBSET Objs, D = {f.thing},
           Cardinality(W) <= f.looplimit, f.last \notin W
    PROVE  Calm(e, g \o <<f>>, D, W)
<1> DEFINE u == <<f>>
<1>1. u \in Seq(Frames) /\ Len(u) = 1 /\ u[1] = f OBVIOUS
<1> HIDE DEF u
<1>2. \A i \in 1 .. Len(u) : i = 1 BY <1>1
<1>3. DoomedIn(u) = D
  <2>1. f.thing \in Objs BY Zenon DEF Frames
  <2>2. 1 \in 1 .. Len(u) BY <1>1
  <2> DEFINE y == f.thing
  <2>3. \A o \in Objs : (\E i \in 1 .. Len(u) : u[i].does = "recycling" /\ u[i].thing = o) <=> o = y
    BY <1>1, <1>2, <2>2
  <2>4. DoomedIn(u) = {y}
    <3> HIDE DEF y
    <3> QED BY <2>1, <2>3 DEF DoomedIn, y
  <2> QED BY <2>4
<1>4. NoWalk(u) BY <1>1, <1>2 DEF NoWalk
<1>5. \A i \in 1 .. Len(u) : FrameCalm(d, D, W, u[i])
  <2>1. FrameCalm(d, D, W, f) BY DEF FrameCalm
  <2> QED BY <2>1, <1>1, <1>2
<1>6. Arranged(u) BY <1>1, <1>2 DEF Arranged
<1>7. /\ g \in Seq(Frames) /\ Arranged(g)
      /\ \A i \in 1 .. Len(g) : FrameCalm(e, D, W, g[i]) /\ g[i].does # "recycling"
  BY LightCalm
<1>8. Calm(e, g \o u, D, W) BY <1>1, <1>3, <1>4, <1>5, <1>6, <1>7, CalmOn
<1> QED BY <1>8 DEF u

LEMMA RecyclingQuiet == Inv /\ Quiet /\ Recycling => Quiet'
<1> SUFFICES ASSUME Inv, Quiet, Recycling PROVE Quiet' OBVIOUS
<1> DEFINE r == Head(task)
           first == db.contents[r.thing]
           again == [r EXCEPT !.last = first, !.looplimit = @ - 1]
           dragged == r.last \in Here(r.thing)
           walks == \/ db.type[first] = "player"
                    \/ db.type[first] = "thing"
                       /\ (tp_thing_movement \/ first \in Zombie \cup Vehicle)
           move == IF walks THEN Enters(db, first, HOME) ELSE Moves(db, first, HOME)
           next == IF walks THEN again ELSE [again EXCEPT !.last = NOTHING]
           D == DoomedIn(task)
<1>1. /\ task # << >> /\ r.does = "recycling"
      /\ dragged \/ (/\ first # NOTHING /\ r.looplimit > 0
                     /\ Continue([move EXCEPT !.then = @ \o <<next>>]))
  BY Zenon DEF Recycling, Doing
<1>2. Good(db, D) /\ r \in Frames BY Zenon, <1>1, HeadIs DEF Inv
<1>3. /\ r \in [does : {"recycling"}, thing : Objs, last : Refs, looplimit : 0 .. db_top]
  BY Zenon, <1>1, <1>2 DEF Frames
<1>4. PICK W : Calm(db, task, D, W) BY DEF Quiet
<1>5. /\ Tail(task) = << >> /\ D = {r.thing} /\ Cardinality(W) <= r.looplimit /\ r.last \notin W
  BY Zenon, <1>1, <1>4, RecyclesAlone
<1>6. W \in SUBSET Objs /\ D \in SUBSET Objs /\ Inside(db, D, W)
  BY <1>4, DoomedObjs DEF Calm
<1> HIDE DEF r, D
<1>7. ~ dragged BY <1>5, <1>6 DEF Here, Inside
<1>8. /\ first # NOTHING /\ r.looplimit > 0 /\ Continue([move EXCEPT !.then = @ \o <<next>>])
  BY Zenon, <1>1, <1>7
<1>9. first \in Objs /\ first \in W
  <2>1. first \in Objs /\ db.location[first] = r.thing
    BY <1>2, <1>3, <1>8, FirstIsHere
  <2> QED BY <2>1, <1>5, <1>6 DEF Inside
<1> DEFINE V == W \ {first}
<1>10. V \in SUBSET Objs /\ Cardinality(V) <= r.looplimit - 1
  <2>1. IsFiniteSet(W) BY <1>6, ObjsFinite, FS_Subset
  <2>2. Cardinality(V) = Cardinality(W) - 1 /\ Cardinality(W) \in Nat
    BY <1>9, <2>1, FS_RemoveElement, FS_CardinalityType
  <2>3. r.looplimit \in Int BY <1>3, ObjectsAssumption
  <2> QED BY <1>5, <1>6, <2>2, <2>3
<1>11. next \in Frames /\ next.does = "recycling" /\ next.thing = r.thing
       /\ next.looplimit = r.looplimit - 1 /\ next.last \in {first, NOTHING}
  <2>1. r.looplimit - 1 \in 0 .. db_top /\ NOTHING \in Refs /\ first \in Refs
    <3>1. r.looplimit \in 0 .. db_top /\ r.looplimit > 0 /\ db_top \in Nat
      BY <1>3, <1>8, ObjectsAssumption
    <3>2. NOTHING \in Refs /\ first \in Refs BY <1>9 DEF Refs
    <3> QED BY <3>1, <3>2
  <2> HIDE DEF first
  <2> DEFINE limit == r.looplimit - 1
  <2>2. again = [r EXCEPT !.last = first, !.looplimit = limit] OBVIOUS
  <2>3. limit \in 0 .. db_top BY <2>1
  <2> HIDE DEF limit, again
  <2>4. /\ again \in [does : {"recycling"}, thing : Objs, last : Refs, looplimit : 0 .. db_top]
        /\ again.thing = r.thing /\ again.looplimit = limit /\ again.last = first
    BY <1>3, <2>1, <2>2, <2>3
  <2>5. /\ next \in [does : {"recycling"}, thing : Objs, last : Refs, looplimit : 0 .. db_top]
        /\ next.thing = r.thing /\ next.looplimit = limit /\ next.last \in {first, NOTHING}
    BY <2>1, <2>4
  <2> HIDE DEF next
  <2> QED BY Zenon, <2>5 DEF Frames, limit
<1>12. Drifts(db, move, D, first, HOME)
  <2>1. HOME \in Refs \cup {HOME} OBVIOUS
  <2>2. walks => Homed(db, first, HOME) BY DEF Homed
  <2> HIDE DEF first
  <2>3. walks => Drifts(db, Enters(db, first, HOME), D, first, HOME)
    BY <1>2, <1>9, <2>1, <2>2, MovementDrifts
  <2>4. Drifts(db, Moves(db, first, HOME), D, first, HOME)
    BY <1>2, <1>9, <2>1, MovementDrifts
  <2> QED BY <2>3, <2>4
<1>13. next.last \notin V
  <2>1. NOTHING \notin Objs BY Names
  <2> QED BY <1>6, <1>11, <2>1
<1> HIDE DEF move, next, first
<1>14. /\ move = [db |-> move.db, then |-> move.then] /\ Gone(db, move.db, D, first, HOME)
       /\ Light(move.then)
  BY <1>12 DEF Drifts
<1>15. move.db.type = db.type BY <1>14 DEF Gone
<1>16. Inside(move.db, D, V)
  <2>1. Fits(db, D, W, first, HOME) BY DEF Fits
  <2>2. Inside(move.db, D, W) BY <1>6, <1>9, <1>14, <2>1, GoneInside
  <2>3. move.db.location[first] \notin D
    <3>1. NOTHING \notin Objs /\ HOME \notin Objs BY Names DEF Refs
    <3> QED BY <3>1, <1>6, <1>14 DEF Gone, Stays
  <2> QED BY <2>2, <2>3 DEF Inside
<1>17. Calm(move.db, move.then \o <<next>>, D, V)
  <2> HIDE DEF V
  <2>1. Cardinality(V) <= next.looplimit /\ D = {next.thing} BY <1>5, <1>10, <1>11
  <2> QED BY <1>10, <1>11, <1>13, <1>14, <1>15, <1>16, <2>1, LightThen
<1>18. db' = move.db /\ task' = move.then \o <<next>>
  <2> DEFINE c == move.then \o <<next>>
             m == [move EXCEPT !.then = @ \o <<next>>]
  <2>1. m.db = move.db /\ m.then = c /\ Continue(m)
    <3>1. m = [move EXCEPT !.then = c] BY <1>14
    <3>2. Continue(m) BY <1>8
    <3> HIDE DEF m, c
    <3> QED BY <3>1, <3>2, <1>14
  <2>2. c \in Seq(Frames)
    <3>1. <<next>> \in Seq(Frames) BY <1>11
    <3>2. move.then \in Seq(Frames) BY Zenon, <1>14 DEF Light
    <3> QED BY <3>1, <3>2
  <2> HIDE DEF m, c
  <2>3. task' = c \o << >> /\ db' = move.db BY <2>1, <1>5 DEF Continue
  <2> QED BY <2>2, <2>3, ConcatEmptySeq DEF c
<1>19. Calm(db', task', DoomedIn(task'), V) BY <1>17, <1>18 DEF Calm
<1> QED BY <1>19, QuietFrom

\* Where nothing is being recycled any more, nothing has to be in W.
LEMMA QuietEmpty ==
    ASSUME task' = << >>, NothingIn(db', {})
    PROVE  Quiet'
<1>1. DoomedIn(task') = {} BY NoneDoomed
<1>2. Inside(db', {}, Objs) BY DEF Inside
<1>3. Arranged(<< >>) /\ Len(<< >>) = 0 BY DEF Arranged
<1>4. \A i \in 1 .. Len(<< >>) : FrameCalm(db', {}, Objs, << >>[i]) BY <1>3
<1>5. Calm(db', task', DoomedIn(task'), Objs) BY <1>1, <1>2, <1>3, <1>4 DEF Calm
<1> QED BY <1>5, QuietFrom

LEMMA RecycledQuiet == Inv /\ Quiet /\ Recycled => Quiet'
<1> SUFFICES ASSUME Inv, Quiet, Recycled PROVE Quiet' OBVIOUS
<1> DEFINE thing == Head(task).thing
           D == DoomedIn(task)
           moved == Moveto(db, thing, NOTHING)
<1>1. /\ task # << >> /\ Head(task).does = "recycling"
      /\ db.contents[thing] = NOTHING \/ Head(task).looplimit = 0
  BY DEF Recycled, Doing
<1>2. Good(db, D) BY <1>1, HeadIs DEF Inv
<1>3. PICK W : Calm(db, task, D, W) BY DEF Quiet
<1>4. Tail(task) = << >> /\ D = {thing} /\ Cardinality(W) <= Head(task).looplimit
  BY <1>1, <1>3, RecyclesAlone
<1>5. /\ thing \in Objs /\ Shifted(db, moved, thing) /\ Buried(moved, db', thing)
      /\ task' = Tail(task)
  BY RecycledBuries DEF Buries
<1>6. W \in SUBSET Objs /\ Inside(db, D, W) BY <1>3 DEF Calm
<1>7. \A x \in Objs : x # thing => db.location[x] # thing
  <2> SUFFICES ASSUME NEW x \in Objs, x # thing, db.location[x] = thing PROVE FALSE
    OBVIOUS
  <2>1. x \in W BY <1>4, <1>6 DEF Inside
  <2>2. CASE Head(task).looplimit = 0
    <3>1. IsFiniteSet(W) BY <1>6, ObjsFinite, FS_Subset
    <3>2. W = {} BY <1>4, <2>2, <3>1, FS_CardinalityType, FS_EmptySet
    <3> QED BY <2>1, <3>2
  <2>3. CASE db.contents[thing] = NOTHING
    <3>1. x \in Objs \ D BY <1>4
    <3> HIDE DEF thing, D
    <3> QED BY <1>2, <1>5, <2>3, <3>1, EmptyIsEmpty
  <2> QED BY <1>1, <2>2, <2>3
<1> HIDE DEF thing, D, moved
<1>8. /\ moved \in Db /\ moved.type = db.type
      /\ \A x \in Objs : x # thing => moved.location[x] = db.location[x]
  BY <1>5 DEF Shifted
<1>9. /\ \A x \in Objs : db'.type[x] = IF x = thing THEN "garbage" ELSE db.type[x]
      /\ \A x \in Objs : db'.location[x] = IF x = thing THEN NOTHING ELSE db.location[x]
  <2>1. /\ db'.type = [moved.type EXCEPT ![thing] = "garbage"]
        /\ db'.location = [moved.location EXCEPT ![thing] = NOTHING]
    BY <1>5 DEF Buried
  <2>2. moved.type \in [Objs -> Types] /\ moved.location \in [Objs -> Refs]
    BY <1>8 DEF Db
  <2> QED BY <1>8, <2>1, <2>2
<1>10. NothingIn(db', {})
  <2>1. \A o \in Objs \ D : \A g \in Objs : db.type[g] = "garbage" => db.location[o] # g
    BY <1>6 DEF Inside, NothingIn
  <2>2. NOTHING \notin Objs BY Names
  <2> QED BY <2>1, <2>2, <1>4, <1>7, <1>9 DEF NothingIn
<1> QED BY <1>4, <1>5, <1>10, QuietEmpty

LEMMA ToadedQuiet == Inv /\ Quiet /\ Toaded => Quiet'
<1> SUFFICES ASSUME Inv, Quiet, Toaded PROVE Quiet' OBVIOUS
<1> DEFINE t == Head(task)
           what == t.what
           by == t.by
           recipient == t.recipient
           owners == [o \in Objs |-> IF o = what THEN by
                                     ELSE IF db.owner[o] = what THEN recipient ELSE db.owner[o]]
           homes == [o \in Objs |-> IF o = what THEN db.home[by]
                                    ELSE IF db.type[o] = "thing" /\ db.home[o] = what
                                           THEN tp_player_start ELSE db.home[o]]
<1>1. /\ task # << >> /\ Head(task).does = "toad"
      /\ db' = [db EXCEPT !.owner = owners, !.home = homes, !.type[what] = "thing"]
      /\ task' = << >> \o Tail(task)
  BY Zenon DEF Toaded, Doing, Continue
<1>2. Whole(db, task) /\ Head(task) \in Frames /\ FrameOK(db, Head(task))
  BY <1>1, HeadIs DEF Inv
<1>3. Tail(task) = << >> /\ DoomedIn(task) = DoomedIn(Tail(task))
  BY <1>1, <1>2, TaskPop DEF Whole
<1>4. DoomedIn(task) = {} /\ task' = << >>
  <2>1. << >> \o << >> = << >> BY ConcatEmptySeq
  <2> QED BY <1>1, <1>3, <2>1, NoneDoomed
<1>5. NothingIn(db, {}) BY <1>4 DEF Quiet, Calm, Inside
<1>6. db \in Db BY <1>2 DEF Whole, Good
<1> HIDE DEF owners, homes, what
<1>7. db'.location = db.location /\ \A o \in Objs : db'.type[o] = "garbage" => db.type[o] = "garbage"
  <2>1. db' = [type |-> [db.type EXCEPT ![what] = "thing"], location |-> db.location,
               contents |-> db.contents, next |-> db.next, home |-> homes, owner |-> owners,
               dropto |-> db.dropto, recyclable |-> db.recyclable]
    BY <1>1, <1>6 DEF Db
  <2>2. db.type \in [Objs -> Types] BY <1>6 DEF Db
  <2>3. db'.location = db.location /\ db'.type = [db.type EXCEPT ![what] = "thing"]
    BY <2>1
  <2> QED BY <2>2, <2>3
<1>8. NothingIn(db', {}) BY <1>5, <1>7 DEF NothingIn
<1> QED BY <1>4, <1>8, QuietEmpty

-----------------------------------------------------------------------------
\* Before a command everything may be moved.
LEMMA BetweenQuiet ==
    ASSUME Inv, Quiet, task = << >>
    PROVE  Good(db, {}) /\ db \in Db /\ NothingIn(db, {})
BY Between, QuietLosesNothing DEF Good

\* A command begins with what recycles nothing.
LEMMA CalmStart ==
    ASSUME NEW e, NEW g \in Seq(Frames), db' = e, task' = g, NothingIn(e, {}), Arranged(g),
           \A i \in 1 .. Len(g) : FrameCalm(e, {}, Objs, g[i]) /\ g[i].does # "recycling"
    PROVE  Quiet'
<1>1. DoomedIn(g) = {} BY DEF DoomedIn
<1>2. Inside(e, {}, Objs) BY DEF Inside
<1>3. Calm(db', task', DoomedIn(task'), Objs) BY <1>1, <1>2 DEF Calm
<1> QED BY <1>3, QuietFrom

LEMMA LightStart ==
    ASSUME NEW e, NEW g, db' = e, task' = g, NothingIn(e, {}), Light(g)
    PROVE  Quiet'
<1>1. /\ g \in Seq(Frames) /\ Arranged(g)
      /\ \A i \in 1 .. Len(g) : FrameCalm(e, {}, Objs, g[i]) /\ g[i].does # "recycling"
  BY LightCalm
<1> QED BY <1>1, CalmStart

LEMMA LightNone == Light(<< >>)
BY DEF Light

\* A movement to what is there.
Real(d, where) == where \in {NOTHING, HOME} \/ (where \in Objs /\ d.type[where] # "garbage")

LEMMA DriftStart ==
    ASSUME NEW name, NEW m, NEW what \in Objs, NEW where, Inv, Quiet, Does(name, m),
           Drifts(db, m, {}, what, where), Real(db, where)
    PROVE  Quiet'
<1>1. NothingIn(db, {}) BY BetweenQuiet DEF Does, Command
<1>2. Inside(db, {}, Objs) /\ Fits(db, {}, Objs, what, where)
  BY <1>1 DEF Inside, Fits, Real
<1>3. Gone(db, m.db, {}, what, where) /\ Light(m.then) BY DEF Drifts
<1>4. Inside(m.db, {}, Objs) BY <1>2, <1>3, GoneInside
<1>5. NothingIn(m.db, {}) BY <1>4 DEF Inside
<1>6. db' = m.db /\ task' = m.then BY DEF Does
<1> QED BY <1>3, <1>5, <1>6, LightStart

\* What is not there holds nothing.
LEMMA LocationsReal ==
    ASSUME NEW d \in Db, NothingIn(d, {}), NEW o \in Objs
    PROVE  d.location[o] \in Refs /\ Real(d, d.location[o])
<1>1. d.location[o] \in Refs BY DEF Db
<1>2. d.location[o] \in Objs => d.type[d.location[o]] # "garbage" BY DEF NothingIn
<1> QED BY <1>1, <1>2 DEF Real, Refs

LEMMA DroptosReal ==
    ASSUME NEW d, Good(d, {}), NEW o \in Objs
    PROVE  d.dropto[o] \in Refs \cup {HOME} /\ Real(d, d.dropto[o])
<1>1. d.dropto[o] \in Refs \cup {HOME} BY DEF Good, Db
<1>2. d.dropto[o] \in Objs => d.type[d.dropto[o]] \in {"room", "thing"}
  BY DEF Good, Sound, DroptoOK
<1> QED BY <1>1, <1>2 DEF Real, Refs

LEMMA OneFrame ==
    ASSUME NEW f \in Frames
    PROVE  <<f>> \in Seq(Frames) /\ Len(<<f>>) = 1 /\ <<f>>[1] = f
OBVIOUS

LEMMA SendHomeLight ==
    ASSUME NEW thing \in Objs, NEW puppet \in BOOLEAN
    PROVE  Light(<<[does |-> "send home", thing |-> thing, puppethome |-> puppet]>>)
<1> DEFINE f == [does |-> "send home", thing |-> thing, puppethome |-> puppet]
           g == <<f>>
<1>1. f \in Frames /\ f.does = "send home" BY Zenon DEF Frames
<1> HIDE DEF f
<1>2. g \in Seq(Frames) /\ Len(g) = 1 /\ g[1] = f BY Zenon, <1>1, OneFrame
<1> HIDE DEF g
<1>3. \A i \in 1 .. Len(g) : i = 1 BY <1>2
<1>4. \A i \in 1 .. Len(g) : g[i].does \in {"depart", "arrive", "send home"}
  BY Zenon, <1>1, <1>2, <1>3
<1>5. Light(g) BY Zenon, <1>2, <1>4 DEF Light
<1> QED BY Zenon, <1>5 DEF f, g

LEMMA LightJoin ==
    ASSUME NEW f, NEW g, Light(f), Light(g)
    PROVE  Light(f \o g)
<1> DEFINE v == f \o g
<1>0. f \in Seq(Frames) /\ g \in Seq(Frames) BY Zenon DEF Light
<1>1. /\ v \in Seq(Frames)
      /\ \A i \in 1 .. Len(v) : \/ i \in 1 .. Len(f) /\ v[i] = f[i]
                                \/ i - Len(f) \in 1 .. Len(g) /\ v[i] = g[i - Len(f)]
  BY <1>0, JoinIs
<1> HIDE DEF v
<1>2. \A i \in 1 .. Len(v) : v[i].does \in {"depart", "arrive", "send home"}
  <2> SUFFICES ASSUME NEW i \in 1 .. Len(v) PROVE v[i].does \in {"depart", "arrive", "send home"}
    BY Zenon
  <2>1. CASE i \in 1 .. Len(f) /\ v[i] = f[i] BY Zenon, <2>1 DEF Light
  <2>2. CASE i - Len(f) \in 1 .. Len(g) /\ v[i] = g[i - Len(f)]
    BY Zenon, <2>2 DEF Light
  <2> QED BY Zenon, <1>1, <2>1, <2>2
<1>3. Light(v) BY Zenon, <1>1, <1>2 DEF Light
<1> QED BY <1>3 DEF v

LEMMA DriftThen ==
    ASSUME NEW d, NEW D, NEW m, NEW what, NEW where, NEW g, Drifts(d, m, D, what, where), Light(g)
    PROVE  Drifts(d, [m EXCEPT !.then = @ \o g], D, what, where)
<1> DEFINE e == [m EXCEPT !.then = @ \o g]
           c == m.then \o g
<1>1. Light(c) BY LightJoin DEF Drifts
<1>2. m = [db |-> m.db, then |-> m.then] BY DEF Drifts
<1>3. e = [m EXCEPT !.then = c] OBVIOUS
<1> HIDE DEF e, c
<1>4. e = [db |-> m.db, then |-> c] BY <1>2, <1>3
<1>5. e.db = m.db /\ e.then = c /\ e = [db |-> e.db, then |-> e.then] BY <1>4
<1>6. Drifts(d, e, D, what, where) BY <1>1, <1>5 DEF Drifts
<1> QED BY <1>6 DEF e

LEMMA TriggerQuiet ==
    ASSUME NEW player \in Objs, NEW dest \in Objs, Inv, Quiet, Trigger(player, dest)
    PROVE  Quiet'
<1>1. \/ db.type[dest] \in {"room", "thing"} /\ Does("go", Enters(db, player, dest))
      \/ Does("go", Enters(db, player, db.location[dest]))
  BY DEF Trigger, Is
<1>2. Good(db, {}) /\ db \in Db /\ NothingIn(db, {})
  BY <1>1, BetweenQuiet DEF Does, Command
<1>3. \E to : to \in Refs /\ Real(db, to) /\ Does("go", Enters(db, player, to))
  <2>1. db.type[dest] \in {"room", "thing"} => Real(db, dest) BY DEF Real
  <2>2. db.location[dest] \in Refs /\ Real(db, db.location[dest])
    BY <1>2, LocationsReal
  <2> QED BY <1>1, <2>1, <2>2 DEF Refs
<1>4. PICK to : to \in Refs /\ Real(db, to) /\ Does("go", Enters(db, player, to))
  BY <1>3
<1>5. Homed(db, player, to) BY <1>4, Names DEF Homed
<1>6. Drifts(db, Enters(db, player, to), {}, player, to)
  BY <1>2, <1>4, <1>5, MovementDrifts
<1> QED BY <1>4, <1>6, DriftStart

LEMMA SummonQuiet ==
    ASSUME NEW dest \in Objs, NEW at \in Objs, NEW sobjact \in BOOLEAN, Inv, Quiet,
           Summon(dest, at, sobjact)
    PROVE  Quiet'
<1> DEFINE to == IF Is({"thing"}, at) THEN db.location[at] ELSE at
           move == ThingMoves(db, dest, to)
           home == IF Is({"thing"}, at) /\ sobjact
                     THEN <<[does |-> "send home", thing |-> at, puppethome |-> FALSE]>> ELSE << >>
           m == [move EXCEPT !.then = @ \o home]
<1>1. /\ task = << >> /\ db.type[at] \in {"room", "thing", "player"} /\ Does("summon", m)
  BY Zenon DEF Summon, Does, Command, Is
<1>2. Good(db, {}) /\ db \in Db /\ NothingIn(db, {}) BY Zenon, <1>1, BetweenQuiet
<1>3. to \in Refs \cup {HOME} /\ Real(db, to)
  <2>1. db.location[at] \in Refs /\ Real(db, db.location[at]) BY <1>2, LocationsReal
  <2>2. Real(db, at) BY Zenon, <1>1 DEF Real
  <2> QED BY <2>1, <2>2 DEF Refs
<1>4. Light(home) BY Zenon, SendHomeLight, LightNone
<1> HIDE DEF to, home
<1>5. Drifts(db, move, {}, dest, to) BY <1>2, <1>3, MovementDrifts
<1> HIDE DEF move
<1>6. Drifts(db, m, {}, dest, to) BY <1>4, <1>5, DriftThen
<1> HIDE DEF m
<1> QED BY <1>1, <1>3, <1>6, DriftStart

LEMMA LeaveQuiet ==
    ASSUME NEW player \in Objs, Inv, Quiet, Leave(player)
    PROVE  Quiet'
<1> DEFINE dest == db.location[db.location[player]]
<1>1. task = << >> /\ Is({"room", "thing"}, dest) /\ Does("go", Enters(db, player, dest))
  BY DEF Leave, Does, Command
<1>2. Good(db, {}) BY <1>1, BetweenQuiet
<1>3. dest \in Refs /\ Real(db, dest) BY <1>1 DEF Is, Real, Refs
<1> HIDE DEF dest
<1>4. Homed(db, player, dest) BY <1>3, Names DEF Homed
<1>5. Drifts(db, Enters(db, player, dest), {}, player, dest)
  BY <1>2, <1>3, <1>4, MovementDrifts
<1> QED BY <1>1, <1>3, <1>5, DriftStart

LEMMA GetQuiet ==
    ASSUME NEW player \in Objs, NEW thing \in Objs, Inv, Quiet, Get(player, thing)
    PROVE  Quiet'
<1>1. task = << >> /\ db.type[player] = "player" /\ Does("get", ThingMoves(db, thing, player))
  BY DEF Get, Does, Command, Is
<1>2. Good(db, {}) /\ player \in Refs /\ Real(db, player)
  BY <1>1, BetweenQuiet DEF Real, Refs
<1>3. Drifts(db, ThingMoves(db, thing, player), {}, thing, player)
  BY <1>2, MovementDrifts
<1> QED BY <1>1, <1>2, <1>3, DriftStart

LEMMA DropQuiet ==
    ASSUME NEW player \in Objs, NEW thing \in Objs, NEW cont \in Objs, Inv, Quiet,
           Drop(player, thing, cont)
    PROVE  Quiet'
<1> DEFINE dropto == db.dropto[cont]
           to == IF Is({"room"}, cont) /\ dropto # NOTHING /\ cont \notin Sticky
                   THEN dropto ELSE cont
           home == <<[does |-> "send home", thing |-> thing, puppethome |-> FALSE]>>
<1>1. /\ task = << >> /\ db.type[cont] # "garbage"
      /\ Does("drop", Then(home)) \/ Does("drop", ThingMoves(db, thing, to))
  BY Zenon DEF Drop, Does, Command, Is
<1>2. Good(db, {}) /\ NothingIn(db, {}) BY Zenon, <1>1, BetweenQuiet
<1>3. to \in Refs \cup {HOME} /\ Real(db, to)
  <2>1. dropto \in Refs \cup {HOME} /\ Real(db, dropto) BY <1>2, DroptosReal
  <2>2. Real(db, cont) BY Zenon, <1>1 DEF Real
  <2> QED BY <2>1, <2>2 DEF Refs
<1>4. Light(home) BY Zenon, SendHomeLight
<1> HIDE DEF to, home
<1>5. Drifts(db, ThingMoves(db, thing, to), {}, thing, to)
  BY <1>2, <1>3, MovementDrifts
<1>6. CASE Does("drop", Then(home))
  <2>1. db' = db /\ task' = home BY <1>6 DEF Does, Then
  <2> QED BY <1>2, <1>4, <2>1, LightStart
<1>7. CASE Does("drop", ThingMoves(db, thing, to)) BY <1>3, <1>5, <1>7, DriftStart
<1> QED BY <1>1, <1>6, <1>7

LEMMA HomeQuiet ==
    ASSUME NEW player \in Objs, Inv, Quiet, Home(player)
    PROVE  Quiet'
<1> DEFINE home == <<[does |-> "send home", thing |-> player, puppethome |-> TRUE]>>
<1>1. task = << >> /\ db' = db /\ task' = home
  BY Zenon DEF Home, Does, Command, Then
<1>2. NothingIn(db, {}) /\ Light(home) BY Zenon, <1>1, BetweenQuiet, SendHomeLight
<1> HIDE DEF home
<1> QED BY <1>1, <1>2, LightStart

LEMMA TeleportQuiet ==
    ASSUME NEW victim \in Objs, NEW dest \in Objs, Inv, Quiet, Teleport(victim, dest)
    PROVE  Quiet'
<1> DEFINE dropto == db.dropto[dest]
           to == IF Is({"room"}, dest) /\ dropto # NOTHING /\ dest \notin Sticky
                   THEN dropto ELSE dest
<1>1. /\ \/ Does("tel", Enters(db, victim, dest))
         \/ Does("tel", ThingMoves(db, victim, to))
         \/ Does("tel", Moves(db, victim, dest))
      /\ db.type[dest] # "garbage"
  BY DEF Teleport, Is
<1>2. Good(db, {}) /\ NothingIn(db, {}) BY <1>1, BetweenQuiet DEF Does, Command
<1>3. to \in Refs \cup {HOME} /\ dest \in Refs /\ Real(db, to) /\ Real(db, dest)
  <2>1. dropto \in Refs \cup {HOME} /\ Real(db, dropto) BY <1>2, DroptosReal
  <2>2. Real(db, dest) BY <1>1 DEF Real
  <2> QED BY <2>1, <2>2 DEF Refs
<1> HIDE DEF to
<1>4. Homed(db, victim, dest) BY <1>3, Names DEF Homed
<1>5. /\ Drifts(db, Enters(db, victim, dest), {}, victim, dest)
      /\ Drifts(db, ThingMoves(db, victim, to), {}, victim, to)
      /\ Drifts(db, Moves(db, victim, dest), {}, victim, dest)
  BY <1>2, <1>3, <1>4, MovementDrifts
<1>6. CASE Does("tel", Enters(db, victim, dest)) BY <1>3, <1>5, <1>6, DriftStart
<1>7. CASE Does("tel", ThingMoves(db, victim, to)) BY <1>3, <1>5, <1>7, DriftStart
<1>8. CASE Does("tel", Moves(db, victim, dest)) BY <1>3, <1>5, <1>8, DriftStart
<1> QED BY <1>1, <1>6, <1>7, <1>8

\* A command that moves nothing.
LEMMA StillStart ==
    ASSUME NEW name, NEW m, Inv, Quiet, Does(name, m), m.then = << >>,
           m.db.type = db.type, m.db.location = db.location
    PROVE  Quiet'
<1>1. NothingIn(db, {}) BY BetweenQuiet DEF Does, Command
<1>2. NothingIn(m.db, {}) BY <1>1 DEF NothingIn
<1>3. db' = m.db /\ task' = << >> BY DEF Does
<1> QED BY <1>2, <1>3, QuietEmpty

LEMMA LinkQuiet ==
    ASSUME NEW thing \in Objs, NEW dest \in Objs, Inv, Quiet, Link(thing, dest)
    PROVE  Quiet'
<1> DEFINE m == [db |-> [db EXCEPT !.home[thing] = dest], then |-> << >>]
<1>1. Does("link", m) BY DEF Link
<1>2. db \in Db BY <1>1, BetweenQuiet DEF Does, Command
<1>3. m.then = << >> /\ m.db.type = db.type /\ m.db.location = db.location
  BY <1>2 DEF Db
<1> HIDE DEF m
<1> QED BY <1>1, <1>3, StillStart

LEMMA LinkRoomQuiet ==
    ASSUME NEW room \in Objs, NEW dest \in Objs \cup {HOME}, Inv, Quiet, LinkRoom(room, dest)
    PROVE  Quiet'
<1> DEFINE m == [db |-> [db EXCEPT !.dropto[room] = dest], then |-> << >>]
<1>1. Does("dropto", m) BY DEF LinkRoom
<1>2. db \in Db BY <1>1, BetweenQuiet DEF Does, Command
<1>3. m.then = << >> /\ m.db.type = db.type /\ m.db.location = db.location
  BY <1>2 DEF Db
<1> HIDE DEF m
<1> QED BY <1>1, <1>3, StillStart

LEMMA UnlinkQuiet ==
    ASSUME NEW thing \in Objs, Inv, Quiet, Unlink(thing)
    PROVE  Quiet'
<1> DEFINE owner == [db |-> [db EXCEPT !.home[thing] = db.owner[thing]], then |-> << >>]
           start == [db |-> [db EXCEPT !.home[thing] = tp_player_start], then |-> << >>]
           none == [db |-> [db EXCEPT !.dropto[thing] = NOTHING], then |-> << >>]
<1>1. Does("unlink", owner) \/ Does("unlink", start) \/ Does("unlink", none)
  BY DEF Unlink
<1>2. db \in Db BY <1>1, BetweenQuiet DEF Does, Command
<1>3. /\ owner.then = << >> /\ owner.db.type = db.type /\ owner.db.location = db.location
      /\ start.then = << >> /\ start.db.type = db.type /\ start.db.location = db.location
      /\ none.then = << >> /\ none.db.type = db.type /\ none.db.location = db.location
  BY <1>2 DEF Db
<1> HIDE DEF owner, start, none
<1>4. Does("unlink", owner) => Quiet' BY <1>3, StillStart
<1>5. Does("unlink", start) => Quiet' BY <1>3, StillStart
<1>6. Does("unlink", none) => Quiet' BY <1>3, StillStart
<1> QED BY <1>1, <1>4, <1>5, <1>6

\* What is made is put where something is.
LEMMA MadeHolds ==
    ASSUME NEW d, NEW e, NEW type, NEW location, NEW home, NEW owner, d \in Db, NothingIn(d, {}),
           MayMake(d, type, location, home, owner), Made(d, e, type, location, home, owner)
    PROVE  /\ NothingIn(e, {})
           /\ \A o \in Objs : e.type[o] = IF o = d.recyclable THEN type ELSE d.type[o]
<1>1. /\ \A o \in Objs : e.type[o] = IF o = d.recyclable THEN type ELSE d.type[o]
      /\ \A o \in Objs : e.location[o] = IF o = d.recyclable THEN location ELSE d.location[o]
  <2>1. /\ d.type \in [Objs -> Types] /\ d.location \in [Objs -> Refs] BY DEF Db
  <2> QED BY <2>1 DEF Made
<1>2. type # "garbage" /\ d.type[location] # "garbage" BY DEF MayMake
<1>3. NothingIn(e, {}) BY <1>1, <1>2 DEF NothingIn
<1> QED BY <1>1, <1>3

LEMMA CreateQuiet ==
    ASSUME NEW player \in Objs, NEW type \in {"thing", "program"}, NEW home \in Refs,
           Inv, Quiet, Create(player, type, home)
    PROVE  Quiet'
<1>1. /\ Good(db, {}) /\ NothingIn(db, {}) /\ MayMake(db, type, player, home, player)
      /\ Made(db, db', type, player, home, player) /\ task' = << >>
  BY CreateMakes, QuietLosesNothing
<1>2. NothingIn(db', {}) BY <1>1, MadeHolds DEF Good
<1> QED BY <1>1, <1>2, QuietEmpty

LEMMA DigQuiet ==
    ASSUME NEW player \in Objs, NEW parent \in Objs, Inv, Quiet, Dig(player, parent)
    PROVE  Quiet'
<1> DEFINE f == [does |-> "moveto", what |-> db.recyclable, where |-> parent]
           c == <<f>>
<1>1. /\ Good(db, {}) /\ NothingIn(db, {}) /\ MayMake(db, "room", Top, NOTHING, player)
      /\ Made(db, db', "room", Top, NOTHING, player)
      /\ task' = c
  BY DigMakes, QuietLosesNothing
<1>2. /\ NothingIn(db', {})
      /\ \A o \in Objs : db'.type[o] = IF o = db.recyclable THEN "room" ELSE db.type[o]
  BY <1>1, MadeHolds DEF Good
<1>3. db.type[parent] # "garbage" /\ db.recyclable \in Objs
  BY <1>1 DEF Dig, Is, MayMake
<1>4. Stays(db', {}, parent) BY <1>2, <1>3 DEF Stays
<1>5. f \in Frames /\ f.does = "moveto" /\ f.where = parent
  BY Zenon, <1>3 DEF Frames
<1> HIDE DEF f
<1>6. FrameCalm(db', {}, Objs, f) BY <1>4, <1>5 DEF FrameCalm
<1>7. /\ c \in Seq(Frames) /\ Arranged(c)
      /\ \A i \in 1 .. Len(c) : FrameCalm(db', {}, Objs, c[i]) /\ c[i].does # "recycling"
  BY <1>5, <1>6, CalmOne
<1> HIDE DEF c
<1> QED BY <1>1, <1>2, <1>7, CalmStart

LEMMA DoRecycleQuiet ==
    ASSUME NEW thing \in Objs, Inv, Quiet, DoRecycle(thing)
    PROVE  Quiet'
<1> DEFINE f == [does |-> "recycling", thing |-> thing, last |-> NOTHING, looplimit |-> db_top]
           e == Unlinked(db, thing)
           c == <<f>>
<1>1. Goes(db, thing) /\ task = << >> /\ db' = e /\ task' = c
  BY DEF DoRecycle, MayRecycle, Is, Goes, Does, Command, Recycle
<1>2. Good(db, {}) /\ NothingIn(db, {}) BY <1>1, BetweenQuiet
<1>3. Partly(db, e, {}, thing, db_top) BY <1>1, <1>2, UnlinkedMakes DEF Good
<1> HIDE DEF e
<1>4. e.type = db.type /\ e.location = db.location BY <1>3 DEF Partly
<1>5. f \in Frames /\ f.does = "recycling" /\ f.thing = thing /\ f.last = NOTHING
      /\ f.looplimit = db_top
  <2>1. NOTHING \in Refs /\ db_top \in 0 .. db_top BY ObjectsAssumption DEF Refs
  <2> QED BY Zenon, <2>1 DEF Frames
<1> HIDE DEF f
<1>6. Cardinality(Objs) <= f.looplimit /\ f.last \notin Objs
  BY <1>5, ObjsFinite, ObjectsAssumption, Names
<1>7. Inside(e, {thing}, Objs)
  <2>1. NothingIn(e, {thing}) BY <1>2, <1>4 DEF NothingIn
  <2> QED BY <2>1 DEF Inside
<1>8. Calm(e, << >> \o <<f>>, {thing}, Objs)
  BY <1>5, <1>6, <1>7, LightNone, LightThen
<1>9. << >> \o c = c
  <2>1. c \in Seq(Frames) BY <1>5, OneFrame
  <2> HIDE DEF c
  <2> QED BY <2>1, ConcatEmptySeq
<1>10. Calm(db', task', DoomedIn(task'), Objs) BY <1>1, <1>8, <1>9 DEF Calm
<1> QED BY <1>10, QuietFrom

LEMMA ToadQuiet ==
    ASSUME NEW player \in Objs, NEW victim \in Objs, NEW recipient \in Objs, Inv, Quiet,
           Toad(player, victim, recipient)
    PROVE  Quiet'
<1> DEFINE send == [does |-> "send", loc |-> victim, dest |-> HOME]
           toad == [does |-> "toad", what |-> victim, by |-> player, recipient |-> recipient]
           u == <<send, toad>>
<1>1. db.type[victim] = "player" /\ task = << >> /\ db' = db /\ task' = u
  BY DEF Toad, Does, Command, Is
<1>2. NothingIn(db, {}) BY <1>1, BetweenQuiet
<1>3. /\ send \in Frames /\ send.does = "send" /\ send.loc = victim /\ send.dest = HOME
      /\ toad \in Frames /\ toad.does = "toad"
  BY Zenon DEF Frames
<1> HIDE DEF send, toad
<1>4. FrameCalm(db, {}, Objs, send) /\ FrameCalm(db, {}, Objs, toad)
  BY <1>1, <1>3 DEF FrameCalm, Safe
<1>5. u \in Seq(Frames) /\ Len(u) = 2 /\ u[1] = send /\ u[2] = toad BY <1>3
<1>6. \A i \in 1 .. Len(u) : i = 1 \/ i = 2 BY <1>5
<1> HIDE DEF u
<1>7. \A i \in 1 .. Len(u) : FrameCalm(db, {}, Objs, u[i]) /\ u[i].does # "recycling"
                             /\ u[i].does # "sending"
  BY <1>3, <1>4, <1>5, <1>6
<1>8. Arranged(u) BY <1>7 DEF Arranged
<1> QED BY <1>1, <1>2, <1>5, <1>7, <1>8, CalmStart

LEMMA NextQuiet == ASSUME Alone, Inv, Quiet, [Next]_vars PROVE Quiet'
<1>1. CASE PlayerActs
  <2>1. ASSUME NEW a \in Objs, NEW b \in Objs, Trigger(a, b) PROVE Quiet'
    BY <2>1, TriggerQuiet
  <2>2. ASSUME NEW a \in Objs, NEW b \in Objs, Get(a, b) PROVE Quiet'
    BY <2>2, GetQuiet
  <2>3. ASSUME NEW a \in Objs, NEW b \in Objs, Teleport(a, b) PROVE Quiet'
    BY <2>3, TeleportQuiet
  <2>4. ASSUME NEW a \in Objs, NEW b \in Objs, Dig(a, b) PROVE Quiet'
    BY <2>4, DigQuiet
  <2>5. ASSUME NEW a \in Objs, NEW b \in Objs, Link(a, b) PROVE Quiet'
    BY <2>5, LinkQuiet
  <2>6. ASSUME NEW a \in Objs, NEW b \in Objs, NEW c \in Objs, Drop(a, b, c) PROVE Quiet'
    BY <2>6, DropQuiet
  <2>7. ASSUME NEW a \in Objs, NEW b \in Objs, NEW c \in Objs, Toad(a, b, c) PROVE Quiet'
    BY <2>7, ToadQuiet
  <2>8. ASSUME NEW a \in Objs, NEW b \in Objs, NEW sobjact \in BOOLEAN, Summon(a, b, sobjact)
        PROVE  Quiet'
    BY <2>8, SummonQuiet
  <2>9. ASSUME NEW a \in Objs, Leave(a) PROVE Quiet' BY <2>9, LeaveQuiet
  <2>10. ASSUME NEW a \in Objs, Home(a) PROVE Quiet' BY <2>10, HomeQuiet
  <2>11. ASSUME NEW a \in Objs, DoRecycle(a) PROVE Quiet' BY <2>11, DoRecycleQuiet
  <2>12. ASSUME NEW a \in Objs, Unlink(a) PROVE Quiet' BY <2>12, UnlinkQuiet
  <2>13. ASSUME NEW a \in Objs, NEW b \in Objs \cup {HOME}, LinkRoom(a, b) PROVE Quiet'
    BY <2>13, LinkRoomQuiet
  <2>14. ASSUME NEW a \in Objs, NEW type \in {"thing", "program"}, NEW home \in Refs,
                Create(a, type, home)
         PROVE  Quiet'
    BY <2>14, CreateQuiet
  <2> QED
    BY <1>1, <2>1, <2>2, <2>3, <2>4, <2>5, <2>6, <2>7, <2>8, <2>9, <2>10, <2>11, <2>12,
       <2>13, <2>14 DEF PlayerActs
<1>2. CASE Step
  BY <1>2, SendQuiet, SendingQuiet, SentQuiet, EnterQuiet, MoveOnQuiet, SendHomeQuiet,
     DepartQuiet, ArriveQuiet, RecyclingQuiet, RecycledQuiet, ToadedQuiet DEF Step
<1>3. CASE ProgramActs BY <1>3 DEF ProgramActs, ProgramMoves, ProgramRecycles, Alone
<1>4. CASE UNCHANGED vars
  <2>1. db' = db /\ task' = task BY <1>4 DEF vars
  <2>2. PICK W : Calm(db, task, DoomedIn(task), W) BY DEF Quiet
  <2>3. Calm(db', task', DoomedIn(task'), W) BY <2>1, <2>2
  <2> QED BY <2>3, QuietFrom
<1> QED BY <1>1, <1>2, <1>3, <1>4 DEF Next

LEMMA InitQuiet == Init => Quiet
<1> SUFFICES ASSUME Init PROVE Quiet OBVIOUS
<1>1. db = First /\ task = << >> BY DEF Init, First
<1>2. db.type = Type0 /\ db.location = Location0 BY <1>1, FirstIs
<1>3. NothingIn(db, {})
  <2> SUFFICES ASSUME NEW o \in Objs, NEW g \in Objs, Type0[g] = "garbage" PROVE Location0[o] # g
    BY <1>2 DEF NothingIn
  <2>1. NOTHING \notin Objs BY Names
  <2>2. \/ Location0[o] = NOTHING \/ Type0[Location0[o]] \in Containers
    BY FirstAssumption
  <2> QED BY <2>1, <2>2 DEF Containers
<1>4. DoomedIn(task) = {} BY <1>1, NoneDoomed
<1>5. Inside(db, {}, Objs) BY <1>3 DEF Inside
<1>6. Arranged(<< >>) /\ \A i \in 1 .. Len(<< >>) : FALSE BY DEF Arranged
<1>7. Calm(db, task, DoomedIn(task), Objs) BY <1>1, <1>4, <1>5, <1>6 DEF Calm
<1> QED BY <1>7 DEF Quiet

LEMMA AloneInv == ASSUME Alone PROVE Spec => [](Inv /\ Quiet)
<1>1. Init => Inv /\ Quiet BY InitKeeps, InitQuiet
<1>2. Inv /\ Quiet /\ [Next]_vars => (Inv /\ Quiet)'
  <2> SUFFICES ASSUME Inv, Quiet, [Next]_vars PROVE Inv' /\ Quiet' OBVIOUS
  <2>1. Quiet' BY NextQuiet
  <2>2. NothingLost /\ NothingLost'
    <3>1. Quiet' => NothingLost' BY QuietLosesNothing, PTL
    <3> QED BY <2>1, <3>1, QuietLosesNothing
  <2>4. Inv' BY <2>2, NextKeeps
  <2> QED BY <2>1, <2>4
<1> QED BY <1>1, <1>2, PTL DEF Spec

(* Where programs do nothing amid a command, recycle() frees an object only *)
(* when nothing is in it any more: neither its looplimit nor a home that is *)
(* in the object ends its loop early, and no walk of send_contents() puts   *)
(* anything into what has become garbage.                                   *)
THEOREM RecyclingEmpties == ASSUME Alone PROVE Spec => []NothingLost
BY AloneInv, QuietLosesNothing, PTL

(* Then the contents lists and the free list agree with the locations and   *)
(* with the garbage after every step of every command, with no premise.     *)
THEOREM ListsAgreeAlone == ASSUME Alone PROVE Spec => []ListsAgree
BY AloneInv, InvLists, PTL

(* Nor does any reference ever lead to garbage or to an object of the wrong *)
(* type: recycle() finds all homes, droptos and owners in one pass.         *)
THEOREM NoDanglingAlone == ASSUME Alone PROVE Spec => []NoDanglingReference
BY AloneInv, InvReferences, PTL

-----------------------------------------------------------------------------
(* Nothing gets lost. What is there is somewhere, but for room 0, and for  *)
(* what the walk of send_contents() has in hand: K, all that comes after   *)
(* the next object of the walk. Room 0 is never moved.                     *)
Away(d) == {o \in Objs \ {Top} : d.type[o] # "garbage" /\ d.location[o] = NOTHING}

\* K is what comes after first.
Follows(d, K, first) ==
    \A S \in SUBSET K :
        (first \in K => first \in S) /\ (\A y \in S : d.next[y] \in K => d.next[y] \in S) => S = K
Held(d, K, r, first) == Walked(d, K, r, first) /\ Follows(d, K, first) /\ Away(d) \subseteq K
InHand(d, first) == \E K \in SUBSET (Objs \ {Top}) : \E r \in [Objs -> Int] : Held(d, K, r, first)

\* What a frame moves is not room 0, and goes into a container.
FrameMild(d, f) ==
    /\ f.does = "moveto" => f.what # Top /\ d.type[f.where] \in Near
    /\ f.does = "send home" => f.thing # Top
    /\ f.does \in {"send", "sending"} /\ f.dest # HOME => d.type[f.dest] \in Near
FrameSettled(d, f) == FrameMild(d, f) /\ (f.does = "sending" => InHand(d, f.first))
\* Nothing is in a program (sanity.c:468).
Contained(d) == \A o \in Objs : d.location[o] # NOTHING => d.type[d.location[o]] \in Near
SettledIn(d, t) ==
    /\ d.location[Top] = NOTHING /\ Contained(d)
    /\ NoWalk(t) => Away(d) = {}
    /\ \A i \in 1 .. Len(t) : FrameSettled(d, t[i])
Settled == SettledIn(db, task)

\* Frames that walk past nothing and recycle nothing.
MildFrame(d, f) == f.does # "sending" /\ f.does # "recycling" /\ FrameMild(d, f)
Mild(d, g) == g \in Seq(Frames) /\ \A i \in 1 .. Len(g) : MildFrame(d, g[i])

LEMMA SettledFrom ==
    ASSUME NEW e, NEW t, db' = e, task' = t, SettledIn(e, t)
    PROVE  Settled'
<1>1. SettledIn(db', task') OBVIOUS
<1> QED BY Zenon, <1>1 DEF Settled, SettledIn, FrameSettled, FrameMild, InHand, Held, Walked, Follows, Away, NoWalk, Contained

\* Where everything is somewhere, mild frames may come on others.
LEMMA MildOn ==
    ASSUME NEW d, NEW e, NEW g, NEW u \in Seq(Frames), Mild(e, g), NoWalk(u),
           e.type = d.type,
           \A i \in 1 .. Len(u) : FrameSettled(d, u[i]),
           Away(e) = {}, e.location[Top] = NOTHING, Contained(e)
    PROVE  SettledIn(e, g \o u)
<1> DEFINE v == g \o u
<1>0. g \in Seq(Frames) BY DEF Mild
<1>1. \A i \in 1 .. Len(v) : \/ i \in 1 .. Len(g) /\ v[i] = g[i]
                             \/ i - Len(g) \in 1 .. Len(u) /\ v[i] = u[i - Len(g)]
  BY <1>0, JoinIs
<1> HIDE DEF v
<1>2. \A i \in 1 .. Len(g) : FrameSettled(e, g[i])
  BY DEF Mild, MildFrame, FrameSettled
<1>3. \A i \in 1 .. Len(u) : FrameSettled(e, u[i])
  BY Zenon DEF NoWalk, FrameSettled, FrameMild
<1>4. \A i \in 1 .. Len(v) : FrameSettled(e, v[i]) BY <1>1, <1>2, <1>3
<1>5. SettledIn(e, v) BY <1>4 DEF SettledIn
<1> QED BY <1>5 DEF v

LEMMA MildStart ==
    ASSUME NEW e, NEW g, Mild(e, g), Away(e) = {}, e.location[Top] = NOTHING, Contained(e)
    PROVE  SettledIn(e, g)
<1>1. \A i \in 1 .. Len(g) : FrameSettled(e, g[i])
  BY DEF Mild, MildFrame, FrameSettled
<1> QED BY <1>1 DEF SettledIn

\* Below a frame that does something no walk is left off.
LEMMA SettledPop ==
    ASSUME Inv, Quiet, Settled, task # << >>, Head(task).does # "arrive"
    PROVE  /\ Tail(task) \in Seq(Frames) /\ NoWalk(Tail(task))
           /\ \A i \in 1 .. Len(Tail(task)) : FrameSettled(db, Tail(task)[i])
           /\ FrameSettled(db, Head(task))
           /\ Head(task).does # "sending" => Away(db) = {}
           /\ db.location[Top] = NOTHING /\ Contained(db)
           /\ Head(task).does # "recycling" => DoomedIn(Tail(task)) = DoomedIn(task)
<1>1. task \in Seq(Frames) BY DEF Inv, Whole
<1>2. PICK W : Calm(db, task, DoomedIn(task), W) BY DEF Quiet
<1>3. /\ Tail(task) \in Seq(Frames) /\ NoWalk(Tail(task))
      /\ Head(task).does # "recycling" => DoomedIn(Tail(task)) = DoomedIn(task)
  BY <1>1, <1>2, CalmPop
<1>4. /\ 1 \in 1 .. Len(task) /\ Head(task) = task[1]
      /\ \A i \in 1 .. Len(Tail(task)) : i + 1 \in 1 .. Len(task) /\ Tail(task)[i] = task[i + 1]
      /\ Len(Tail(task)) = Len(task) - 1 /\ Len(task) \in Nat
  BY <1>1, PopIs
<1>5. \A i \in 1 .. Len(task) : FrameSettled(db, task[i]) BY DEF Settled, SettledIn
<1>6. Head(task).does # "sending" => NoWalk(task)
  <2> SUFFICES ASSUME Head(task).does # "sending", NEW i \in 1 .. Len(task)
               PROVE  task[i].does # "sending"
    BY DEF NoWalk
  <2>1. CASE i = 1 BY <2>1, <1>4
  <2>2. CASE i # 1
    <3>1. i - 1 \in 1 .. Len(Tail(task)) BY <2>2, <1>4
    <3>2. Tail(task)[i - 1] = task[(i - 1) + 1] /\ (i - 1) + 1 = i BY <3>1, <1>4
    <3> QED BY <3>1, <3>2, <1>3 DEF NoWalk
  <2> QED BY <2>1, <2>2
<1> QED BY <1>3, <1>4, <1>5, <1>6 DEF Settled, SettledIn

-----------------------------------------------------------------------------
(* Steps, as they are of Places. *)
\* A room is in rooms only.
Roomy(d) == \A o \in Objs : d.type[o] = "room" => \/ d.location[o] = NOTHING
                                                   \/ d.type[d.location[o]] = "room"
RoomsInRooms == Roomy(db)
PlacesGoOn == RoomsInRooms => [P!Next]_(P!vars)

\* A step that is none of Places.
LEMMA PlacesRest ==
    ASSUME \A o \in Objs : db'.location[o] = db.location[o],
           Garbage' = Garbage, Doomed' = Doomed
    PROVE  PlacesGoOn
<1>1. [o \in Objs |-> IF o \in Doomed' THEN NOTHING ELSE db'.location[o]]
      = [o \in Objs |-> IF o \in Doomed THEN NOTHING ELSE db.location[o]]
  OBVIOUS
<1>2. UNCHANGED P!vars BY <1>1 DEF P!vars
<1> QED BY <1>2 DEF PlacesGoOn

\* to is not in what, nor in anything that is.
Outside(d, what, to) == Roomy(d) => to \notin Below(d.location, what)
\* Only what moves, which is not room 0, and to somewhere it is not above.
Carried(d, e, what) ==
    /\ what \in Objs \ {Top} /\ e.type = d.type
    /\ \A o \in Objs : o # what => e.location[o] = d.location[o]
    /\ d.type[what] # "garbage" => e.location[what] # NOTHING
    /\ \/ e.location[what] = d.location[what]
       \/ /\ d.type[what] # "garbage" /\ d.type[e.location[what]] \in Near
          /\ Outside(d, what, e.location[what])

LEMMA CarriedAway ==
    ASSUME NEW d, NEW e, NEW what, Carried(d, e, what)
    PROVE  Away(e) \subseteq Away(d) \ {what} /\ e.location[Top] = d.location[Top]
<1>1. Top \in Objs BY ObjectsAssumption DEF Objs, Top
<1> QED BY <1>1 DEF Carried, Away

LEMMA CarriedNone ==
    ASSUME NEW d, NEW e, NEW what, Carried(d, e, what), Away(d) = {}, d.location[Top] = NOTHING
    PROVE  Away(e) = {} /\ e.location[Top] = NOTHING
<1>1. Top \in Objs BY ObjectsAssumption DEF Objs, Top
<1> QED BY <1>1 DEF Carried, Away

LEMMA CarriedContained ==
    ASSUME NEW d, NEW e, NEW what, Carried(d, e, what), Contained(d)
    PROVE  Contained(e)
<1> SUFFICES ASSUME NEW o \in Objs, e.location[o] # NOTHING PROVE e.type[e.location[o]] \in Near
  BY DEF Contained
<1>1. e.type = d.type BY DEF Carried
<1>2. CASE e.location[o] = d.location[o] BY <1>1, <1>2 DEF Contained
<1>3. CASE e.location[o] # d.location[o]
  <2>1. o = what /\ d.type[e.location[what]] \in Near BY <1>3 DEF Carried
  <2> QED BY <1>1, <2>1
<1> QED BY <1>2, <1>3

\* Less is below where less is inside.
LEMMA BelowFewer ==
    ASSUME NEW f, NEW g, NEW o \in Objs, \A x \in Objs : g[x] = NOTHING \/ g[x] = f[x]
    PROVE  Below(g, o) \subseteq Below(f, o)
<1> SUFFICES ASSUME NEW x \in Below(g, o), NEW U \in SUBSET Objs, o \in U, Closed(f, U)
             PROVE  x \in U
  BY DEF Below
<1>1. NOTHING \notin U BY Names
<1>2. Closed(g, U) BY <1>1 DEF Closed
<1> QED BY <1>2 DEF Below

\* A step that carries an object is a put, if the object is not being recycled.
LEMMA CarriedPlaces ==
    ASSUME NEW what, Inv, Inv', NothingLost', Carried(db, db', what), Doomed' = Doomed
    PROVE  PlacesGoOn
<1>0. what \in Objs \ {Top} /\ what # Top /\ Garbage' = Garbage
  BY DEF Carried, Garbage
<1>1. CASE \/ what \in Doomed \/ db.type[what] = "garbage"
           \/ db'.location[what] = db.location[what]
  <2>1. [o \in Objs |-> IF o \in Doomed' THEN NOTHING ELSE db'.location[o]]
        = [o \in Objs |-> IF o \in Doomed THEN NOTHING ELSE db.location[o]]
    <3>1. ASSUME NEW o \in Objs
          PROVE  (IF o \in Doomed' THEN NOTHING ELSE db'.location[o])
                 = (IF o \in Doomed THEN NOTHING ELSE db.location[o])
      BY <1>1 DEF Carried
    <3> QED BY <3>1
  <2>2. UNCHANGED P!vars BY <2>1, <1>0 DEF P!vars
  <2> QED BY <2>2 DEF PlacesGoOn
<1>2. CASE /\ what \notin Doomed /\ db.type[what] # "garbage"
           /\ db'.location[what] # db.location[what]
  <2> SUFFICES ASSUME RoomsInRooms PROVE P!Next BY DEF PlacesGoOn
  <2>1. db'.location[what] # NOTHING BY <1>2 DEF Carried
  <2>2. db.location \in [Objs -> Refs] /\ db'.location \in [Objs -> Refs]
    BY DEF Inv, Whole, Good, Db
  <2>3. PICK w \in Objs : w = db'.location[what] BY <1>0, <2>1, <2>2 DEF Refs
  <2>4. w \in Objs \ Garbage
    <3>1. what \in Objs \ Doomed' BY <1>0, <1>2
    <3>2. w \notin Garbage' BY <3>1, <2>3 DEF NothingLost
    <3> QED BY <3>2, <2>3, <1>0
  <2>5. At' = [At EXCEPT ![what] = w]
    <3>1. At' = [o \in Objs |-> IF o \in Doomed' THEN NOTHING ELSE db'.location[o]]
      BY DEF At
    <3>2. At = [o \in Objs |-> IF o \in Doomed THEN NOTHING ELSE db.location[o]]
      BY DEF At
    <3>3. ASSUME NEW o \in Objs
          PROVE  At'[o] = [At EXCEPT ![what] = w][o]
      BY <1>0, <1>2, <2>3, <3>1, <3>2 DEF Carried
    <3> QED BY <3>1, <3>2, <3>3
  <2>6. At \in [Objs -> Refs] BY <2>2 DEF At, Refs
  <2>7. w \notin Below(At, what)
    <3>1. w \notin Below(db.location, what)
      BY <1>2, <2>3 DEF Carried, Outside, RoomsInRooms
    <3>2. \A x \in Objs : At[x] = NOTHING \/ At[x] = db.location[x] BY DEF At
    <3> QED BY <3>1, <3>2, <1>0, Names, BelowFewer
  <2>8. w \notin P!Under(what) BY <2>7 DEF P!Under, P!ClosedBelow, Below, Closed, At
  <2>9. P!Put(what, w)
    <3>1. [o \in Objs |-> IF o \in Doomed' THEN NOTHING ELSE db'.location[o]]
          = [[o \in Objs |-> IF o \in Doomed THEN NOTHING ELSE db.location[o]] EXCEPT ![what] = w]
      BY <2>5 DEF At
    <3>2. what \in Objs \ Garbage BY <1>0, <1>2 DEF Garbage
    <3> QED BY <1>0, <2>4, <2>8, <3>1, <3>2 DEF P!Put
  <2>10. \E o, v \in Objs : P!Put(o, v) BY <1>0, <2>3, <2>9
  <2> QED BY <2>10 DEF P!Next
<1> QED BY <1>1, <1>2

\* Some of what is in loc is nowhere.
Lifted(d, e, loc, M) ==
    /\ M \in SUBSET Objs /\ e.type = d.type
    /\ \A o \in M : d.location[o] = loc /\ e.location[o] = NOTHING
    /\ \A o \in Objs \ M : e.location[o] = d.location[o]

LEMMA LiftedPlaces ==
    ASSUME NEW loc \in Objs, NEW M, Lifted(db, db', loc, M), Doomed' = Doomed
    PROVE  PlacesGoOn
<1>s. PICK S \in SUBSET Objs : S = M \ Doomed BY DEF Lifted
<1>0. Garbage' = Garbage BY DEF Lifted, Garbage
<1>1. ASSUME NEW o \in Objs
      PROVE  (IF o \in Doomed' THEN NOTHING ELSE db'.location[o])
             = IF o \in S THEN NOTHING ELSE (IF o \in Doomed THEN NOTHING ELSE db.location[o])
  BY <1>s DEF Lifted
<1>2. CASE S = {}
  <2>1. [o \in Objs |-> IF o \in Doomed' THEN NOTHING ELSE db'.location[o]]
        = [o \in Objs |-> IF o \in Doomed THEN NOTHING ELSE db.location[o]]
    BY <1>1, <1>2
  <2>2. UNCHANGED P!vars BY <2>1, <1>0 DEF P!vars
  <2> QED BY <2>2 DEF PlacesGoOn
<1>3. CASE S # {}
  <2>1. \A o \in S : (IF o \in Doomed THEN NOTHING ELSE db.location[o]) = loc
    BY <1>s DEF Lifted
  <2>2. P!Lift(loc, S) BY <1>0, <1>1, <2>1 DEF P!Lift
  <2>3. S \in (SUBSET {o \in Objs : [x \in Objs |-> IF x \in Doomed THEN NOTHING ELSE db.location[x]][o] = loc}) \ {{}}
    BY <1>0, <1>3, <2>1
  <2>4. \E c \in Objs :
            \E R \in (SUBSET {o \in Objs : [x \in Objs |-> IF x \in Doomed THEN NOTHING ELSE db.location[x]][o] = c}) \ {{}} :
               P!Lift(c, R)
    BY <2>2, <2>3
  <2>5. P!Next BY <2>4 DEF P!Next
  <2> QED BY <2>5 DEF PlacesGoOn
<1> QED BY <1>2, <1>3

\* An object that was garbage is there, in what is there.
LEMMA MadePlaces ==
    ASSUME NEW new \in Objs, NEW w \in Objs, db.type[new] = "garbage", db.type[w] # "garbage",
           Garbage' = Garbage \ {new}, Doomed = {}, Doomed' = {}, db'.location[new] = w,
           \A o \in Objs : o # new => db'.location[o] = db.location[o]
    PROVE  PlacesGoOn
<1>1. new \notin Objs \ Garbage /\ w \in Objs \ Garbage
      /\ Objs \ Garbage' = (Objs \ Garbage) \cup {new}
  BY DEF Garbage
<1>2. [o \in Objs |-> IF o \in Doomed' THEN NOTHING ELSE db'.location[o]]
      = [[o \in Objs |-> IF o \in Doomed THEN NOTHING ELSE db.location[o]] EXCEPT ![new] = w]
  <2>1. ASSUME NEW o \in Objs
        PROVE  (IF o \in Doomed' THEN NOTHING ELSE db'.location[o])
               = IF o = new THEN w ELSE (IF o \in Doomed THEN NOTHING ELSE db.location[o])
    OBVIOUS
  <2> QED BY <2>1
<1>3. P!Make(new, w) BY <1>1, <1>2 DEF P!Make
<1>4. P!Next BY <1>3 DEF P!Next
<1> QED BY <1>4 DEF PlacesGoOn

\* Its recycling begins: it is taken out of where it is.
LEMMA BegunPlaces ==
    ASSUME NEW thing \in Objs, Inv, NothingLost, thing \notin Garbage,
           Garbage' = Garbage, Doomed = {}, Doomed' = {thing},
           \A o \in Objs : db'.location[o] = db.location[o]
    PROVE  PlacesGoOn
<1> DEFINE loc == db.location[thing]
<1>1. ASSUME NEW o \in Objs
      PROVE  (IF o \in Doomed' THEN NOTHING ELSE db'.location[o])
             = IF o \in {thing} THEN NOTHING ELSE (IF o \in Doomed THEN NOTHING ELSE db.location[o])
  OBVIOUS
<1>2. CASE loc = NOTHING
  <2>1. [o \in Objs |-> IF o \in Doomed' THEN NOTHING ELSE db'.location[o]]
        = [o \in Objs |-> IF o \in Doomed THEN NOTHING ELSE db.location[o]]
    BY <1>1, <1>2
  <2>2. UNCHANGED P!vars BY <2>1 DEF P!vars
  <2> QED BY <2>2 DEF PlacesGoOn
<1>3. CASE loc # NOTHING
  <2>1. loc \in Objs BY <1>3 DEF Inv, Whole, Good, Db, Refs
  <2>2. \A o \in {thing} : (IF o \in Doomed THEN NOTHING ELSE db.location[o]) = loc
    OBVIOUS
  <2> HIDE DEF loc
  <2>3. P!Lift(loc, {thing}) BY <1>1, <2>2 DEF P!Lift
  <2>4. {thing} \in (SUBSET {o \in Objs : [x \in Objs |-> IF x \in Doomed THEN NOTHING ELSE db.location[x]][o] = loc}) \ {{}}
    BY <2>2
  <2>5. P!Next BY <2>1, <2>3, <2>4 DEF P!Next
  <2> QED BY <2>5 DEF PlacesGoOn
<1> QED BY <1>2, <1>3

\* What is left of it is garbage; nothing is in it.
LEMMA FreedPlaces ==
    ASSUME NEW thing \in Objs \ {Top}, thing \notin Garbage, NothingLost',
           Garbage' = Garbage \cup {thing}, Doomed = {thing}, Doomed' = {},
           db'.location[thing] = NOTHING,
           \A o \in Objs : o # thing => db'.location[o] = db.location[o]
    PROVE  PlacesGoOn
<1> DEFINE at == [o \in Objs |-> IF o \in Doomed THEN NOTHING ELSE db.location[o]]
<1>1. Objs \ Garbage' = (Objs \ Garbage) \ {thing} /\ thing \in (Objs \ Garbage) \ {Top}
  OBVIOUS
<1>2. [o \in Objs |-> IF o \in Doomed' THEN NOTHING ELSE db'.location[o]]
      = [at EXCEPT ![thing] = NOTHING]
  <2>1. ASSUME NEW o \in Objs
        PROVE  (IF o \in Doomed' THEN NOTHING ELSE db'.location[o])
               = IF o = thing THEN NOTHING ELSE (IF o \in Doomed THEN NOTHING ELSE db.location[o])
    OBVIOUS
  <2> QED BY <2>1
<1>3. \A x \in Objs : at[x] # thing
  <2>1. NOTHING \notin Objs BY Names
  <2>2. \A x \in Objs : x # thing => db'.location[x] # thing BY DEF NothingLost
  <2> QED BY <2>1, <2>2
<1>4. P!Free(thing) BY <1>1, <1>2, <1>3 DEF P!Free
<1>5. P!Next BY <1>4 DEF P!Next
<1> QED BY <1>5 DEF PlacesGoOn

-----------------------------------------------------------------------------
(* What the loop checks are for: an object is never put into what is in it. *)
\* An object has its number in path among those that one meets on the way up.
OnTheWay(parent, dest, N, g) ==
    /\ g \in [0 .. N -> Refs] /\ g[0] = dest
    /\ \A i \in 1 .. N : g[i] = IF g[i - 1] \in {NOTHING, Top} THEN g[i - 1]
                                     ELSE parent[g[i - 1]]
LEMMA WayUp ==
    ASSUME NEW parent \in [Objs -> Refs], NEW dest \in Refs, NEW N \in Nat
    PROVE  \E g : OnTheWay(parent, dest, N, g)
<1> DEFINE F == [i \in 1 .. N |->
                    [x \in Refs |-> IF x \in {NOTHING, Top} THEN x ELSE parent[x]]]
<1>0. N \in 0 .. N OBVIOUS
<1>1. F \in [1 .. N -> [Refs -> Refs]] BY DEF Refs
<1>2. PICK g \in [0 .. N -> Refs] : Repeats(F, g, dest, N)
  <2> HIDE DEF F
  <2> QED BY <1>0, <1>1, RepeatsExists
<1>3. ASSUME NEW i \in 1 .. N
      PROVE  g[i] = IF g[i - 1] \in {NOTHING, Top} THEN g[i - 1] ELSE parent[g[i - 1]]
  <2>1. g[i - 1] \in Refs BY <1>2, <1>0
  <2>2. g[i] = F[i][g[i - 1]] BY <1>2 DEF Repeats
  <2> QED BY <2>1, <2>2
<1> QED BY <1>2, <1>3 DEF Repeats, OnTheWay

\* The path of Loops() is that way.
LEMMA LoopsPath ==
    ASSUME NEW parent \in [Objs -> Refs], NEW source, NEW dest \in Refs
    PROVE  \E g : /\ OnTheWay(parent, dest, MAX_PARENT_DEPTH, g)
                  /\ Loops(parent, source, dest)
                     <=> \/ \E i \in 0 .. MAX_PARENT_DEPTH : g[i] = source
                         \/ g[MAX_PARENT_DEPTH] \notin {NOTHING, Top}
<1>0. MAX_PARENT_DEPTH \in Nat BY TuneAssumption
<1> DEFINE Rec(a) == [n \in 0 .. MAX_PARENT_DEPTH |->
                        IF n = 0 THEN dest
                        ELSE LET last == a[n - 1]
                             IN IF last \in {NOTHING, Top} THEN last ELSE parent[last]]
           up == CHOOSE a : a = Rec(a)
<1>1. PICK g : OnTheWay(parent, dest, MAX_PARENT_DEPTH, g) BY <1>0, WayUp
<1>2. /\ g \in [0 .. MAX_PARENT_DEPTH -> Refs] /\ g[0] = dest
      /\ \A i \in 1 .. MAX_PARENT_DEPTH : g[i] = IF g[i - 1] \in {NOTHING, Top} THEN g[i - 1]
                                                  ELSE parent[g[i - 1]]
  BY <1>1 DEF OnTheWay
<1>3. g = Rec(g)
  <2>1. ASSUME NEW n \in 0 .. MAX_PARENT_DEPTH PROVE g[n] = Rec(g)[n]
    <3>1. n = 0 \/ n \in 1 .. MAX_PARENT_DEPTH BY <1>0
    <3> QED BY <1>2, <3>1
  <2> QED BY <1>2, <2>1
<1>4. up = Rec(up) BY <1>3, Zenon
<1>5. Loops(parent, source, dest) <=> \/ \E n \in 0 .. MAX_PARENT_DEPTH : up[n] = source
                                      \/ up[MAX_PARENT_DEPTH] \notin {NOTHING, Top}
  BY DEF Loops
<1> HIDE DEF up
<1>6. /\ up[0] = dest
      /\ \A n \in 1 .. MAX_PARENT_DEPTH : up[n] = IF up[n - 1] \in {NOTHING, Top} THEN up[n - 1]
                                                   ELSE parent[up[n - 1]]
  <2>1. up[0] = dest BY <1>4, <1>0
  <2>2. ASSUME NEW n \in 1 .. MAX_PARENT_DEPTH
        PROVE  up[n] = IF up[n - 1] \in {NOTHING, Top} THEN up[n - 1] ELSE parent[up[n - 1]]
    <3>1. n \in 0 .. MAX_PARENT_DEPTH /\ n # 0 BY <1>0
    <3> QED BY <1>4, <3>1
  <2> QED BY <2>1, <2>2
<1>7. \A n \in 0 .. MAX_PARENT_DEPTH : up[n] = g[n]
  <2> DEFINE Bad == {n \in 0 .. MAX_PARENT_DEPTH : up[n] # g[n]}
  <2>1. SUFFICES ASSUME Bad # {} PROVE FALSE OBVIOUS
  <2>2. PICK m \in Bad : \A k \in Bad : m <= k
    <3>1. Bad \in SUBSET Nat BY <1>0
    <3> QED BY <2>1, <3>1, LeastNat, Zenon
  <2>3. m \in 1 .. MAX_PARENT_DEPTH /\ m - 1 \in 0 .. MAX_PARENT_DEPTH /\ m - 1 \notin Bad
    BY <2>2, <1>0, <1>2, <1>6
  <2>4. up[m - 1] = g[m - 1] /\ up[m] # g[m] BY <2>2, <2>3
  <2> QED BY <1>2, <1>6, <2>3, <2>4
<1>8. MAX_PARENT_DEPTH \in 0 .. MAX_PARENT_DEPTH BY <1>0
<1> QED BY <1>1, <1>5, <1>7, <1>8

\* What is closed below and without w shows that w is not below.
LEMMA NotBelow ==
    ASSUME NEW f, NEW o, NEW w, NEW U \in SUBSET Objs, o \in U, Closed(f, U), w \notin U
    PROVE  w \notin Below(f, o)
BY DEF Below

\* Where the check finds no loop there is none: what one meets on the way up is
\* closed above, and the rest closed below.
LEMMA CheckedOutside ==
    ASSUME NEW d, d.location \in [Objs -> Refs], d.location[Top] = NOTHING,
           NEW what \in Objs, NEW to \in Objs, ~LocationLoopCheck(d, what, to)
    PROVE  to \notin Below(d.location, what)
<1>0. MAX_PARENT_DEPTH \in Nat /\ MAX_PARENT_DEPTH \in 0 .. MAX_PARENT_DEPTH BY TuneAssumption
<1>1. PICK g : /\ OnTheWay(d.location, to, MAX_PARENT_DEPTH, g)
               /\ Loops(d.location, what, to)
                  <=> \/ \E i \in 0 .. MAX_PARENT_DEPTH : g[i] = what
                      \/ g[MAX_PARENT_DEPTH] \notin {NOTHING, Top}
  BY LoopsPath DEF Refs
<1>2. (\A i \in 0 .. MAX_PARENT_DEPTH : g[i] # what) /\ g[MAX_PARENT_DEPTH] \in {NOTHING, Top}
  BY <1>1 DEF LocationLoopCheck
<1>3. /\ g \in [0 .. MAX_PARENT_DEPTH -> Refs] /\ g[0] = to
      /\ \A i \in 1 .. MAX_PARENT_DEPTH : g[i] = IF g[i - 1] \in {NOTHING, Top} THEN g[i - 1]
                                       ELSE d.location[g[i - 1]]
  BY <1>1 DEF OnTheWay
<1> DEFINE U == {x \in Objs : \A i \in 0 .. MAX_PARENT_DEPTH : g[i] # x}
<1>4. U \in SUBSET Objs /\ what \in U /\ to \notin U BY <1>0, <1>2, <1>3
<1>5. Closed(d.location, U)
  <2> SUFFICES ASSUME NEW x \in Objs, d.location[x] \in U, NEW i \in 0 .. MAX_PARENT_DEPTH, g[i] = x
               PROVE  FALSE
    BY DEF Closed
  <2>1. x \notin {NOTHING, Top} /\ d.location[x] \in Objs BY Names
  <2>2. i # MAX_PARENT_DEPTH BY <2>1, <1>2
  <2>3. i + 1 \in 1 .. MAX_PARENT_DEPTH /\ (i + 1) - 1 = i /\ i + 1 \in 0 .. MAX_PARENT_DEPTH
    BY <2>2, <1>0
  <2>4. g[i + 1] = d.location[x] BY <2>1, <2>3, <1>3
  <2> QED BY <2>3, <2>4
<1> HIDE DEF U
<1> QED BY <1>4, <1>5, NotBelow

\* An object may be there: it is a container, and not in the object.
Fit(d, what, to) == to \in Objs /\ d.type[to] \in Near /\ Outside(d, what, to)
Rooted(d) == d \in Db /\ d.location[Top] = NOTHING /\ Contained(d)

LEMMA CheckedFits ==
    ASSUME NEW d, Rooted(d), NEW what \in Objs, NEW to \in Objs, d.type[to] \in Near,
           ~ParentLoopCheck(d, what, to)
    PROVE  Fit(d, what, to)
<1>1. to # HOME BY Names DEF Refs
<1>2. ~LocationLoopCheck(d, what, to) BY <1>1 DEF ParentLoopCheck
<1>3. d.location \in [Objs -> Refs] /\ d.location[Top] = NOTHING BY DEF Rooted, Db
<1>4. to \notin Below(d.location, what) BY <1>2, <1>3, CheckedOutside
<1> QED BY <1>4 DEF Fit, Outside

\* A room holds nothing that holds it: what is no room may go into one unchecked.
LEMMA RoomFits ==
    ASSUME NEW d, Rooted(d), NEW what \in Objs, d.type[what] # "room",
           NEW to \in Objs, d.type[to] = "room"
    PROVE  Fit(d, what, to)
<1> DEFINE U == {x \in Objs : d.type[x] # "room"}
<1>1. ASSUME Roomy(d) PROVE Closed(d.location, U)
  <2> SUFFICES ASSUME NEW x \in Objs, d.location[x] \in U PROVE x \in U
    BY DEF Closed
  <2>1. d.location[x] # NOTHING /\ d.type[d.location[x]] # "room" BY Names
  <2> QED BY <1>1, <2>1 DEF Roomy
<1>2. U \in SUBSET Objs /\ what \in U /\ to \notin U OBVIOUS
<1> HIDE DEF U
<1>3. Outside(d, what, to) BY <1>1, <1>2, NotBelow DEF Outside
<1> QED BY <1>3 DEF Fit, Near, Containers

\* Nothing holds room 0.
LEMMA TopFits ==
    ASSUME NEW d, Rooted(d), NEW what \in Objs \ {Top}, d.type[Top] = "room"
    PROVE  Fit(d, what, Top)
<1>0. Top \in Objs BY ObjectsAssumption DEF Objs, Top
<1> DEFINE U == Objs \ {Top}
<1>1. Closed(d.location, U) BY Names DEF Closed, Rooted
<1>2. U \in SUBSET Objs /\ what \in U /\ Top \notin U OBVIOUS
<1> HIDE DEF U
<1>3. Outside(d, what, Top) BY <1>1, <1>2, NotBelow DEF Outside
<1> QED BY <1>0, <1>3 DEF Fit, Near, Containers

\* A program holds nothing.
LEMMA ProgramFits ==
    ASSUME NEW d, Rooted(d), NEW what \in Objs, d.type[what] = "program",
           NEW to \in Objs, d.type[to] = "player"
    PROVE  Fit(d, what, to)
<1>1. "program" \notin Near /\ "player" \in Near BY DEF Near, Containers
<1>2. Closed(d.location, {what})
  <2> SUFFICES ASSUME NEW x \in Objs, d.location[x] = what PROVE FALSE BY DEF Closed
  <2>1. d.location[x] # NOTHING BY Names
  <2> QED BY <2>1, <1>1 DEF Rooted, Contained
<1>3. Outside(d, what, to) BY <1>2, NotBelow DEF Outside
<1> QED BY <1>1, <1>3 DEF Fit

LEMMA FallbackFits ==
    ASSUME NEW d, Rooted(d), NEW D, NEW what \in Objs \ {Top}, Sound(d, D), d.type[what] # "garbage"
    PROVE  Fit(d, what, Fallback(d, what))
<1> USE DEF Sound
<1>1. d.type[what] \in Types /\ d.owner[what] \in Objs /\ d.type[d.owner[what]] = "player"
  BY DEF Rooted, Db, OwnerOK
<1>2. /\ d.type[what] = "thing" => d.home[what] \in Objs /\ d.type[d.home[what]] \in Containers
      /\ d.type[what] = "player" => d.home[what] \in Objs /\ d.type[d.home[what]] = "room"
      /\ d.home[d.owner[what]] \in Objs /\ d.type[d.home[d.owner[what]]] = "room"
  BY <1>1 DEF HomeOK
<1>3. /\ d.type[Top] = "room"
      /\ tp_player_start \in Objs /\ d.type[tp_player_start] = "room"
  BY ObjectsAssumption DEF Objs, Fixed
<1>4. Containers \subseteq Near /\ "room" \in Near BY DEF Near, Containers
<1>5. CASE d.type[what] = "thing"
  <2>1. CASE ~ParentLoopCheck(d, what, d.home[what])
    <3>1. Fallback(d, what) = d.home[what] BY <1>5, <2>1 DEF Fallback, HomeOf
    <3>2. d.type[d.home[what]] \in Near BY <1>2, <1>4, <1>5
    <3> QED BY <1>2, <1>5, <2>1, <3>1, <3>2, CheckedFits
  <2>2. CASE ParentLoopCheck(d, what, d.home[what])
    <3>1. Fallback(d, what) \in {d.home[d.owner[what]], tp_player_start}
      BY <1>5, <2>2 DEF Fallback
    <3>2. d.type[what] # "room" BY <1>5
    <3> QED BY <1>2, <1>3, <3>1, <3>2, RoomFits
  <2> QED BY <2>1, <2>2
<1>6. CASE d.type[what] # "thing"
  <2>1. Fallback(d, what) = HomeOf(d, what) BY <1>6 DEF Fallback
  <2>2. CASE d.type[what] = "player"
    <3>1. HomeOf(d, what) = d.home[what] /\ d.type[what] # "room" BY <2>2 DEF HomeOf
    <3> QED BY <1>2, <2>1, <2>2, <3>1, RoomFits
  <2>3. CASE d.type[what] = "room"
    <3>1. HomeOf(d, what) = Top BY <2>3 DEF HomeOf
    <3> QED BY <1>3, <2>1, <3>1, TopFits
  <2>4. CASE d.type[what] = "program"
    <3>1. HomeOf(d, what) = d.owner[what] BY <2>4 DEF HomeOf
    <3> QED BY <1>1, <2>1, <2>4, <3>1, ProgramFits
  <2> QED BY <1>1, <1>6, <2>2, <2>3, <2>4 DEF Types
<1> QED BY <1>5, <1>6

\* Where it goes that is moved to somewhere.
LEMMA MovetoFits ==
    ASSUME NEW d, NEW D, NEW what \in Objs \ {Top}, NEW where \in Objs \cup {HOME},
           Good(d, D), Rooted(d), d.type[what] # "garbage",
           where \in Objs => d.type[where] \in Near
    PROVE  /\ Fit(d, what, Moveto(d, what, where).location[what])
           /\ Shifted(d, Moveto(d, what, where), what)
<1> DEFINE out == TakenOut(d, what)
           to == IF where = HOME \/ ParentLoopCheck(out, what, where)
                   THEN Fallback(out, what) ELSE where
           e == Moveto(d, what, where)
<1>0. d \in Db /\ Sound(d, D) /\ InPlace(d, D) /\ where # NOTHING /\ where \in Refs \cup {HOME}
  BY Names DEF Good, HOME, NOTHING, Refs
<1>1. PICK h : Threaded(d, h) /\ Placed(d, h, D) BY <1>0 DEF InPlace
<1>2. OnlyLists(d, out) BY <1>0, <1>1, TakeOut, Zenon DEF Relinked
<1>3. Moveto(d, what, where) = [Push(out, what, to) EXCEPT !.location[what] = to]
  BY <1>0 DEF Moveto, TakenOut
<1>4. Shifted(d, e, what)
  <2>1. PICK t \in Refs : MovedTo(d, e, what, t, D) BY <1>0, MovetoMoves
  <2> QED BY <2>1 DEF MovedTo
<1> HIDE DEF out
<1>5. /\ out \in Db /\ out.type = d.type /\ out.location = d.location /\ out.home = d.home
      /\ Sound(out, D)
  BY <1>0, <1>2, OnlyListsSound DEF OnlyLists
<1>6. Rooted(out) BY <1>5 DEF Rooted, Contained
<1>7. \A x : Fit(out, what, x) => Fit(d, what, x) BY <1>5 DEF Fit, Outside, Roomy
<1>8. Fit(d, what, to)
  <2>1. CASE where = HOME \/ ParentLoopCheck(out, what, where)
    <3>1. to = Fallback(out, what) BY <2>1
    <3>2. out.type[what] # "garbage" BY <1>5
    <3>3. Fit(out, what, Fallback(out, what)) BY <3>2, <1>5, <1>6, FallbackFits
    <3> QED BY <3>1, <3>3, <1>7
  <2>2. CASE ~(where = HOME \/ ParentLoopCheck(out, what, where))
    <3>1. to = where /\ where \in Objs /\ out.type[where] \in Near BY <2>2, <1>5
    <3>2. Fit(out, what, where) BY <2>2, <3>1, <1>6, CheckedFits
    <3> QED BY <3>1, <3>2, <1>7
  <2> QED BY <2>1, <2>2
<1>9. to \in Objs BY <1>8 DEF Fit
<1> HIDE DEF to, e
<1> DEFINE p == Push(out, what, to)
<1>10. p \in Db BY <1>5, <1>9, PushFields DEF Pushed, OnlyLists
<1> HIDE DEF p
<1>11. e.location[what] = to
  <2>1. e = [p EXCEPT !.location[what] = to] BY <1>3 DEF p, e
  <2>2. p.location \in [Objs -> Refs] /\ e.location = [p.location EXCEPT ![what] = to]
    BY <1>10, <2>1 DEF Db
  <2> QED BY <2>2
<1> QED BY <1>4, <1>8, <1>11 DEF e

LEMMA MildNone == ASSUME NEW d PROVE Mild(d, << >>)
<1> DEFINE g == << >>
<1>1. g \in Seq(Frames) /\ Len(g) = 0 OBVIOUS
<1> HIDE DEF g
<1>2. \A i \in 1 .. Len(g) : MildFrame(d, g[i]) BY <1>1
<1>3. Mild(d, g) BY <1>1, <1>2 DEF Mild
<1> QED BY <1>3 DEF g
LEMMA MildOne ==
    ASSUME NEW d, NEW f \in Frames, MildFrame(d, f)
    PROVE  Mild(d, <<f>>)
<1> DEFINE g == <<f>>
<1>1. g \in Seq(Frames) /\ Len(g) = 1 /\ g[1] = f BY OneFrame
<1> HIDE DEF g
<1>2. \A i \in 1 .. Len(g) : i = 1 BY <1>1
<1>3. \A i \in 1 .. Len(g) : MildFrame(d, g[i]) BY <1>1, <1>2
<1>4. Mild(d, g) BY <1>1, <1>3 DEF Mild
<1> QED BY <1>4 DEF g
LEMMA MildJoin ==
    ASSUME NEW d, NEW f, NEW g, Mild(d, f), Mild(d, g)
    PROVE  Mild(d, f \o g)
<1>1. f \in Seq(Frames) /\ g \in Seq(Frames) BY DEF Mild
<1>2. (\A i \in 1 .. Len(f) : MildFrame(d, f[i])) /\ \A i \in 1 .. Len(g) : MildFrame(d, g[i])
  BY DEF Mild
<1> DEFINE v == f \o g
<1>3. /\ v \in Seq(Frames)
      /\ \A i \in 1 .. Len(v) : \/ i \in 1 .. Len(f) /\ v[i] = f[i]
                                \/ i - Len(f) \in 1 .. Len(g) /\ v[i] = g[i - Len(f)]
  BY <1>1, JoinIs
<1> HIDE DEF v
<1>4. \A i \in 1 .. Len(v) : MildFrame(d, v[i]) BY <1>2, <1>3
<1>5. Mild(d, v) BY <1>3, <1>4 DEF Mild
<1> QED BY <1>5 DEF v
LEMMA MildTwo ==
    ASSUME NEW d, NEW f \in Frames, NEW g \in Frames, MildFrame(d, f), MildFrame(d, g)
    PROVE  Mild(d, <<f, g>>)
<1> DEFINE v == <<f, g>>
<1>1. v \in Seq(Frames) /\ Len(v) = 2 /\ v[1] = f /\ v[2] = g OBVIOUS
<1> HIDE DEF v
<1>2. \A i \in 1 .. Len(v) : i = 1 \/ i = 2 BY <1>1
<1>3. \A i \in 1 .. Len(v) : MildFrame(d, v[i]) BY <1>1, <1>2
<1>4. Mild(d, v) BY <1>1, <1>3 DEF Mild
<1> QED BY <1>4 DEF v

LEMMA AfterwardsMild ==
    ASSUME NEW d \in Db, NEW what \in Objs, NEW where
    PROVE  Mild(d, Afterwards(d, what, where))
<1> DEFINE old == d.location[what]
           arrive == [does |-> "arrive"]
           depart == [does |-> "depart", old |-> old]
<1>1. arrive \in Frames /\ MildFrame(d, arrive) BY DEF Frames, MildFrame, FrameMild
<1>2. old # NOTHING => depart \in Frames
  <2>1. old \in Refs BY DEF Db
  <2> QED BY <2>1 DEF Frames, Refs
<1>3. MildFrame(d, depart) BY DEF MildFrame, FrameMild
<1>4. \/ Afterwards(d, what, where) = <<arrive>>
      \/ old # NOTHING /\ Afterwards(d, what, where) = <<depart, arrive>>
  BY DEF Afterwards
<1> HIDE DEF arrive, depart
<1>5. Mild(d, <<arrive>>) BY <1>1, MildOne
<1>6. old # NOTHING => Mild(d, <<depart, arrive>>) BY <1>1, <1>2, <1>3, MildTwo
<1> QED BY <1>4, <1>5, <1>6

\* A movement carries an object, and leaves to do what disturbs nothing.
Bears(d, m, what) ==
    /\ m = [db |-> m.db, then |-> m.then] /\ Carried(d, m.db, what) /\ Mild(d, m.then)

LEMMA MovetoCarries ==
    ASSUME NEW d, NEW D, NEW what \in Objs \ {Top}, NEW where \in Objs \cup {HOME},
           Good(d, D), Rooted(d), where \in Objs => d.type[where] \in Near
    PROVE  Carried(d, Moveto(d, what, where), what)
<1>1. CASE d.type[what] = "garbage"
  <2>1. Moveto(d, what, where) = d BY <1>1 DEF Moveto
  <2> QED BY <1>1, <2>1 DEF Carried
<1>2. CASE d.type[what] # "garbage"
  <2> DEFINE e == Moveto(d, what, where)
  <2>1. Fit(d, what, e.location[what]) /\ Shifted(d, e, what) BY <1>2, MovetoFits
  <2> HIDE DEF e
  <2>2. Carried(d, e, what) BY <1>2, <2>1, Names DEF Fit, Shifted, Carried
  <2> QED BY <2>2 DEF e
<1> QED BY <1>1, <1>2

LEMMA EnterRoomCarries ==
    ASSUME NEW d, NEW D, NEW what \in Objs \ {Top}, NEW where \in Objs \cup {HOME},
           Good(d, D), Rooted(d), where \in Objs => d.type[where] \in Near, Homed(d, what, where)
    PROVE  Carried(d, EnterRoom(d, what, where), what)
<1> DEFINE to == Entered(d, what, where)
           e == EnterRoom(d, what, where)
<1>1. CASE d.type[what] = "garbage"
  <2>1. \A w : Moveto(d, what, w) = d BY <1>1 DEF Moveto
  <2>2. e = d BY <2>1 DEF EnterRoom
  <2>3. Carried(d, d, what) BY <1>1 DEF Carried
  <2> QED BY <2>2, <2>3
<1>2. CASE d.type[what] # "garbage"
  <2>0. Sound(d, D) /\ Containers \subseteq Near /\ "room" \in Near
    BY DEF Good, Near, Containers
  <2> DEFINE loc == IF where = HOME THEN d.home[what] ELSE where
  <2>1. loc \in Objs /\ d.type[loc] \in Near
    <3>1. where = HOME => d.home[what] \in Objs /\ d.type[d.home[what]] \in Near
      BY <2>0 DEF Homed, Sound, HomeOK
    <3>2. where # HOME => where \in Objs OBVIOUS
    <3> QED BY <3>1, <3>2
  <2>2. Fit(d, what, Fallback(d, what)) BY <2>0, <1>2, FallbackFits
  <2>3. to \in {loc, Fallback(d, what)} BY DEF Entered
  <2> HIDE DEF loc
  <2>4. to \in Objs /\ d.type[to] \in Near BY <2>1, <2>2, <2>3 DEF Fit
  <2>5. e = IF to = d.location[what] THEN d ELSE Moveto(d, what, to)
    BY DEF EnterRoom
  <2> HIDE DEF to, e
  <2>6. CASE to = d.location[what]
    <3>1. e = d /\ d.location[what] # NOTHING BY <2>4, <2>5, <2>6, Names
    <3>2. Carried(d, d, what) BY <3>1 DEF Carried
    <3> QED BY <3>1, <3>2 DEF e
  <2>7. CASE to # d.location[what]
    <3>1. e = Moveto(d, what, to) BY <2>5, <2>7
    <3>2. Carried(d, Moveto(d, what, to), what) BY <2>4, MovetoCarries
    <3> QED BY <3>1, <3>2 DEF e
  <2> QED BY <2>6, <2>7
<1> QED BY <1>1, <1>2

LEMMA MovementBears ==
    ASSUME NEW d, NEW D, NEW what \in Objs \ {Top}, NEW where \in Objs \cup {HOME},
           Good(d, D), Rooted(d), where \in Objs => d.type[where] \in Near
    PROVE  /\ Bears(d, Moves(d, what, where), what)
           /\ Homed(d, what, where) => Bears(d, Enters(d, what, where), what)
           /\ Bears(d, ThingMoves(d, what, where), what)
<1>0. d \in Db BY DEF Good
<1>1. Bears(d, Moves(d, what, where), what)
  <2> DEFINE m == Moves(d, what, where)
  <2>1. m = [db |-> m.db, then |-> m.then] /\ m.db = Moveto(d, what, where) /\ m.then = << >>
    BY DEF Moves
  <2> HIDE DEF m
  <2>2. Carried(d, Moveto(d, what, where), what) BY MovetoCarries
  <2>3. Bears(d, m, what) BY <2>1, <2>2, MildNone DEF Bears
  <2> QED BY <2>3 DEF m
<1>2. Homed(d, what, where) => Bears(d, Enters(d, what, where), what)
  <2> SUFFICES ASSUME Homed(d, what, where) PROVE Bears(d, Enters(d, what, where), what)
    OBVIOUS
  <2> DEFINE m == Enters(d, what, where)
  <2>1. /\ m = [db |-> m.db, then |-> m.then] /\ m.db = EnterRoom(d, what, where)
        /\ m.then = Afterwards(d, what, where)
    BY DEF Enters
  <2> HIDE DEF m
  <2>2. Carried(d, EnterRoom(d, what, where), what) BY EnterRoomCarries
  <2>3. Mild(d, m.then) BY <1>0, <2>1, AfterwardsMild
  <2>4. Bears(d, m, what) BY <2>1, <2>2, <2>3 DEF Bears
  <2> QED BY <2>4 DEF m
<1>3. d.type[what] = "thing" => Homed(d, what, where) BY DEF Homed
<1> QED BY <1>1, <1>2, <1>3 DEF ThingMoves

LEMMA BearsThen ==
    ASSUME NEW d, NEW m, NEW what, NEW g, Bears(d, m, what), Mild(d, g)
    PROVE  Bears(d, [m EXCEPT !.then = @ \o g], what)
<1> DEFINE e == [m EXCEPT !.then = @ \o g]
           c == m.then \o g
<1>1. Mild(d, c) BY MildJoin DEF Bears
<1>2. m = [db |-> m.db, then |-> m.then] BY DEF Bears
<1>3. e = [m EXCEPT !.then = c] OBVIOUS
<1> HIDE DEF e, c
<1>4. e = [db |-> m.db, then |-> c] BY <1>2, <1>3
<1>5. e.db = m.db /\ e.then = c /\ e = [db |-> e.db, then |-> e.then] BY <1>4
<1>6. Bears(d, e, what) BY <1>1, <1>5 DEF Bears
<1> QED BY <1>6 DEF e

LEMMA DoomedNext ==
    ASSUME NEW t, task' = t
    PROVE  Doomed' = DoomedIn(t)
<1>1. Doomed' = {o \in Objs : \E i \in 1 .. Len(task') : task'[i].does = "recycling" /\ task'[i].thing = o}
  BY DEF Doomed, BeingRecycled
<1> QED BY <1>1 DEF DoomedIn

\* Mild frames in place of the one at the top: the same is being recycled.
LEMMA MildDoomed ==
    ASSUME NEW d, NEW g, Inv, Quiet, Settled, task # << >>,
           Head(task).does \notin {"arrive", "recycling"}, Mild(d, g), task' = g \o Tail(task)
    PROVE  Doomed' = Doomed
<1>1. Tail(task) \in Seq(Frames) /\ DoomedIn(Tail(task)) = DoomedIn(task)
  BY SettledPop
<1>2. g \in Seq(Frames) /\ \A i \in 1 .. Len(g) : g[i].does # "recycling"
  BY DEF Mild, MildFrame
<1>3. DoomedIn(g \o Tail(task)) = DoomedIn(Tail(task)) BY <1>1, <1>2, DoomedJoin
<1> QED BY <1>1, <1>3, DoomedNext, DoomedIs

\* What a step does to what is not lost, and what it is of Places.
Advances == Settled' /\ PlacesGoOn

\* A step of a frame that moves an object.
LEMMA BearStep ==
    ASSUME NEW m, NEW what, Inv, Inv', Quiet, Settled, NothingLost', Continue(m),
           task # << >>, Head(task).does \notin {"arrive", "recycling", "sending"},
           Bears(db, m, what)
    PROVE  Advances
<1>1. db' = m.db /\ task' = m.then \o Tail(task) BY DEF Continue
<1>2. Carried(db, m.db, what) /\ Mild(db, m.then) BY DEF Bears
<1>3. Doomed' = Doomed BY <1>1, <1>2, MildDoomed
<1>4. /\ Tail(task) \in Seq(Frames) /\ NoWalk(Tail(task))
      /\ \A i \in 1 .. Len(Tail(task)) : FrameSettled(db, Tail(task)[i])
      /\ Away(db) = {} /\ db.location[Top] = NOTHING /\ Contained(db)
  BY SettledPop
<1>5. Away(m.db) = {} /\ m.db.location[Top] = NOTHING /\ Contained(m.db) /\ m.db.type = db.type
  BY <1>2, <1>4, CarriedNone, CarriedContained DEF Carried
<1>6. Mild(m.db, m.then) BY Zenon, <1>2, <1>5 DEF Mild, MildFrame, FrameMild
<1>7. SettledIn(m.db, m.then \o Tail(task)) BY <1>4, <1>5, <1>6, MildOn
<1>8. Settled' BY <1>1, <1>7, SettledFrom
<1>9. Carried(db, db', what) BY <1>1, <1>2
<1>10. PlacesGoOn BY <1>3, <1>9, CarriedPlaces
<1> QED BY <1>8, <1>10 DEF Advances

\* A step that moves nothing.
LEMMA StillStep ==
    ASSUME NEW g, NEW e, Inv, Quiet, Settled, Away(db) = {}, db' = e, task' = g \o Tail(task),
           task # << >>, Head(task).does \notin {"arrive", "recycling"},
           e.type = db.type, e.location = db.location, Mild(db, g)
    PROVE  Advances
<1>3. Doomed' = Doomed BY MildDoomed
<1>4. /\ Tail(task) \in Seq(Frames) /\ NoWalk(Tail(task))
      /\ \A i \in 1 .. Len(Tail(task)) : FrameSettled(db, Tail(task)[i])
      /\ db.location[Top] = NOTHING /\ Contained(db)
  BY SettledPop
<1>5. Away(e) = {} /\ e.location[Top] = NOTHING /\ Contained(e)
  BY <1>4 DEF Away, Contained
<1>6. Mild(e, g) BY Zenon DEF Mild, MildFrame, FrameMild
<1>7. SettledIn(e, g \o Tail(task)) BY <1>4, <1>5, <1>6, MildOn
<1>8. Settled' BY <1>7, SettledFrom
<1>9. Garbage' = Garbage /\ \A o \in Objs : db'.location[o] = db.location[o]
  BY DEF Garbage
<1>10. PlacesGoOn BY <1>3, <1>9, PlacesRest
<1> QED BY <1>8, <1>10 DEF Advances

LEMMA RestStep ==
    ASSUME NEW g, NEW e, Inv, Quiet, Settled, db' = e, task' = g \o Tail(task),
           task # << >>, Head(task).does \notin {"arrive", "recycling", "sending"},
           e.type = db.type, e.location = db.location, Mild(db, g)
    PROVE  Advances
<1>1. Away(db) = {} BY SettledPop
<1> QED BY <1>1, StillStep

\* What a step starts from.
LEMMA RootedNow ==
    ASSUME Inv, Settled
    PROVE  Rooted(db)
BY DEF Inv, Whole, Good, Settled, SettledIn, Rooted

LEMMA NotTop ==
    ASSUME NEW d, NEW D, NEW o, Good(d, D), d.type[o] # "room"
    PROVE  o # Top
BY DEF Good, Sound, Fixed

LEMMA EnterAdvances == Inv /\ Inv' /\ Quiet /\ Settled /\ NothingLost' /\ Enter => Advances
<1> SUFFICES ASSUME Inv, Inv', Quiet, Settled, NothingLost', Enter PROVE Advances
  OBVIOUS
<1> DEFINE D == DoomedIn(task)
           what == Head(task).what
           m == Enters(db, what, HOME)
<1>1. task # << >> /\ Head(task).does = "enter" /\ Continue(m) BY DEF Enter, Doing
<1>2. Good(db, D) /\ Head(task) \in Frames /\ task \in Seq(Frames)
  BY <1>1, HeadIs DEF Inv, Whole
<1>3. PICK W : Calm(db, task, D, W) BY DEF Quiet
<1>4. what \in Objs /\ FrameCalm(db, D, W, Head(task))
  BY Zenon, <1>1, <1>2, <1>3, CalmPop DEF Frames
<1>5. Homed(db, what, HOME) /\ db.type[what] # "room"
  BY <1>1, <1>4 DEF FrameCalm, Homed
<1> HIDE DEF what, D
<1>6. what # Top /\ Rooted(db) BY <1>2, <1>5, NotTop, RootedNow
<1>7. HOME \notin Objs BY Names DEF Refs
<1>8. Bears(db, m, what) BY <1>2, <1>4, <1>5, <1>6, <1>7, MovementBears
<1> HIDE DEF m
<1> QED BY <1>1, <1>8, BearStep

LEMMA MoveOnAdvances == Inv /\ Inv' /\ Quiet /\ Settled /\ NothingLost' /\ MoveOn => Advances
<1> SUFFICES ASSUME Inv, Inv', Quiet, Settled, NothingLost', MoveOn PROVE Advances
  OBVIOUS
<1> DEFINE D == DoomedIn(task)
           what == Head(task).what
           where == Head(task).where
           m == Moves(db, what, where)
<1>1. task # << >> /\ Head(task).does = "moveto" /\ Continue(m) BY DEF MoveOn, Doing
<1>2. Good(db, D) /\ Head(task) \in Frames /\ task \in Seq(Frames)
  BY <1>1, HeadIs DEF Inv, Whole
<1>3. what \in Objs /\ where \in Objs BY Zenon, <1>1, <1>2 DEF Frames
<1>4. FrameSettled(db, Head(task)) /\ Rooted(db) BY <1>1, SettledPop, RootedNow
<1>5. what # Top /\ db.type[where] \in Near
  BY Zenon, <1>1, <1>4 DEF FrameSettled, FrameMild
<1> HIDE DEF what, where, D
<1>8. Bears(db, m, what) BY <1>2, <1>3, <1>4, <1>5, MovementBears
<1> HIDE DEF m
<1> QED BY <1>1, <1>8, BearStep

LEMMA SendHomeMild ==
    ASSUME NEW d, NEW thing \in Objs \ {Top}, NEW puppet \in BOOLEAN
    PROVE  Mild(d, <<[does |-> "send home", thing |-> thing, puppethome |-> puppet]>>)
<1> DEFINE f == [does |-> "send home", thing |-> thing, puppethome |-> puppet]
<1>1. f \in Frames /\ MildFrame(d, f) BY Zenon DEF Frames, MildFrame, FrameMild
<1> HIDE DEF f
<1>2. Mild(d, <<f>>) BY <1>1, MildOne
<1> QED BY Zenon, <1>2 DEF f

LEMMA SendHomeAdvances == Inv /\ Inv' /\ Quiet /\ Settled /\ NothingLost' /\ SendHome => Advances
<1> SUFFICES ASSUME Inv, Inv', Quiet, Settled, NothingLost', SendHome PROVE Advances
  OBVIOUS
<1> DEFINE D == DoomedIn(task)
           thing == Head(task).thing
           enter == [does |-> "enter", what |-> thing]
           send == [does |-> "send", loc |-> thing, dest |-> HOME]
           again == [does |-> "send home", thing |-> thing, puppethome |-> FALSE]
           both == <<send>> \o <<enter>>
           twice == <<send>> \o <<again>>
<1>1. /\ task # << >> /\ Head(task).does = "send home"
      /\ \/ db' = db /\ task' = both \o Tail(task)
         \/ db' = db /\ task' = twice \o Tail(task)
         \/ db' = db /\ task' = <<enter>> \o Tail(task)
         \/ Continue(Moves(db, thing, HOME))
  BY Zenon DEF SendHome, Doing, Continue
<1>2. Good(db, D) /\ Head(task) \in Frames /\ task \in Seq(Frames)
  BY Zenon, <1>1, HeadIs DEF Inv, Whole
<1>3. thing \in Objs BY Zenon, <1>1, <1>2 DEF Frames
<1>4. FrameSettled(db, Head(task)) /\ Rooted(db)
  BY Zenon, <1>1, SettledPop, RootedNow
<1>5. thing # Top BY Zenon, <1>1, <1>4 DEF FrameSettled, FrameMild
<1> HIDE DEF thing, D
<1>b. Mild(db, <<again>>) BY <1>3, <1>5, SendHomeMild
<1> HIDE DEF again
<1>6. enter \in Frames /\ MildFrame(db, enter)
  BY <1>3 DEF Frames, MildFrame, FrameMild
<1>7. send \in Frames /\ MildFrame(db, send)
  BY Zenon, <1>3 DEF Frames, MildFrame, FrameMild
<1> HIDE DEF enter, send
<1>8. Mild(db, <<enter>>) /\ Mild(db, <<send>>) BY <1>6, <1>7, MildOne
<1>9. Mild(db, both) /\ Mild(db, twice) BY <1>b, <1>8, MildJoin
<1>10. CASE Continue(Moves(db, thing, HOME))
  <2>1. HOME \notin Objs BY Names DEF Refs
  <2>2. Bears(db, Moves(db, thing, HOME), thing)
    BY <1>2, <1>3, <1>4, <1>5, <2>1, MovementBears
  <2> QED BY Zenon, <1>1, <1>10, <2>2, BearStep
<1> HIDE DEF both, twice
<1>11. CASE db' = db /\ task' = both \o Tail(task)
  BY Zenon, <1>1, <1>9, <1>11, RestStep
<1>13. CASE db' = db /\ task' = twice \o Tail(task)
  BY Zenon, <1>1, <1>9, <1>13, RestStep
<1>12. CASE db' = db /\ task' = <<enter>> \o Tail(task)
  BY Zenon, <1>1, <1>8, <1>12, RestStep
<1> QED BY Zenon, <1>1, <1>10, <1>11, <1>12, <1>13

LEMMA DepartAdvances == Inv /\ Quiet /\ Settled /\ Depart => Advances
<1> SUFFICES ASSUME Inv, Quiet, Settled, Depart PROVE Advances OBVIOUS
<1> DEFINE D == DoomedIn(task)
           old == Head(task).old
           dropto == db.dropto[old]
           send == [does |-> "send", loc |-> old, dest |-> dropto]
<1>1. /\ task # << >> /\ Head(task).does = "depart"
      /\ db' = db
      /\ \/ dropto # NOTHING /\ task' = <<send>> \o Tail(task)
         \/ task' = << >> \o Tail(task)
  BY Zenon DEF Depart, Doing, Continue
<1>2. Good(db, D) /\ Head(task) \in Frames /\ task \in Seq(Frames)
  BY <1>1, HeadIs DEF Inv, Whole
<1>3. old \in Objs BY Zenon, <1>1, <1>2 DEF Frames
<1> HIDE DEF old
<1>4. dropto \in Objs \cup {NOTHING, HOME} /\ (dropto \in Objs => db.type[dropto] \in Near)
  <2>1. dropto \in Refs \cup {HOME} /\ (dropto \in Objs => db.type[dropto] \in {"room", "thing"})
    BY <1>2, <1>3 DEF Good, Db, Sound, DroptoOK
  <2>2. {"room", "thing"} \subseteq Near BY DEF Near, Containers
  <2> QED BY <2>1, <2>2 DEF Refs
<1> HIDE DEF dropto, D
<1>5. CASE dropto # NOTHING /\ task' = <<send>> \o Tail(task)
  <2>1. send \in Frames /\ MildFrame(db, send)
    BY Zenon, <1>3, <1>4, <1>5 DEF Frames, MildFrame, FrameMild
  <2> HIDE DEF send
  <2>2. Mild(db, <<send>>) BY <2>1, MildOne
  <2> QED BY <1>1, <1>5, <2>2, RestStep
<1>6. CASE task' = << >> \o Tail(task) BY <1>1, <1>6, MildNone, RestStep
<1> QED BY <1>1, <1>5, <1>6

LEMMA ArriveAdvances == Inv /\ Quiet /\ Settled /\ Arrive => Advances
<1> SUFFICES ASSUME Inv, Quiet, Settled, Arrive PROVE Advances OBVIOUS
<1> DEFINE u == Tail(task)
<1>1. task # << >> /\ Head(task).does = "arrive" /\ db' = db /\ task' = << >> \o u
  BY DEF Arrive, Doing, Continue
<1>2. task \in Seq(Frames) BY DEF Inv, Whole
<1>3. PICK W : Calm(db, task, DoomedIn(task), W) BY DEF Quiet
<1>4. u \in Seq(Frames) /\ DoomedIn(u) = DoomedIn(task) BY <1>1, <1>2, <1>3, CalmPop
<1>5. /\ Len(u) = Len(task) - 1 /\ Len(task) \in Nat /\ Head(task) = task[1]
      /\ \A i \in 1 .. Len(u) : i + 1 \in 1 .. Len(task) /\ u[i] = task[i + 1]
  BY <1>1, <1>2, PopIs
<1> HIDE DEF u
<1>6. task' = u BY <1>1, <1>4, ConcatEmptySeq
<1>7. \A i \in 1 .. Len(u) : FrameSettled(db, u[i]) BY <1>5 DEF Settled, SettledIn
<1>8. ASSUME NoWalk(u) PROVE Away(db) = {}
  <2>1. ASSUME NEW i \in 1 .. Len(task) PROVE task[i].does # "sending"
    <3>1. CASE i = 1 BY <3>1, <1>1, <1>5
    <3>2. CASE i # 1
      <4>1. i - 1 \in 1 .. Len(u) /\ (i - 1) + 1 = i BY <3>2, <1>5
      <4> QED BY <4>1, <1>5, <1>8 DEF NoWalk
    <3> QED BY <3>1, <3>2
  <2> QED BY <2>1 DEF NoWalk, Settled, SettledIn
<1>9. SettledIn(db, u) BY <1>7, <1>8 DEF Settled, SettledIn
<1>10. Settled' BY <1>1, <1>6, <1>9, SettledFrom
<1>11. Doomed' = Doomed /\ Garbage' = Garbage /\ \A o \in Objs : db'.location[o] = db.location[o]
  BY <1>1, <1>4, <1>6, DoomedNext, DoomedIs DEF Garbage
<1>12. PlacesGoOn BY <1>11, PlacesRest
<1> QED BY <1>10, <1>12 DEF Advances

\* When a walk is over nothing is left in its hand.
LEMMA SentAdvances == Inv /\ Quiet /\ Settled /\ Sent => Advances
<1> SUFFICES ASSUME Inv, Quiet, Settled, Sent PROVE Advances OBVIOUS
<1> DEFINE loc == Head(task).loc
           e == ReverseContents(db, loc)
           D == DoomedIn(task)
<1>1. /\ task # << >> /\ Head(task).does = "sending" /\ Head(task).first = NOTHING
      /\ db' = e /\ task' = << >> \o Tail(task)
  BY DEF Sent, Doing, Continue
<1>2. Good(db, D) /\ Head(task) \in Frames BY <1>1, HeadIs DEF Inv
<1>3. loc \in Objs BY Zenon, <1>1, <1>2 DEF Frames
<1>4. FrameSettled(db, Head(task)) BY <1>1, SettledPop
<1> HIDE DEF loc, D
<1>5. PICK h : Threaded(db, h) /\ Placed(db, h, D) BY <1>2 DEF Good, InPlace
<1>6. Relinked(db, e, h) BY <1>2, <1>3, <1>5, ReverseThreads DEF Good
<1> HIDE DEF e
<1>7. e.type = db.type /\ e.location = db.location BY <1>6 DEF Relinked, OnlyLists
<1>8. Away(db) = {}
  <2>1. InHand(db, NOTHING) BY <1>1, <1>4 DEF FrameSettled
  <2>2. PICK K \in SUBSET (Objs \ {Top}) : \E r \in [Objs -> Int] : Held(db, K, r, NOTHING)
    BY <2>1 DEF InHand
  <2>3. Follows(db, K, NOTHING) /\ Away(db) \subseteq K BY <2>2 DEF Held
  <2>4. NOTHING \notin K /\ {} \in SUBSET K BY Names
  <2>5. {} = K BY <2>3, <2>4 DEF Follows
  <2> QED BY <2>3, <2>5
<1> QED BY <1>1, <1>7, <1>8, MildNone, StillStep

LEMMA ToadedAdvances == Inv /\ Quiet /\ Settled /\ Toaded => Advances
<1> SUFFICES ASSUME Inv, Quiet, Settled, Toaded PROVE Advances OBVIOUS
<1> DEFINE t == Head(task)
           what == t.what
           by == t.by
           recipient == t.recipient
           owners == [o \in Objs |-> IF o = what THEN by
                                     ELSE IF db.owner[o] = what THEN recipient ELSE db.owner[o]]
           homes == [o \in Objs |-> IF o = what THEN db.home[by]
                                    ELSE IF db.type[o] = "thing" /\ db.home[o] = what
                                           THEN tp_player_start ELSE db.home[o]]
<1>1. /\ task # << >> /\ Head(task).does = "toad"
      /\ db' = [db EXCEPT !.owner = owners, !.home = homes, !.type[what] = "thing"]
      /\ task' = << >> \o Tail(task)
  BY Zenon DEF Toaded, Doing, Continue
<1>2. Whole(db, task) /\ Head(task) \in Frames /\ FrameOK(db, Head(task))
  BY <1>1, HeadIs DEF Inv
<1>3. Tail(task) = << >> /\ DoomedIn(task) = DoomedIn(Tail(task))
  BY <1>1, <1>2, TaskPop DEF Whole
<1>4. DoomedIn(task) = {} /\ task' = << >>
  <2>1. << >> \o << >> = << >> BY ConcatEmptySeq
  <2> QED BY <1>1, <1>3, <2>1, NoneDoomed
<1>5. db \in Db /\ what \in Objs /\ db.type[what] = "player"
  BY Zenon, <1>1, <1>2 DEF Whole, Good, FrameOK, Frames
<1>6. Away(db) = {} /\ db.location[Top] = NOTHING /\ Contained(db)
  BY <1>1, SettledPop
<1> HIDE DEF owners, homes, what
<1>7. db'.location = db.location /\ db'.type = [db.type EXCEPT ![what] = "thing"]
  <2>1. db' = [type |-> [db.type EXCEPT ![what] = "thing"], location |-> db.location,
               contents |-> db.contents, next |-> db.next, home |-> homes, owner |-> owners,
               dropto |-> db.dropto, recyclable |-> db.recyclable]
    BY <1>1, <1>5 DEF Db
  <2> QED BY <2>1
<1>8. \A o \in Objs : db'.type[o] = IF o = what THEN "thing" ELSE db.type[o]
  BY <1>5, <1>7 DEF Db
<1>9. PICK e : e = db' OBVIOUS
<1>10. Away(e) = {} BY <1>5, <1>6, <1>7, <1>8, <1>9 DEF Away
<1>11. Contained(e)
  <2>1. "thing" \in Near BY DEF Near, Containers
  <2>2. ASSUME NEW o \in Objs, e.location[o] # NOTHING PROVE e.type[e.location[o]] \in Near
    <3>1. db.location[o] \in Objs /\ db.type[db.location[o]] \in Near /\ e.location[o] = db.location[o]
      BY <1>5, <1>6, <1>7, <1>9, <2>2 DEF Contained, Db, Refs
    <3> QED BY <2>1, <3>1, <1>8, <1>9
  <2> QED BY <2>2 DEF Contained
<1>12. e.location[Top] = NOTHING BY <1>6, <1>7, <1>9
<1>13. SettledIn(e, << >>) BY <1>10, <1>11, <1>12, MildNone, MildStart
<1>14. Settled' BY <1>4, <1>9, <1>13, SettledFrom
<1>15. Doomed' = Doomed BY <1>4, DoomedNext, DoomedIs, NoneDoomed
<1>16. Garbage' = Garbage BY <1>5, <1>8 DEF Garbage
<1>17. PlacesGoOn BY <1>7, <1>15, <1>16, PlacesRest
<1> QED BY <1>14, <1>17 DEF Advances

\* What is recycled is garbage now, and nothing was in it.
LEMMA RecycledAdvances == Inv /\ Quiet /\ Settled /\ NothingLost' /\ Recycled => Advances
<1> SUFFICES ASSUME Inv, Quiet, Settled, NothingLost', Recycled PROVE Advances
  OBVIOUS
<1> DEFINE thing == Head(task).thing
           D == DoomedIn(task)
           moved == Moveto(db, thing, NOTHING)
<1>1. task # << >> /\ Head(task).does = "recycling" BY DEF Recycled, Doing
<1>2. Good(db, D) BY <1>1, HeadIs DEF Inv
<1>3. PICK W : Calm(db, task, D, W) BY DEF Quiet
<1>4. Tail(task) = << >> /\ D = {thing} BY <1>1, <1>3, RecyclesAlone
<1>5. /\ thing \in Objs /\ Shifted(db, moved, thing) /\ Buried(moved, db', thing)
      /\ task' = Tail(task)
  BY RecycledBuries DEF Buries
<1>6. Away(db) = {} /\ db.location[Top] = NOTHING /\ Contained(db)
  BY <1>1, SettledPop
<1> HIDE DEF thing, D, moved
<1>7. /\ moved \in Db /\ moved.type = db.type
      /\ \A x \in Objs : x # thing => moved.location[x] = db.location[x]
  BY <1>5 DEF Shifted
<1>8. /\ \A x \in Objs : db'.type[x] = IF x = thing THEN "garbage" ELSE db.type[x]
      /\ \A x \in Objs : db'.location[x] = IF x = thing THEN NOTHING ELSE db.location[x]
  <2>1. /\ db'.type = [moved.type EXCEPT ![thing] = "garbage"]
        /\ db'.location = [moved.location EXCEPT ![thing] = NOTHING]
    BY <1>5 DEF Buried
  <2>2. moved.type \in [Objs -> Types] /\ moved.location \in [Objs -> Refs]
    BY <1>7 DEF Db
  <2> QED BY <1>7, <2>1, <2>2
<1>9. thing # Top /\ db.type[thing] # "garbage" /\ Top \in Objs /\ db \in Db
  <2>1. Top \in Objs BY ObjectsAssumption DEF Objs, Top
  <2> QED BY <1>2, <1>4, <1>5, <2>1 DEF Good, Sound, Fixed
<1>10. PICK e : e = db' OBVIOUS
<1>11. Away(e) = {} /\ e.location[Top] = NOTHING BY <1>6, <1>8, <1>9, <1>10 DEF Away
<1>12. Contained(e)
  <2>1. "garbage" \in Near BY DEF Near
  <2>2. ASSUME NEW o \in Objs, e.location[o] # NOTHING PROVE e.type[e.location[o]] \in Near
    <3>1. e.location[o] = db.location[o] BY <1>8, <1>10, <2>2
    <3>2. db.location[o] \in Objs /\ db.type[db.location[o]] \in Near
      BY <1>6, <1>9, <2>2, <3>1 DEF Contained, Db, Refs
    <3> QED BY <2>1, <3>1, <3>2, <1>8, <1>10
  <2> QED BY <2>2 DEF Contained
<1>13. SettledIn(e, << >>) BY <1>11, <1>12, MildNone, MildStart
<1>14. task' = << >> BY <1>4, <1>5
<1>15. Settled' BY <1>10, <1>13, <1>14, SettledFrom
<1>16. Doomed = {thing} /\ Doomed' = {}
  BY <1>4, <1>14, DoomedNext, DoomedIs, NoneDoomed DEF D
<1>17. thing \notin Garbage /\ Garbage' = Garbage \cup {thing}
  BY <1>5, <1>8, <1>9 DEF Garbage
<1>18. PlacesGoOn BY <1>5, <1>8, <1>9, <1>16, <1>17, FreedPlaces
<1> QED BY <1>15, <1>18 DEF Advances

\* What is in what is being recycled is sent home.
LEMMA RecyclingAdvances == Inv /\ Inv' /\ Quiet /\ Settled /\ NothingLost' /\ Recycling => Advances
<1> SUFFICES ASSUME Inv, Inv', Quiet, Settled, NothingLost', Recycling PROVE Advances
  OBVIOUS
<1> DEFINE r == Head(task)
           first == db.contents[r.thing]
           again == [r EXCEPT !.last = first, !.looplimit = @ - 1]
           dragged == r.last \in Here(r.thing)
           walks == \/ db.type[first] = "player"
                    \/ db.type[first] = "thing"
                       /\ (tp_thing_movement \/ first \in Zombie \cup Vehicle)
           move == IF walks THEN Enters(db, first, HOME) ELSE Moves(db, first, HOME)
           next == IF walks THEN again ELSE [again EXCEPT !.last = NOTHING]
           D == DoomedIn(task)
<1>1. /\ task # << >> /\ r.does = "recycling"
      /\ dragged \/ (/\ first # NOTHING /\ r.looplimit > 0
                     /\ Continue([move EXCEPT !.then = @ \o <<next>>]))
  BY Zenon DEF Recycling, Doing
<1>2. Good(db, D) /\ r \in Frames BY Zenon, <1>1, HeadIs DEF Inv
<1>3. /\ r \in [does : {"recycling"}, thing : Objs, last : Refs, looplimit : 0 .. db_top]
  BY Zenon, <1>1, <1>2 DEF Frames
<1>4. PICK W : Calm(db, task, D, W) BY DEF Quiet
<1>5. /\ Tail(task) = << >> /\ D = {r.thing} /\ r.last \notin W
  BY Zenon, <1>1, <1>4, RecyclesAlone
<1>6. Inside(db, D, W) /\ Away(db) = {} /\ db.location[Top] = NOTHING /\ Contained(db)
  BY Zenon, <1>1, <1>4, SettledPop DEF Calm
<1> HIDE DEF r, D
<1>7. ~ dragged BY <1>5, <1>6 DEF Here, Inside
<1>8. first # NOTHING /\ r.looplimit > 0 /\ Continue([move EXCEPT !.then = @ \o <<next>>])
  BY Zenon, <1>1, <1>7
<1>9. first \in Objs \ {Top}
  <2>1. first \in Objs /\ db.location[first] = r.thing
    BY <1>2, <1>3, <1>8, FirstIsHere
  <2>2. r.thing # NOTHING BY <1>3, Names
  <2> QED BY <2>1, <2>2, <1>6
<1>10. next \in Frames /\ next.does = "recycling" /\ next.thing = r.thing
  <2>1. r.looplimit - 1 \in 0 .. db_top /\ NOTHING \in Refs /\ first \in Refs
    <3>1. r.looplimit \in 0 .. db_top /\ r.looplimit > 0 /\ db_top \in Nat
      BY <1>3, <1>8, ObjectsAssumption
    <3>2. NOTHING \in Refs /\ first \in Refs BY <1>9 DEF Refs
    <3> QED BY <3>1, <3>2
  <2> HIDE DEF first
  <2> DEFINE limit == r.looplimit - 1
  <2>2. again = [r EXCEPT !.last = first, !.looplimit = limit] OBVIOUS
  <2>3. limit \in 0 .. db_top BY <2>1
  <2> HIDE DEF limit, again
  <2>4. /\ again \in [does : {"recycling"}, thing : Objs, last : Refs, looplimit : 0 .. db_top]
        /\ again.thing = r.thing
    BY <1>3, <2>1, <2>2, <2>3
  <2>5. /\ next \in [does : {"recycling"}, thing : Objs, last : Refs, looplimit : 0 .. db_top]
        /\ next.thing = r.thing
    BY <2>1, <2>4
  <2> HIDE DEF next
  <2> QED BY Zenon, <2>5 DEF Frames
<1>11. Rooted(db) BY RootedNow
<1>12. Bears(db, move, first)
  <2>1. HOME \notin Objs BY Names DEF Refs
  <2>2. walks => Homed(db, first, HOME) BY DEF Homed
  <2> HIDE DEF first
  <2>3. walks => Bears(db, Enters(db, first, HOME), first)
    BY <1>2, <1>9, <1>11, <2>1, <2>2, MovementBears
  <2>4. Bears(db, Moves(db, first, HOME), first)
    BY <1>2, <1>9, <1>11, <2>1, MovementBears
  <2> QED BY <2>3, <2>4
<1> HIDE DEF move, next, first
<1>13. /\ move = [db |-> move.db, then |-> move.then] /\ Carried(db, move.db, first)
       /\ Mild(db, move.then)
  BY <1>12 DEF Bears
<1>14. move.then \in Seq(Frames) /\ <<next>> \in Seq(Frames) /\ Len(<<next>>) = 1 /\ <<next>>[1] = next
  BY <1>10, <1>13, OneFrame DEF Mild
<1>15. db' = move.db /\ task' = move.then \o <<next>>
  <2> DEFINE c == move.then \o <<next>>
             m == [move EXCEPT !.then = @ \o <<next>>]
  <2>1. m.db = move.db /\ m.then = c /\ Continue(m)
    <3>1. m = [move EXCEPT !.then = c] BY <1>13
    <3>2. Continue(m) BY <1>8
    <3> HIDE DEF m, c
    <3> QED BY <3>1, <3>2, <1>13
  <2>2. c \in Seq(Frames) BY <1>14
  <2> HIDE DEF m, c
  <2>3. task' = c \o << >> /\ db' = move.db BY <2>1, <1>5 DEF Continue
  <2> QED BY <2>2, <2>3, ConcatEmptySeq DEF c
<1> DEFINE u == <<next>>
           e == move.db
<1>16. NoWalk(u) /\ \A i \in 1 .. Len(u) : FrameSettled(db, u[i])
  <2>1. FrameSettled(db, next) BY <1>10 DEF FrameSettled, FrameMild
  <2> HIDE DEF u
  <2>2. \A i \in 1 .. Len(u) : u[i] = next BY <1>14 DEF u
  <2> QED BY <2>1, <2>2, <1>10 DEF NoWalk
<1> HIDE DEF u
<1>17. Away(e) = {} /\ e.location[Top] = NOTHING /\ Contained(e) /\ e.type = db.type
  BY <1>6, <1>13, CarriedNone, CarriedContained DEF Carried
<1>18. Mild(e, move.then) BY Zenon, <1>13, <1>17 DEF Mild, MildFrame, FrameMild
<1>19. SettledIn(e, move.then \o u)
  <2>1. u \in Seq(Frames) BY <1>14 DEF u
  <2> HIDE DEF e
  <2> QED BY <2>1, <1>16, <1>17, <1>18, MildOn
<1>20. Settled' BY <1>15, <1>19, SettledFrom DEF u
<1>21. Doomed' = Doomed
  <2>1. DoomedIn(move.then \o u) = DoomedIn(u)
    BY <1>13, <1>14, DoomedJoin DEF Mild, MildFrame, u
  <2>2. DoomedIn(u) = {r.thing}
    <3>1. \A i \in 1 .. Len(u) : u[i].does = "recycling" /\ u[i].thing = r.thing
      BY <1>10, <1>14 DEF u
    <3>2. 1 \in 1 .. Len(u) /\ r.thing \in Objs BY <1>3, <1>14 DEF u
    <3> QED BY <3>1, <3>2 DEF DoomedIn
  <2> QED BY <2>1, <2>2, <1>5, <1>15, DoomedNext, DoomedIs DEF D, u
<1>22. PlacesGoOn BY <1>13, <1>15, <1>21, CarriedPlaces
<1> QED BY <1>20, <1>22 DEF Advances

-----------------------------------------------------------------------------
(* The walk of send_contents(): it has in hand what it has not put yet.    *)
\* All of a list follows the first.
LEMMA ListFollows ==
    ASSUME NEW d, NEW c, NEW h, NEW r, NEW B, Linked(Objs, Heads, NOTHING, c, d.next, h, r, B), NEW loc \in Objs,
           NEW K, K = {x \in Objs : h[x] = loc}
    PROVE  Follows(d, K, c[loc])
<1> SUFFICES ASSUME NEW S \in SUBSET K, c[loc] \in K => c[loc] \in S,
                    \A y \in S : d.next[y] \in K => d.next[y] \in S,
                    K \ S # {}
             PROVE  FALSE
  BY DEF Follows
<1>1. B \in Nat /\ r \in [Objs -> 0 .. B] /\ NextIsIn(Objs, NOTHING, c, d.next, h, r) /\ IsReached(Objs, NOTHING, c, d.next, h)
  BY DEF Linked, LinkTypes
<1>n. loc # NOTHING /\ NOTHING \notin Objs BY Names
<1> DEFINE T == {B - r[y] : y \in K \ S}
<1>2. T \in SUBSET Nat /\ T # {} BY <1>1
<1>3. PICK m \in T : \A k \in T : m <= k BY <1>2, LeastNat, Zenon
<1>4. PICK x \in K \ S : m = B - r[x] BY <1>3
<1>5. x \in Objs /\ h[x] = loc /\ x # c[loc] BY <1>4
<1>6. PICK y \in Objs : h[y] = loc /\ d.next[y] = x
  BY <1>1, <1>5, <1>n DEF IsReached
<1>7. r[x] < r[y] BY <1>1, <1>5, <1>6, <1>n DEF NextIsIn
<1>8. y \in S
  <2> SUFFICES ASSUME y \notin S PROVE FALSE OBVIOUS
  <2>1. B - r[y] \in T BY <1>6
  <2>2. m <= B - r[y] /\ r[x] \in Int /\ r[y] \in Int
    BY <1>1, <1>3, <1>5, <1>6, <2>1
  <2> QED BY <1>1, <1>4, <1>7, <2>2
<1> QED BY <1>4, <1>6, <1>8

LEMMA ListOffHeld ==
    ASSUME NEW d, NEW D, NEW loc \in Objs, Good(d, D), Away(d) = {}, d.location[Top] = NOTHING
    PROVE  \E K \in SUBSET (Objs \ {Top}) : \E r \in [Objs -> Int] :
              /\ Held(ListOff(d, loc), K, r, d.contents[loc])
              /\ Lifted(d, ListOff(d, loc), loc, K)
<1> DEFINE e == ListOff(d, loc)
           K == Members(d, d.contents[loc])
           first == d.contents[loc]
<1>0. d \in Db BY DEF Good
<1>1. PICK h : Threaded(d, h) /\ Placed(d, h, D) BY DEF Good, InPlace
<1>2. PICK B : \E r : Linked(Objs, Heads, NOTHING, Firsts(d), d.next, h, r, B)
  BY <1>1 DEF Threaded
<1>3. PICK r : Linked(Objs, Heads, NOTHING, Firsts(d), d.next, h, r, B) BY <1>2
<1>f. /\ \A l \in Objs : Firsts(d)[l] = d.contents[l]
      /\ d.next \in [Objs -> Refs] /\ d.contents \in [Objs -> Refs]
  BY <1>0, FirstsTyped, Zenon
<1>l. loc \in Heads /\ loc # NOTHING /\ NOTHING \notin Objs BY Names DEF Heads
<1>m. K = {x \in Objs : h[x] = loc}
  <2>1. HoldsOf(Objs, h, loc, Members(d, d.contents[loc]))
    BY <1>3, <1>f, <1>l, ListMembers
  <2> QED BY <2>1 DEF HoldsOf
<1>4. e = [d EXCEPT !.contents[loc] = NOTHING,
                    !.location = [o \in Objs |-> IF o \in K THEN NOTHING ELSE @[o]]]
  BY DEF ListOff
<1> HIDE DEF e, K
<1>5. /\ e.type = d.type /\ e.next = d.next
      /\ \A o \in Objs : e.location[o] = IF o \in K THEN NOTHING ELSE d.location[o]
  <2>1. /\ e.type = d.type /\ e.next = d.next
        /\ e.location = [o \in Objs |-> IF o \in K THEN NOTHING ELSE d.location[o]]
    BY <1>0, <1>4 DEF Db
  <2> QED BY <2>1
<1>6. \A o \in K : o \in Objs /\ d.location[o] = loc BY <1>1, <1>m DEF Placed
<1>7. K \in SUBSET (Objs \ {Top}) BY <1>6, <1>l
<1>8. Lifted(d, e, loc, K) BY <1>5, <1>6 DEF Lifted
<1>9. Away(e) \subseteq K BY <1>5 DEF Away
<1>10. LinkTypes(Objs, Heads, NOTHING, Firsts(d), d.next, h, r, B) /\ FirstIsIn(Heads, NOTHING, Firsts(d), h)
       /\ NextIsIn(Objs, NOTHING, Firsts(d), d.next, h, r)
  BY <1>3 DEF Linked
<1>11. r \in [Objs -> Int]
  <2>1. B \in Nat /\ r \in [Objs -> 0 .. B] BY <1>10 DEF LinkTypes
  <2> QED BY <2>1
<1>12. first \in K \cup {NOTHING}
  <2> SUFFICES ASSUME first # NOTHING PROVE first \in K OBVIOUS
  <2>1. first \in Refs BY <1>f
  <2>2. first \in Objs BY <2>1 DEF Refs
  <2>3. h[first] = loc BY <1>10, <1>f, <1>l DEF FirstIsIn
  <2> HIDE DEF first
  <2> QED BY <2>2, <2>3, <1>m
<1>13. \A y \in K : d.next[y] # NOTHING => d.next[y] \in K /\ r[d.next[y]] < r[y]
  <2> SUFFICES ASSUME NEW y \in K, d.next[y] # NOTHING
               PROVE  d.next[y] \in K /\ r[d.next[y]] < r[y]
    OBVIOUS
  <2>1. y \in Objs /\ h[y] = loc BY <1>m
  <2>2. d.next[y] \in Objs BY <2>1, <1>f DEF Refs
  <2>3. h[d.next[y]] = loc /\ r[d.next[y]] < r[y] BY <2>1, <1>10, <1>l DEF NextIsIn
  <2> QED BY <2>2, <2>3, <1>m
<1>14. Follows(d, K, first) BY <1>3, <1>f, <1>m, ListFollows
<1>15. Walked(e, K, r, first) /\ Follows(e, K, first)
  <2>1. \A y \in K : e.location[y] = NOTHING BY <1>5, <1>6
  <2> HIDE DEF first
  <2>2. Follows(e, K, first) BY <1>5, <1>14 DEF Follows
  <2> QED BY <2>1, <2>2, <1>5, <1>12, <1>13 DEF Walked
<1> HIDE DEF first
<1>16. Held(e, K, r, first) BY <1>9, <1>15 DEF Held
<1> QED BY <1>7, <1>8, <1>11, <1>16 DEF e, first

\* The frame of the walk on others.
LEMMA WalkOn ==
    ASSUME NEW d, NEW e, NEW g, NEW f \in Frames, NEW u \in Seq(Frames), Arrives(g),
           f.does = "sending", FrameMild(e, f), InHand(e, f.first), NoWalk(u), e.type = d.type,
           \A i \in 1 .. Len(u) : FrameSettled(d, u[i]),
           e.location[Top] = NOTHING, Contained(e)
    PROVE  SettledIn(e, (g \o <<f>>) \o u) /\ DoomedIn((g \o <<f>>) \o u) = DoomedIn(u)
<1> DEFINE c == g \o <<f>>
           v == c \o u
<1>0. <<f>> \in Seq(Frames) /\ Len(<<f>>) = 1 /\ <<f>>[1] = f /\ g \in Seq(Frames)
  BY OneFrame DEF Arrives
<1>1. /\ c \in Seq(Frames) /\ Len(c) = Len(g) + 1 /\ Len(g) \in Nat
      /\ \A i \in 1 .. Len(g) : c[i] = g[i]
      /\ 1 + Len(g) \in 1 .. Len(c) /\ c[1 + Len(g)] = <<f>>[1]
      /\ \A i \in 1 .. Len(c) : \/ i \in 1 .. Len(g)
                                \/ i - Len(g) \in 1 .. 1 /\ c[i] = <<f>>[i - Len(g)]
  BY <1>0, JoinIs
<1>2. /\ \A i \in 1 .. Len(c) : c[i] = f \/ c[i].does = "arrive"
      /\ \E i \in 1 .. Len(c) : c[i] = f
  <2>1. \A i \in 1 .. Len(g) : c[i].does = "arrive" BY <1>1 DEF Arrives
  <2>2. ASSUME NEW i \in 1 .. Len(c), i \notin 1 .. Len(g) PROVE c[i] = f
    <3>1. i - Len(g) = 1 /\ c[i] = <<f>>[i - Len(g)] BY <1>1, <2>2
    <3> QED BY <3>1, <1>0
  <2>3. c[1 + Len(g)] = f BY <1>0, <1>1
  <2> QED BY <1>1, <2>1, <2>2, <2>3
<1> HIDE DEF c
<1>3. /\ v \in Seq(Frames)
      /\ \A i \in 1 .. Len(c) : i \in 1 .. Len(v) /\ v[i] = c[i]
      /\ \A i \in 1 .. Len(v) : \/ i \in 1 .. Len(c) /\ v[i] = c[i]
                                \/ i - Len(c) \in 1 .. Len(u) /\ v[i] = u[i - Len(c)]
  BY <1>1, JoinIs
<1> HIDE DEF v
<1>4. \A i \in 1 .. Len(c) : FrameSettled(e, c[i]) /\ c[i].does # "recycling"
  <2>1. FrameSettled(e, f) BY DEF FrameSettled
  <2>2. \A x : x.does = "arrive" => FrameSettled(e, x)
    BY Zenon DEF FrameSettled, FrameMild
  <2> QED BY <1>2, <2>1, <2>2
<1>5. \A i \in 1 .. Len(u) : FrameSettled(e, u[i])
  BY Zenon DEF NoWalk, FrameSettled, FrameMild
<1>6. \A i \in 1 .. Len(v) : FrameSettled(e, v[i]) BY <1>3, <1>4, <1>5
<1>7. ~NoWalk(v) BY <1>2, <1>3 DEF NoWalk
<1>8. SettledIn(e, v) BY <1>6, <1>7 DEF SettledIn
<1>9. DoomedIn(c \o u) = DoomedIn(u) BY <1>1, <1>4, DoomedJoin
<1> QED BY <1>8, <1>9 DEF v, c

LEMMA SendAdvances == Inv /\ Quiet /\ Settled /\ Send => Advances
<1> SUFFICES ASSUME Inv, Quiet, Settled, Send PROVE Advances OBVIOUS
<1> DEFINE loc == Head(task).loc
           dest == Head(task).dest
           first == db.contents[loc]
           e == ListOff(db, loc)
           walk == [does |-> "sending", loc |-> loc, dest |-> dest, first |-> first]
           D == DoomedIn(task)
           u == Tail(task)
<1>1. task # << >> /\ Head(task).does = "send" /\ db' = e /\ task' = <<walk>> \o u
  BY DEF Send, Doing, ListOff, Continue
<1>2. Good(db, D) /\ Head(task) \in Frames /\ FrameOK(db, Head(task))
  BY <1>1, HeadIs DEF Inv
<1>3. loc \in Objs /\ dest \in Objs \cup {HOME} /\ first \in Refs
  <2>1. loc \in Objs /\ dest \in Objs \cup {HOME} BY Zenon, <1>1, <1>2 DEF Frames
  <2> HIDE DEF loc
  <2> QED BY <2>1, <1>2 DEF Good, Db
<1>4. /\ u \in Seq(Frames) /\ NoWalk(u) /\ \A i \in 1 .. Len(u) : FrameSettled(db, u[i])
      /\ FrameSettled(db, Head(task)) /\ Away(db) = {} /\ db.location[Top] = NOTHING
      /\ Contained(db) /\ DoomedIn(u) = D
  BY <1>1, SettledPop
<1>5. dest # HOME => db.type[dest] \in Near
  BY Zenon, <1>1, <1>4 DEF FrameSettled, FrameMild
<1>6. walk \in Frames /\ walk.does = "sending" /\ walk.dest = dest /\ walk.first = first
  BY Zenon, <1>3 DEF Frames
<1> HIDE DEF loc, dest, walk, D, u
<1>7. PICK K \in SUBSET (Objs \ {Top}) : \E r \in [Objs -> Int] :
              Held(e, K, r, first) /\ Lifted(db, e, loc, K)
  BY <1>2, <1>3, <1>4, ListOffHeld
<1>8. InHand(e, first) /\ Lifted(db, e, loc, K) BY <1>7 DEF InHand
<1> HIDE DEF e, first
<1>9. /\ e.type = db.type
      /\ \A o \in Objs : e.location[o] = NOTHING \/ e.location[o] = db.location[o]
  BY <1>8 DEF Lifted
<1>10. Contained(e) /\ e.location[Top] = NOTHING
  <2>1. Top \in Objs BY ObjectsAssumption DEF Objs, Top
  <2>2. e.location[Top] = NOTHING BY <2>1, <1>4, <1>9
  <2>3. Contained(e) BY <1>4, <1>9 DEF Contained
  <2> QED BY <2>2, <2>3
<1>11. FrameMild(e, walk) BY <1>5, <1>6, <1>9 DEF FrameMild
<1>12. Arrives(<< >>) /\ << >> \o <<walk>> = <<walk>>
  <2>1. <<walk>> \in Seq(Frames) BY <1>6, OneFrame
  <2> QED BY <2>1, ConcatEmptySeq DEF Arrives
<1>13. /\ SettledIn(e, (<< >> \o <<walk>>) \o u)
       /\ DoomedIn((<< >> \o <<walk>>) \o u) = DoomedIn(u)
  <2>1. InHand(e, walk.first) BY <1>6, <1>8
  <2> DEFINE g == << >>
  <2>2. Arrives(g) BY <1>12
  <2> HIDE DEF g
  <2>3. /\ SettledIn(e, (g \o <<walk>>) \o u)
        /\ DoomedIn((g \o <<walk>>) \o u) = DoomedIn(u)
    BY <2>1, <2>2, <1>4, <1>6, <1>9, <1>10, <1>11, WalkOn
  <2> QED BY <2>3 DEF g
<1>14. SettledIn(e, task') /\ DoomedIn(task') = D BY <1>1, <1>4, <1>12, <1>13
<1>15. Settled' BY <1>1, <1>14, SettledFrom
<1>16. Doomed' = Doomed
  <2>1. Doomed' = DoomedIn(task') BY DoomedNext
  <2> QED BY <2>1, <1>14, DoomedIs DEF D
<1>17. PlacesGoOn
  <2>1. Lifted(db, db', loc, K) BY <1>1, <1>8
  <2> QED BY <2>1, <1>3, <1>16, LiftedPlaces
<1> QED BY <1>15, <1>17 DEF Advances

\* The next of a walk is put; the walk has the others in hand.
LEMMA HeldGoesOn ==
    ASSUME NEW d, NEW e, NEW first, first # NOTHING, InHand(d, first),
           Carried(d, e, first), NextKept(d, e, first)
    PROVE  InHand(e, d.next[first])
<1>1. PICK K \in SUBSET (Objs \ {Top}) : \E r \in [Objs -> Int] : Held(d, K, r, first)
  BY DEF InHand
<1>2. PICK r \in [Objs -> Int] : Held(d, K, r, first) BY <1>1
<1>3. Walked(d, K, r, first) /\ Follows(d, K, first) /\ Away(d) \subseteq K
  BY <1>2 DEF Held
<1>4. /\ first \in K
      /\ \A y \in K : /\ y \in Objs /\ r[y] \in Int /\ d.location[y] = NOTHING
                      /\ d.next[y] # NOTHING => d.next[y] \in K /\ r[d.next[y]] < r[y]
  BY <1>3 DEF Walked
<1>n. NOTHING \notin K BY Names
<1> DEFINE M == K \ {first}
           next == d.next[first]
<1>5. \A y \in K : y = first \/ r[y] < r[first]
  <2> DEFINE S == {y \in K : y = first \/ r[y] < r[first]}
  <2>1. S \in SUBSET K /\ first \in S BY <1>4
  <2>2. \A y \in S : d.next[y] \in K => d.next[y] \in S
    <3> SUFFICES ASSUME NEW y \in S, d.next[y] \in K PROVE d.next[y] \in S OBVIOUS
    <3>1. r[d.next[y]] < r[y] /\ d.next[y] # NOTHING BY <1>4, <1>n
    <3>2. r[d.next[y]] \in Int /\ r[y] \in Int /\ r[first] \in Int BY <1>4
    <3>3. r[d.next[y]] < r[first]
      <4>1. CASE y = first BY <4>1, <3>1
      <4>2. CASE r[y] < r[first] BY <4>2, <3>1, <3>2
      <4> QED BY <4>1, <4>2
    <3> QED BY <3>3
  <2> HIDE DEF S
  <2>3. S = K BY <2>1, <2>2, <1>3 DEF Follows
  <2> QED BY <2>3 DEF S
<1>6. \A y \in K : d.next[y] # NOTHING => d.next[y] \in M
  <2> SUFFICES ASSUME NEW y \in K, d.next[y] # NOTHING PROVE d.next[y] # first
    BY <1>4
  <2>1. r[d.next[y]] < r[y] /\ r[y] \in Int /\ r[first] \in Int BY <1>4
  <2> QED BY <2>1, <1>5
<1>7. \A y \in M : e.location[y] = d.location[y] /\ e.next[y] = d.next[y]
  BY <1>4 DEF Carried, NextKept
<1>8. Walked(e, M, r, next)
  <2>1. next \in M \cup {NOTHING} BY <1>4, <1>6
  <2>2. \A y \in M : /\ e.location[y] = NOTHING
                     /\ e.next[y] # NOTHING => e.next[y] \in M /\ r[e.next[y]] < r[y]
    BY <1>4, <1>6, <1>7
  <2> HIDE DEF M, next
  <2> QED BY <2>1, <2>2 DEF Walked
<1>9. Follows(e, M, next)
  <2> SUFFICES ASSUME NEW S \in SUBSET M, next \in M => next \in S,
                      \A y \in S : e.next[y] \in M => e.next[y] \in S
               PROVE  S = M
    BY DEF Follows
  <2> DEFINE R == S \cup {first}
  <2>1. R \in SUBSET K /\ first \in R BY <1>4
  <2>2. ASSUME NEW y \in R, d.next[y] \in K PROVE d.next[y] \in R
    <3>1. d.next[y] \in M BY <2>1, <2>2, <1>6, <1>n
    <3>2. CASE y = first BY <3>1, <3>2
    <3>3. CASE y # first BY <3>1, <3>3, <1>7
    <3> QED BY <3>2, <3>3
  <2> HIDE DEF R
  <2>3. R = K BY <2>1, <2>2, <1>3 DEF Follows
  <2> QED BY <2>3 DEF R
<1>10. Away(e) \subseteq M BY <1>3, CarriedAway
<1>11. M \in SUBSET (Objs \ {Top}) OBVIOUS
<1> HIDE DEF M, next
<1>12. Held(e, M, r, next) BY <1>8, <1>9, <1>10 DEF Held
<1> QED BY <1>11, <1>12 DEF InHand, next

LEMMA SendingAdvances == Inv /\ Inv' /\ Quiet /\ Settled /\ NothingLost' /\ Sending => Advances
<1> SUFFICES ASSUME Inv, Inv', Quiet, Settled, NothingLost', Sending PROVE Advances
  OBVIOUS
<1> DEFINE walk == Head(task)
           first == walk.first
           loc == walk.loc
           dest == walk.dest
           where == IF first \in Sticky THEN HOME ELSE dest
           fits == IF ParentLoopCheck(db, first, where) THEN loc ELSE where
           move == IF db.type[first] \notin {"thing", "program"}
                     THEN Moves(db, first, loc)
                     ELSE ThingMoves(db, first, fits)
           rest == [walk EXCEPT !.first = db.next[first]]
           c == move.then \o <<rest>>
           m == [move EXCEPT !.then = @ \o <<rest>>]
           D == DoomedIn(task)
           u == Tail(task)
<1>1. task # << >> /\ walk.does = "sending" /\ Continue(m) /\ first # NOTHING
  BY Zenon DEF Sending, Doing
<1>2. Good(db, D) /\ walk \in Frames /\ FrameOK(db, walk)
  BY Zenon, <1>1, HeadIs DEF Inv
<1>3. /\ walk \in [does : {"sending"}, loc : Objs, dest : Objs \cup {HOME}, first : Refs]
      /\ first \in Objs /\ loc \in Objs /\ dest \in Objs \cup {HOME} /\ db.next[first] \in Refs
  <2>1. walk \in [does : {"sending"}, loc : Objs, dest : Objs \cup {HOME}, first : Refs]
    BY Zenon, <1>1, <1>2 DEF Frames
  <2>2. first \in Objs BY Zenon, <1>1, <2>1 DEF Refs
  <2> QED BY <1>2, <2>1, <2>2 DEF Good, Db
<1>4. /\ u \in Seq(Frames) /\ NoWalk(u) /\ \A i \in 1 .. Len(u) : FrameSettled(db, u[i])
      /\ FrameSettled(db, walk) /\ db.location[Top] = NOTHING
      /\ Contained(db) /\ DoomedIn(u) = D
  BY Zenon, <1>1, SettledPop
<1>5. db.type[loc] \in Near /\ (dest # HOME => db.type[dest] \in Near) /\ InHand(db, first)
  BY Zenon, <1>1, <1>2, <1>4 DEF FrameSettled, FrameMild, FrameOK
<1>6. first \in Objs \ {Top} /\ db.location[first] = NOTHING
  <2>1. PICK K \in SUBSET (Objs \ {Top}) : \E r \in [Objs -> Int] : Held(db, K, r, first)
    BY <1>5 DEF InHand
  <2> QED BY Zenon, <2>1, <1>1 DEF Held, Walked
<1>7. rest \in Frames /\ rest.does = "sending" /\ rest.dest = dest /\ rest.first = db.next[first]
  BY Zenon, <1>3 DEF Frames
<1> HIDE DEF walk, D, rest, u
<1>8. Rooted(db) /\ db \in Db /\ HOME \notin Objs
  BY <1>2, RootedNow, Names DEF Good, Refs
<1>9. Bears(db, move, first) /\ Puts(db, move, first)
  <2>1. fits \in Objs \cup {HOME} /\ (fits \in Objs => db.type[fits] \in Near)
    BY <1>3, <1>5, <1>8
  <2> HIDE DEF fits
  <2>2. Bears(db, Moves(db, first, loc), first)
    BY <1>2, <1>3, <1>5, <1>6, <1>8, MovementBears
  <2>3. Bears(db, ThingMoves(db, first, fits), first)
    BY <1>2, <1>6, <1>8, <2>1, MovementBears
  <2>4. Puts(db, Moves(db, first, loc), first) /\ Puts(db, ThingMoves(db, first, fits), first)
    BY <1>3, <1>6, <1>8, MovementPuts
  <2> QED BY <2>2, <2>3, <2>4
<1> HIDE DEF move, first, dest
<1> DEFINE e == move.db
<1>10. /\ move = [db |-> move.db, then |-> move.then] /\ Carried(db, e, first)
       /\ NextKept(db, e, first) /\ Arrives(move.then)
  BY <1>9 DEF Bears, Puts
<1>11. db' = e /\ task' = c \o u
  <2>1. m = [move EXCEPT !.then = c] BY <1>10
  <2>2. Continue(m) BY <1>1
  <2> HIDE DEF m, c
  <2>3. m.db = e /\ m.then = c BY <2>1, <1>10
  <2> QED BY <2>2, <2>3 DEF Continue, u
<1> HIDE DEF e
<1>12. e.type = db.type /\ InHand(e, rest.first)
  BY <1>1, <1>5, <1>7, <1>10, HeldGoesOn DEF Carried
<1>13. FrameMild(e, rest) BY <1>5, <1>7, <1>12 DEF FrameMild
<1>14. e.location[Top] = NOTHING /\ Contained(e)
  BY <1>4, <1>10, CarriedAway, CarriedContained
<1>15. SettledIn(e, c \o u) /\ DoomedIn(c \o u) = DoomedIn(u)
  BY <1>4, <1>7, <1>10, <1>12, <1>13, <1>14, WalkOn
<1> HIDE DEF c
<1>16. Settled' BY <1>11, <1>15, SettledFrom
<1>17. Doomed' = Doomed
  <2>1. Doomed' = DoomedIn(task') BY DoomedNext
  <2> QED BY <2>1, <1>4, <1>11, <1>15, DoomedIs DEF D
<1>18. PlacesGoOn BY <1>10, <1>11, <1>17, CarriedPlaces
<1> QED BY <1>16, <1>18 DEF Advances

-----------------------------------------------------------------------------
(* The commands of the players. *)
LEMMA Nearness == \A type \in {"room", "thing", "player", "garbage"} : type \in Near
BY DEF Near, Containers

LEMMA SettledBetween ==
    ASSUME Inv, Quiet, Settled, task = << >>
    PROVE  /\ Good(db, {}) /\ db \in Db /\ Rooted(db) /\ Away(db) = {} /\ Doomed = {}
           /\ db.location[Top] = NOTHING /\ Contained(db)
<1>1. Good(db, {}) /\ db \in Db BY BetweenQuiet
<1>2. NoWalk(task) BY DEF NoWalk
<1>3. Away(db) = {} /\ db.location[Top] = NOTHING /\ Contained(db)
  BY <1>2 DEF Settled, SettledIn
<1>4. Doomed = {} BY DoomedIs, NoneDoomed
<1> QED BY <1>1, <1>3, <1>4, RootedNow

\* Mild frames recycle nothing.
LEMMA MildStartDoomed ==
    ASSUME NEW d, NEW g, Mild(d, g), task' = g
    PROVE  Doomed' = {}
<1>1. \A i \in 1 .. Len(g) : g[i].does # "recycling" BY DEF Mild, MildFrame
<1>2. DoomedIn(g) = {} BY <1>1 DEF DoomedIn
<1> QED BY <1>2, DoomedNext

\* A command that moves an object,
LEMMA BearStart ==
    ASSUME NEW name, NEW m, NEW what, Inv, Inv', Quiet, Settled, NothingLost', Does(name, m),
           Bears(db, m, what)
    PROVE  Advances
<1>1. task = << >> /\ db' = m.db /\ task' = m.then BY DEF Does, Command
<1>2. Carried(db, m.db, what) /\ Mild(db, m.then) BY DEF Bears
<1>3. Away(db) = {} /\ Doomed = {} /\ db.location[Top] = NOTHING /\ Contained(db)
  BY <1>1, SettledBetween
<1>4. Away(m.db) = {} /\ m.db.location[Top] = NOTHING /\ Contained(m.db) /\ m.db.type = db.type
  BY <1>2, <1>3, CarriedNone, CarriedContained DEF Carried
<1>5. Mild(m.db, m.then) BY Zenon, <1>2, <1>4 DEF Mild, MildFrame, FrameMild
<1>6. SettledIn(m.db, m.then) BY <1>4, <1>5, MildStart
<1>7. Settled' BY <1>1, <1>6, SettledFrom
<1>8. Doomed' = Doomed BY <1>1, <1>2, <1>3, MildStartDoomed
<1>9. Carried(db, db', what) BY <1>1, <1>2
<1>10. PlacesGoOn BY <1>8, <1>9, CarriedPlaces
<1> QED BY <1>7, <1>10 DEF Advances

\* and one that moves nothing yet.
LEMMA RestStart ==
    ASSUME NEW name, NEW m, Inv, Quiet, Settled, Does(name, m),
           m.db.type = db.type, m.db.location = db.location, Mild(db, m.then)
    PROVE  Advances
<1>1. task = << >> /\ db' = m.db /\ task' = m.then BY DEF Does, Command
<1>3. Away(db) = {} /\ Doomed = {} /\ db.location[Top] = NOTHING /\ Contained(db)
  BY <1>1, SettledBetween
<1>4. Away(m.db) = {} /\ m.db.location[Top] = NOTHING /\ Contained(m.db)
  BY <1>3 DEF Away, Contained
<1>5. Mild(m.db, m.then) BY Zenon DEF Mild, MildFrame, FrameMild
<1>6. SettledIn(m.db, m.then) BY <1>4, <1>5, MildStart
<1>7. Settled' BY <1>1, <1>6, SettledFrom
<1>8. Doomed' = Doomed BY <1>1, <1>3, MildStartDoomed
<1>9. Garbage' = Garbage /\ \A o \in Objs : db'.location[o] = db.location[o]
  BY <1>1 DEF Garbage
<1>10. PlacesGoOn BY <1>8, <1>9, PlacesRest
<1> QED BY <1>7, <1>10 DEF Advances

\* Where what is moved may be put: what is there is in a container, and droptos are such.
May(d, to) == to \in Objs \cup {HOME} /\ (to \in Objs => d.type[to] \in Near)

LEMMA LocationsMay ==
    ASSUME NEW d, Rooted(d), NEW o \in Objs, d.location[o] # NOTHING
    PROVE  May(d, d.location[o])
<1>1. d.location[o] \in Objs BY DEF Rooted, Db, Refs
<1>2. d.type[d.location[o]] \in Near BY DEF Rooted, Contained
<1> QED BY <1>1, <1>2 DEF May

LEMMA DroptosMay ==
    ASSUME NEW d, NEW D, Good(d, D), NEW o \in Objs, d.dropto[o] # NOTHING
    PROVE  May(d, d.dropto[o])
<1>1. d.dropto[o] \in Refs \cup {HOME} /\ (d.dropto[o] \in Objs => d.type[d.dropto[o]] \in {"room", "thing"})
  BY DEF Good, Db, Sound, DroptoOK
<1> QED BY <1>1, Nearness DEF May, Refs

LEMMA MayBears ==
    ASSUME NEW d, NEW D, NEW what \in Objs \ {Top}, NEW to, May(d, to), Good(d, D), Rooted(d)
    PROVE  /\ Bears(d, Moves(d, what, to), what)
           /\ to # HOME => Bears(d, Enters(d, what, to), what)
           /\ Bears(d, ThingMoves(d, what, to), what)
<1>1. to \in Objs \cup {HOME} /\ (to \in Objs => d.type[to] \in Near) BY DEF May
<1>2. to # HOME => Homed(d, what, to) BY DEF Homed
<1> QED BY <1>1, <1>2, MovementBears

LEMMA TriggerAdvances ==
    ASSUME NEW player \in Objs, NEW dest \in Objs, Inv, Inv', Quiet, Settled, NothingLost',
           Trigger(player, dest)
    PROVE  Advances
<1>1. /\ task = << >> /\ db.type[player] = "player"
      /\ \/ db.type[dest] \in {"room", "thing"} /\ Does("go", Enters(db, player, dest))
         \/ db.location[dest] # NOTHING /\ Does("go", Enters(db, player, db.location[dest]))
  BY DEF Trigger, Is, Does, Command
<1>2. Good(db, {}) /\ Rooted(db) BY <1>1, SettledBetween
<1>3. player # Top /\ HOME \notin Objs BY <1>1, <1>2, NotTop, Names DEF Refs
<1>4. \E to : May(db, to) /\ to # HOME /\ Does("go", Enters(db, player, to))
  <2>1. CASE db.type[dest] \in {"room", "thing"} /\ Does("go", Enters(db, player, dest))
    BY <1>3, <2>1, Nearness DEF May
  <2>2. CASE db.location[dest] # NOTHING /\ Does("go", Enters(db, player, db.location[dest]))
    <3>1. May(db, db.location[dest]) BY <1>2, <2>2, LocationsMay
    <3>2. db.location[dest] # HOME BY <1>2, Names DEF Rooted, Db
    <3> QED BY <2>2, <3>1, <3>2
  <2> QED BY <1>1, <2>1, <2>2
<1>5. PICK to : May(db, to) /\ to # HOME /\ Does("go", Enters(db, player, to))
  BY <1>4
<1>6. Bears(db, Enters(db, player, to), player) BY <1>2, <1>3, <1>5, MayBears
<1> QED BY <1>5, <1>6, BearStart

LEMMA SummonAdvances ==
    ASSUME NEW dest \in Objs, NEW at \in Objs, NEW sobjact \in BOOLEAN, Inv, Inv', Quiet, Settled,
           NothingLost', Summon(dest, at, sobjact)
    PROVE  Advances
<1> DEFINE to == IF Is({"thing"}, at) THEN db.location[at] ELSE at
           move == ThingMoves(db, dest, to)
           home == IF Is({"thing"}, at) /\ sobjact
                     THEN <<[does |-> "send home", thing |-> at, puppethome |-> FALSE]>> ELSE << >>
           m == [move EXCEPT !.then = @ \o home]
<1>1. /\ task = << >> /\ db.type[at] \in {"room", "thing", "player"} /\ Does("summon", m)
      /\ db.type[dest] = "thing" /\ to # NOTHING
  BY Zenon DEF Summon, Does, Command, Is
<1>2. Good(db, {}) /\ Rooted(db) BY Zenon, <1>1, SettledBetween
<1>3. May(db, to)
  <2>1. db.location[at] # NOTHING => May(db, db.location[at]) BY <1>2, LocationsMay
  <2>2. May(db, at) BY Zenon, <1>1, Nearness DEF May
  <2> QED BY Zenon, <1>1, <2>1, <2>2
<1>4. Mild(db, home)
  <2>1. CASE Is({"thing"}, at) /\ sobjact
    <3>1. db.type[at] # "room" BY <2>1 DEF Is
    <3>2. at # Top BY <1>2, <3>1, NotTop
    <3> QED BY Zenon, <2>1, <3>2, SendHomeMild
  <2>2. CASE ~(Is({"thing"}, at) /\ sobjact) BY Zenon, <2>2, MildNone
  <2> QED BY Zenon, <2>1, <2>2
<1>5. dest # Top BY Zenon, <1>1, <1>2, NotTop
<1> HIDE DEF to, home
<1>6. Bears(db, move, dest) BY <1>2, <1>3, <1>5, MayBears
<1> HIDE DEF move
<1>7. Bears(db, m, dest) BY <1>4, <1>6, BearsThen
<1> HIDE DEF m
<1> QED BY <1>1, <1>7, BearStart

LEMMA LeaveAdvances ==
    ASSUME NEW player \in Objs, Inv, Inv', Quiet, Settled, NothingLost', Leave(player)
    PROVE  Advances
<1> DEFINE dest == db.location[db.location[player]]
<1>1. /\ task = << >> /\ dest \in Objs /\ db.type[dest] \in {"room", "thing"}
      /\ Does("go", Enters(db, player, dest)) /\ db.type[player] = "player"
  BY DEF Leave, Does, Command, Is
<1>2. Good(db, {}) /\ Rooted(db) BY <1>1, SettledBetween
<1> HIDE DEF dest
<1>3. May(db, dest) /\ dest # HOME BY <1>1, Nearness, Names DEF May, Refs
<1>4. player # Top BY <1>1, <1>2, NotTop
<1>5. Bears(db, Enters(db, player, dest), player) BY <1>2, <1>3, <1>4, MayBears
<1> QED BY <1>1, <1>5, BearStart

LEMMA GetAdvances ==
    ASSUME NEW player \in Objs, NEW thing \in Objs, Inv, Inv', Quiet, Settled, NothingLost',
           Get(player, thing)
    PROVE  Advances
<1>1. /\ task = << >> /\ db.type[player] = "player" /\ db.type[thing] \in {"thing", "program"}
      /\ Does("get", ThingMoves(db, thing, player))
  BY DEF Get, Does, Command, Is
<1>2. Good(db, {}) /\ Rooted(db) BY <1>1, SettledBetween
<1>3. May(db, player) BY <1>1, Nearness DEF May
<1>4. thing # Top BY <1>1, <1>2, NotTop
<1>5. Bears(db, ThingMoves(db, thing, player), thing) BY <1>2, <1>3, <1>4, MayBears
<1> QED BY <1>1, <1>5, BearStart

LEMMA DropAdvances ==
    ASSUME NEW player \in Objs, NEW thing \in Objs, NEW cont \in Objs, Inv, Inv', Quiet, Settled,
           NothingLost', Drop(player, thing, cont)
    PROVE  Advances
<1> DEFINE dropto == db.dropto[cont]
           to == IF Is({"room"}, cont) /\ dropto # NOTHING /\ cont \notin Sticky
                   THEN dropto ELSE cont
           home == <<[does |-> "send home", thing |-> thing, puppethome |-> FALSE]>>
           m == Then(home)
<1>1. /\ task = << >> /\ db.type[cont] \in {"room", "player", "thing"}
      /\ db.type[thing] \in {"thing", "program"}
      /\ Does("drop", m) \/ Does("drop", ThingMoves(db, thing, to))
  BY Zenon DEF Drop, Does, Command, Is
<1>2. Good(db, {}) /\ Rooted(db) BY Zenon, <1>1, SettledBetween
<1>3. thing # Top BY Zenon, <1>1, <1>2, NotTop
<1>4. May(db, to)
  <2>1. dropto # NOTHING => May(db, dropto) BY <1>2, DroptosMay
  <2>2. May(db, cont) BY Zenon, <1>1, Nearness DEF May
  <2> QED BY <2>1, <2>2
<1>5. m.db = db /\ m.then = home /\ Mild(db, home)
  BY Zenon, <1>3, SendHomeMild DEF Then
<1> HIDE DEF to, m
<1>6. Bears(db, ThingMoves(db, thing, to), thing) BY <1>2, <1>3, <1>4, MayBears
<1>7. CASE Does("drop", m) BY Zenon, <1>5, <1>7, RestStart
<1>8. CASE Does("drop", ThingMoves(db, thing, to)) BY <1>6, <1>8, BearStart
<1> QED BY <1>1, <1>7, <1>8

LEMMA HomeAdvances ==
    ASSUME NEW player \in Objs, Inv, Quiet, Settled, Home(player)
    PROVE  Advances
<1> DEFINE home == <<[does |-> "send home", thing |-> player, puppethome |-> TRUE]>>
           m == Then(home)
<1>1. task = << >> /\ db.type[player] \in {"player", "thing"} /\ Does("home", m)
  BY Zenon DEF Home, Does, Command, Is
<1>2. Good(db, {}) BY Zenon, <1>1, SettledBetween
<1>3. player # Top BY Zenon, <1>1, <1>2, NotTop
<1>4. m.db = db /\ m.then = home /\ Mild(db, home)
  BY Zenon, <1>3, SendHomeMild DEF Then
<1> HIDE DEF m
<1> QED BY Zenon, <1>1, <1>4, RestStart

LEMMA TeleportAdvances ==
    ASSUME NEW victim \in Objs, NEW dest \in Objs, Inv, Inv', Quiet, Settled, NothingLost',
           Teleport(victim, dest)
    PROVE  Advances
<1> DEFINE dropto == db.dropto[dest]
           to == IF Is({"room"}, dest) /\ dropto # NOTHING /\ dest \notin Sticky
                   THEN dropto ELSE dest
<1>1. /\ task = << >> /\ db.type[dest] \in {"room", "thing", "player"}
      /\ \/ db.type[victim] # "room" \/ victim # Top
      /\ \/ Does("tel", Enters(db, victim, dest))
         \/ Does("tel", ThingMoves(db, victim, to))
         \/ Does("tel", Moves(db, victim, dest))
  BY DEF Teleport, Is, Does, Command
<1>2. Good(db, {}) /\ Rooted(db) BY <1>1, SettledBetween
<1>3. victim # Top BY <1>1, <1>2, NotTop
<1>4. May(db, to) /\ May(db, dest) /\ dest # HOME
  <2>1. dropto # NOTHING => May(db, dropto) BY <1>2, DroptosMay
  <2>2. May(db, dest) BY <1>1, Nearness DEF May
  <2>3. dest # HOME BY Names DEF Refs
  <2> QED BY <2>1, <2>2, <2>3
<1> HIDE DEF to
<1>5. /\ Bears(db, Enters(db, victim, dest), victim)
      /\ Bears(db, ThingMoves(db, victim, to), victim)
      /\ Bears(db, Moves(db, victim, dest), victim)
  BY <1>2, <1>3, <1>4, MayBears
<1>6. CASE Does("tel", Enters(db, victim, dest)) BY <1>5, <1>6, BearStart
<1>7. CASE Does("tel", ThingMoves(db, victim, to)) BY <1>5, <1>7, BearStart
<1>8. CASE Does("tel", Moves(db, victim, dest)) BY <1>5, <1>8, BearStart
<1> QED BY <1>1, <1>6, <1>7, <1>8

LEMMA LinkAdvances ==
    ASSUME NEW thing \in Objs, NEW dest \in Objs, Inv, Quiet, Settled, Link(thing, dest)
    PROVE  Advances
<1> DEFINE m == [db |-> [db EXCEPT !.home[thing] = dest], then |-> << >>]
<1>1. task = << >> /\ Does("link", m) BY DEF Link, Does, Command
<1>2. db \in Db BY <1>1, SettledBetween
<1>3. m.then = << >> /\ m.db.type = db.type /\ m.db.location = db.location
  BY <1>2 DEF Db
<1> HIDE DEF m
<1> QED BY <1>1, <1>3, MildNone, RestStart

LEMMA LinkRoomAdvances ==
    ASSUME NEW room \in Objs, NEW dest \in Objs \cup {HOME}, Inv, Quiet, Settled,
           LinkRoom(room, dest)
    PROVE  Advances
<1> DEFINE m == [db |-> [db EXCEPT !.dropto[room] = dest], then |-> << >>]
<1>1. task = << >> /\ Does("dropto", m) BY DEF LinkRoom, Does, Command
<1>2. db \in Db BY <1>1, SettledBetween
<1>3. m.then = << >> /\ m.db.type = db.type /\ m.db.location = db.location
  BY <1>2 DEF Db
<1> HIDE DEF m
<1> QED BY <1>1, <1>3, MildNone, RestStart

LEMMA UnlinkAdvances ==
    ASSUME NEW thing \in Objs, Inv, Quiet, Settled, Unlink(thing)
    PROVE  Advances
<1> DEFINE owner == [db |-> [db EXCEPT !.home[thing] = db.owner[thing]], then |-> << >>]
           start == [db |-> [db EXCEPT !.home[thing] = tp_player_start], then |-> << >>]
           none == [db |-> [db EXCEPT !.dropto[thing] = NOTHING], then |-> << >>]
<1>1. Does("unlink", owner) \/ Does("unlink", start) \/ Does("unlink", none)
  BY DEF Unlink
<1>2. db \in Db BY <1>1, SettledBetween DEF Does, Command
<1>3. /\ owner.then = << >> /\ owner.db.type = db.type /\ owner.db.location = db.location
      /\ start.then = << >> /\ start.db.type = db.type /\ start.db.location = db.location
      /\ none.then = << >> /\ none.db.type = db.type /\ none.db.location = db.location
  BY <1>2 DEF Db
<1> HIDE DEF owner, start, none
<1>4. Does("unlink", owner) => Advances BY <1>3, MildNone, RestStart
<1>5. Does("unlink", start) => Advances BY <1>3, MildNone, RestStart
<1>6. Does("unlink", none) => Advances BY <1>3, MildNone, RestStart
<1> QED BY <1>1, <1>4, <1>5, <1>6

\* What is made is put somewhere, into a container.
Complete(d) == Away(d) = {} /\ d.location[Top] = NOTHING /\ Contained(d)

LEMMA MadeSettles ==
    ASSUME NEW d, NEW e, NEW type, NEW location, NEW home, NEW owner, Good(d, {}),
           NothingIn(d, {}), MayMake(d, type, location, home, owner),
           Made(d, e, type, location, home, owner), Complete(d), d.type[location] \in Near
    PROVE  /\ Complete(e) /\ d.recyclable \in Objs \ {Top} /\ d.type[d.recyclable] = "garbage"
           /\ \A o \in Objs : e.type[o] = IF o = d.recyclable THEN type ELSE d.type[o]
           /\ \A o \in Objs : e.location[o] = IF o = d.recyclable THEN location ELSE d.location[o]
<1> DEFINE new == d.recyclable
<1>0. d \in Db /\ location \in Objs /\ d.type[location] # "garbage" /\ type # "garbage"
      /\ new \in Objs /\ d.type[Top] = "room" /\ Top \in Objs /\ NOTHING \notin Objs
  <2>1. Top \in Objs BY ObjectsAssumption DEF Objs, Top
  <2> QED BY <2>1, Names DEF Good, Sound, Fixed, MayMake
<1>1. /\ \A o \in Objs : e.type[o] = IF o = new THEN type ELSE d.type[o]
      /\ \A o \in Objs : e.location[o] = IF o = new THEN location ELSE d.location[o]
  <2>1. /\ d.type \in [Objs -> Types] /\ d.location \in [Objs -> Refs]
    BY <1>0 DEF Db
  <2> QED BY <2>1 DEF Made
<1>2. d.type[new] = "garbage"
  <2>1. PICK h : Threaded(d, h) /\ Placed(d, h, {}) BY DEF Good, InPlace
  <2> QED BY <1>0, <2>1, NewThreads
<1> HIDE DEF new
<1>3. new # Top /\ location # new BY <1>0, <1>2
<1>4. Away(e) = {} /\ e.location[Top] = NOTHING
  BY <1>0, <1>1, <1>2, <1>3 DEF Away, Complete
<1>5. Contained(e)
  <2> SUFFICES ASSUME NEW o \in Objs, e.location[o] # NOTHING PROVE e.type[e.location[o]] \in Near
    BY DEF Contained
  <2>1. CASE o = new BY <2>1, <1>0, <1>1, <1>3
  <2>2. CASE o # new
    <3>1. d.location[o] = e.location[o] /\ d.location[o] \in Objs /\ d.type[d.location[o]] \in Near
      BY <2>2, <1>0, <1>1 DEF Complete, Contained, Db, Refs
    <3>2. d.location[o] # new BY <1>0, <1>2 DEF NothingIn
    <3> QED BY <3>1, <3>2, <1>1
  <2> QED BY <2>1, <2>2
<1> QED BY <1>0, <1>1, <1>2, <1>3, <1>4, <1>5 DEF Complete, new

\* As a step of Places.
LEMMA MadeGoesOn ==
    ASSUME NEW type, NEW location, NEW home, NEW owner, Good(db, {}), NothingIn(db, {}),
           MayMake(db, type, location, home, owner), Complete(db), db.type[location] \in Near,
           Made(db, db', type, location, home, owner), Doomed = {}, Doomed' = {}
    PROVE  PlacesGoOn
<1>1. PICK e : e = db' OBVIOUS
<1>2. PICK new : new = db.recyclable OBVIOUS
<1>3. /\ new \in Objs /\ db.type[new] = "garbage"
      /\ \A o \in Objs : db'.type[o] = IF o = new THEN type ELSE db.type[o]
      /\ \A o \in Objs : db'.location[o] = IF o = new THEN location ELSE db.location[o]
  BY <1>1, <1>2, MadeSettles
<1>4. location \in Objs /\ db.type[location] # "garbage" /\ type # "garbage"
  BY DEF MayMake
<1>5. Garbage' = Garbage \ {new} BY <1>3, <1>4 DEF Garbage
<1> QED BY <1>3, <1>4, <1>5, MadePlaces

LEMMA CreateAdvances ==
    ASSUME NEW player \in Objs, NEW type \in {"thing", "program"}, NEW home \in Refs,
           Inv, Quiet, Settled, Create(player, type, home)
    PROVE  Advances
<1>1. /\ Good(db, {}) /\ NothingIn(db, {}) /\ MayMake(db, type, player, home, player)
      /\ Made(db, db', type, player, home, player) /\ task' = << >>
  BY CreateMakes, QuietLosesNothing
<1>2. task = << >> /\ db.type[player] = "player" BY DEF Create, Is, Does, Command
<1>3. Complete(db) /\ Doomed = {} BY <1>2, SettledBetween DEF Complete
<1>4. db.type[player] \in Near BY <1>2, Nearness
<1>5. Doomed' = {} BY <1>1, DoomedNext, NoneDoomed
<1>6. PICK e : e = db' OBVIOUS
<1>7. Complete(e) BY <1>1, <1>3, <1>4, <1>6, MadeSettles
<1>8. SettledIn(e, << >>) BY <1>7, MildNone, MildStart DEF Complete
<1>9. Settled' BY <1>1, <1>6, <1>8, SettledFrom
<1>10. PlacesGoOn BY <1>1, <1>3, <1>4, <1>5, MadeGoesOn
<1> QED BY <1>9, <1>10 DEF Advances

LEMMA DigAdvances ==
    ASSUME NEW player \in Objs, NEW parent \in Objs, Inv, Quiet, Settled, Dig(player, parent)
    PROVE  Advances
<1> DEFINE f == [does |-> "moveto", what |-> db.recyclable, where |-> parent]
<1>1. /\ Good(db, {}) /\ NothingIn(db, {}) /\ MayMake(db, "room", Top, NOTHING, player)
      /\ Made(db, db', "room", Top, NOTHING, player) /\ task' = <<f>>
  BY DigMakes, QuietLosesNothing
<1>2. task = << >> /\ db.type[parent] \in {"room", "thing"}
  BY DEF Dig, Is, Does, Command
<1>3. Complete(db) /\ Doomed = {} BY <1>2, SettledBetween DEF Complete
<1>4. db.type[Top] \in Near BY <1>1, Nearness DEF Good, Sound, Fixed
<1>6. PICK e : e = db' OBVIOUS
<1>7. /\ Complete(e) /\ db.recyclable \in Objs \ {Top} /\ db.type[db.recyclable] = "garbage"
      /\ \A o \in Objs : e.type[o] = IF o = db.recyclable THEN "room" ELSE db.type[o]
  BY <1>1, <1>3, <1>4, <1>6, MadeSettles
<1>8. f \in Frames /\ f.does = "moveto" /\ f.what # Top /\ e.type[f.where] \in {"room", "thing"}
  BY Zenon, <1>2, <1>7 DEF Frames
<1> HIDE DEF f
<1>9. MildFrame(e, f) BY <1>8, Nearness DEF MildFrame, FrameMild
<1>10. Mild(e, <<f>>) BY <1>8, <1>9, MildOne
<1>11. SettledIn(e, <<f>>) BY <1>7, <1>10, MildStart DEF Complete
<1>12. Settled' BY <1>1, <1>6, <1>11, SettledFrom
<1>13. Doomed' = {} BY <1>1, <1>10, MildStartDoomed
<1>14. PlacesGoOn BY <1>1, <1>3, <1>4, <1>13, MadeGoesOn
<1> QED BY <1>12, <1>14 DEF Advances

LEMMA DoRecycleAdvances ==
    ASSUME NEW thing \in Objs, Inv, Quiet, Settled, DoRecycle(thing)
    PROVE  Advances
<1> DEFINE f == [does |-> "recycling", thing |-> thing, last |-> NOTHING, looplimit |-> db_top]
           e == Unlinked(db, thing)
           c == <<f>>
<1>1. /\ Goes(db, thing) /\ task = << >> /\ db' = e /\ task' = c
      /\ db.type[thing] \in {"room", "thing", "program"}
  BY DEF DoRecycle, MayRecycle, Is, Goes, Does, Command, Recycle
<1>2. Good(db, {}) /\ Complete(db) /\ Doomed = {}
  BY <1>1, SettledBetween DEF Complete
<1>3. Partly(db, e, {}, thing, db_top) BY <1>1, <1>2, UnlinkedMakes DEF Good
<1> HIDE DEF e
<1>4. e.type = db.type /\ e.location = db.location BY <1>3 DEF Partly
<1>5. f \in Frames /\ f.does = "recycling" /\ f.thing = thing
  <2>1. NOTHING \in Refs /\ db_top \in 0 .. db_top BY ObjectsAssumption DEF Refs
  <2> QED BY Zenon, <2>1 DEF Frames
<1> HIDE DEF f
<1>6. Complete(e) BY <1>2, <1>4 DEF Complete, Away, Contained
<1>7. Len(c) = 1 /\ c[1] = f BY <1>5, OneFrame
<1> HIDE DEF c
<1>8. \A i \in 1 .. Len(c) : c[i] = f BY <1>7
<1>9. SettledIn(e, c)
  <2>1. FrameSettled(e, f) BY <1>5 DEF FrameSettled, FrameMild
  <2> QED BY <2>1, <1>6, <1>8 DEF SettledIn, Complete
<1>10. Settled' BY <1>1, <1>9, SettledFrom
<1>11. Doomed' = {thing}
  <2>1. DoomedIn(c) = {thing}
    <3>1. 1 \in 1 .. Len(c) BY <1>7
    <3> QED BY <3>1, <1>5, <1>8 DEF DoomedIn
  <2> QED BY <2>1, <1>1, DoomedNext
<1>12. Garbage' = Garbage /\ thing \notin Garbage BY <1>1, <1>4 DEF Garbage
<1>13. PlacesGoOn BY <1>1, <1>2, <1>4, <1>11, <1>12, QuietLosesNothing, BegunPlaces
<1> QED BY <1>10, <1>13 DEF Advances

LEMMA ToadAdvances ==
    ASSUME NEW player \in Objs, NEW victim \in Objs, NEW recipient \in Objs, Inv, Quiet, Settled,
           Toad(player, victim, recipient)
    PROVE  Advances
<1> DEFINE send == [does |-> "send", loc |-> victim, dest |-> HOME]
           toad == [does |-> "toad", what |-> victim, by |-> player, recipient |-> recipient]
           u == <<send, toad>>
           m == [db |-> db, then |-> u]
<1>1. Does("toad", m) BY DEF Toad
<1>2. send \in Frames /\ toad \in Frames /\ MildFrame(db, send) /\ MildFrame(db, toad)
  BY Zenon DEF Frames, MildFrame, FrameMild
<1> HIDE DEF send, toad
<1>3. Mild(db, u) BY <1>2, MildTwo
<1>4. m.db = db /\ m.then = u OBVIOUS
<1> HIDE DEF m, u
<1> QED BY <1>1, <1>3, <1>4, RestStart

LEMMA NextAdvances ==
    ASSUME Alone, Inv, Inv', Quiet, Settled, NothingLost', [Next]_vars
    PROVE  Settled' /\ PlacesGoOn
<1> SUFFICES Advances BY DEF Advances
<1>1. CASE PlayerActs
  <2>1. ASSUME NEW a \in Objs, NEW b \in Objs, Trigger(a, b) PROVE Advances
    BY <2>1, TriggerAdvances
  <2>2. ASSUME NEW a \in Objs, NEW b \in Objs, Get(a, b) PROVE Advances
    BY <2>2, GetAdvances
  <2>3. ASSUME NEW a \in Objs, NEW b \in Objs, Teleport(a, b) PROVE Advances
    BY <2>3, TeleportAdvances
  <2>4. ASSUME NEW a \in Objs, NEW b \in Objs, Dig(a, b) PROVE Advances
    BY <2>4, DigAdvances
  <2>5. ASSUME NEW a \in Objs, NEW b \in Objs, Link(a, b) PROVE Advances
    BY <2>5, LinkAdvances
  <2>6. ASSUME NEW a \in Objs, NEW b \in Objs, NEW c \in Objs, Drop(a, b, c) PROVE Advances
    BY <2>6, DropAdvances
  <2>7. ASSUME NEW a \in Objs, NEW b \in Objs, NEW c \in Objs, Toad(a, b, c) PROVE Advances
    BY <2>7, ToadAdvances
  <2>8. ASSUME NEW a \in Objs, NEW b \in Objs, NEW sobjact \in BOOLEAN, Summon(a, b, sobjact)
        PROVE  Advances
    BY <2>8, SummonAdvances
  <2>9. ASSUME NEW a \in Objs, Leave(a) PROVE Advances BY <2>9, LeaveAdvances
  <2>10. ASSUME NEW a \in Objs, Home(a) PROVE Advances BY <2>10, HomeAdvances
  <2>11. ASSUME NEW a \in Objs, DoRecycle(a) PROVE Advances
    BY <2>11, DoRecycleAdvances
  <2>12. ASSUME NEW a \in Objs, Unlink(a) PROVE Advances BY <2>12, UnlinkAdvances
  <2>13. ASSUME NEW a \in Objs, NEW b \in Objs \cup {HOME}, LinkRoom(a, b) PROVE Advances
    BY <2>13, LinkRoomAdvances
  <2>14. ASSUME NEW a \in Objs, NEW type \in {"thing", "program"}, NEW home \in Refs,
                Create(a, type, home)
         PROVE  Advances
    BY <2>14, CreateAdvances
  <2> QED
    BY <1>1, <2>1, <2>2, <2>3, <2>4, <2>5, <2>6, <2>7, <2>8, <2>9, <2>10, <2>11, <2>12,
       <2>13, <2>14 DEF PlayerActs
<1>2. CASE Step
  BY <1>2, SendAdvances, SendingAdvances, SentAdvances, EnterAdvances, MoveOnAdvances,
     SendHomeAdvances, DepartAdvances, ArriveAdvances, RecyclingAdvances, RecycledAdvances,
     ToadedAdvances DEF Step
<1>3. CASE ProgramActs BY <1>3 DEF ProgramActs, ProgramMoves, ProgramRecycles, Alone
<1>4. CASE UNCHANGED vars
  <2>1. db' = db /\ task' = task BY <1>4 DEF vars
  <2>2. SettledIn(db, task) BY DEF Settled
  <2>3. Settled' BY <2>1, <2>2, SettledFrom
  <2>4. Doomed' = Doomed BY <2>1, DoomedNext, DoomedIs
  <2>5. Garbage' = Garbage /\ \A o \in Objs : db'.location[o] = db.location[o]
    BY <2>1 DEF Garbage
  <2> QED BY <2>3, <2>4, <2>5, PlacesRest DEF Advances
<1> QED BY <1>1, <1>2, <1>3, <1>4 DEF Next

LEMMA InitSettles == Init => Settled /\ P!Init
<1> SUFFICES ASSUME Init PROVE Settled /\ P!Init OBVIOUS
<1>1. db = First /\ task = << >> BY DEF Init, First
<1>2. db.type = Type0 /\ db.location = Location0 /\ Doomed = {}
  BY <1>1, FirstIs, DoomedIs, NoneDoomed
<1>3. Top \in Objs /\ NOTHING \notin Objs /\ Location0 \in [Objs -> Refs]
  BY ObjectsAssumption, FirstAssumption, Names DEF Objs, Top
<1>4. \A o \in Objs : Location0[o] # NOTHING
                      => Location0[o] \in Objs /\ Type0[Location0[o]] \in Containers
  BY <1>3, FirstAssumption DEF Refs
<1>5. Away(db) = {} /\ db.location[Top] = NOTHING BY <1>2, FirstTree DEF Away
<1>6. Contained(db) BY <1>2, <1>4 DEF Contained, Near
<1>7. Settled BY <1>1, <1>5, <1>6, MildNone, MildStart DEF Settled
<1>8. At = Location0
  <2>1. \A o \in Objs : At[o] = Location0[o] BY <1>2 DEF At
  <2>2. At = [o \in Objs |-> At[o]] BY DEF At
  <2> QED BY <1>3, <2>1, <2>2
<1>9. Garbage = {o \in Objs : Type0[o] = "garbage"} BY <1>2 DEF Garbage
<1>10. P!TypeOK BY <1>3, <1>8, PlacesAre DEF Live
<1>11. P!Acyclic BY <1>8, FirstTree, PlacesAre DEF Forest
<1>12. P!GarbageIsOut
  <2>1. ASSUME NEW o \in Objs
        PROVE  Location0[o] \in Live \cup {NOTHING} /\ (o \notin Live => Location0[o] = NOTHING)
    <3>1. Location0[o] # NOTHING => Location0[o] \in Live
      BY <1>4, <1>9 DEF Live, Containers
    <3>2. o \notin Live => Location0[o] = NOTHING BY <1>9, FirstAssumption DEF Live
    <3> QED BY <3>1, <3>2
  <2> QED BY <1>8, <2>1, PlacesAre DEF Out
<1>13. Top \in Objs \ Garbage BY <1>3, <1>9, FirstAssumption
<1>14. P!Init BY <1>10, <1>11, <1>12, <1>13 DEF P!Init
<1> QED BY <1>7, <1>14

\* What a step of Spec does.
LEMMA NextSettles ==
    ASSUME Alone, Inv, Quiet, Settled, [Next]_vars
    PROVE  Inv' /\ Quiet' /\ Settled' /\ PlacesGoOn
<1>1. Quiet' BY NextQuiet
<1>2. NothingLost /\ NothingLost'
  <2>1. Quiet' => NothingLost' BY QuietLosesNothing, PTL
  <2> QED BY <1>1, <2>1, QuietLosesNothing
<1>4. Inv' BY <1>2, NextKeeps
<1> QED BY <1>1, <1>2, <1>4, NextAdvances

LEMMA AloneSettled == ASSUME Alone PROVE Spec => [](Inv /\ Quiet /\ Settled)
<1>1. Init => Inv /\ Quiet /\ Settled BY InitKeeps, InitQuiet, InitSettles
<1>2. Inv /\ Quiet /\ Settled /\ [Next]_vars => (Inv /\ Quiet /\ Settled)'
  BY NextSettles
<1> QED BY <1>1, <1>2, PTL DEF Spec

-----------------------------------------------------------------------------
(* What everything comes to. *)
Somewhere == task = << >> => \A o \in Objs \ Garbage : o = Top \/ db.location[o] # NOTHING

(* Whatever players do: when a command is done, every object that is there  *)
(* is somewhere, and room 0 alone is nowhere. What send_contents() takes    *)
(* off a list it puts back or elsewhere to the last, and moveto() finds a   *)
(* place for all that cannot go where it should.                            *)
THEOREM EverythingIsSomewhere == ASSUME Alone PROVE Spec => []Somewhere
<1>1. Settled => Somewhere
  <2> SUFFICES ASSUME Settled, task = << >> PROVE \A o \in Objs \ Garbage : o = Top \/ db.location[o] # NOTHING
    BY DEF Somewhere
  <2>1. Away(db) = {} BY DEF Settled, SettledIn, NoWalk
  <2> QED BY <2>1 DEF Away, Garbage
<1> QED BY <1>1, AloneSettled, PTL

\* As long as rooms are in rooms only, every step is one of Places, or none.
LEMMA RoomyImplementsPlaces ==
    ASSUME Alone PROVE Spec /\ []RoomsInRooms => ImplementsPlaces
<1>1. Init => P!Init BY InitSettles
<1>2. Inv /\ Quiet /\ Settled /\ RoomsInRooms /\ [Next]_vars => [P!Next]_(P!vars)
  BY NextSettles DEF PlacesGoOn
<1>3. Spec => [](Inv /\ Quiet /\ Settled) BY AloneSettled
<1> QED BY <1>1, <1>2, <1>3, PTL DEF Spec, ImplementsPlaces, P!Spec

\* The way of the model is that way.
LEMMA UpIs ==
    ASSUME db.location \in [Objs -> Refs], NEW o \in Objs
    PROVE  \E g : OnTheWay(db.location, o, db_top, g) /\ Up(o)[db_top] = g[db_top]
<1>0. db_top \in Nat /\ db_top \in 0 .. db_top BY ObjectsAssumption
<1> USE <1>0
<1>1. PICK g : OnTheWay(db.location, o, db_top, g) BY ObjectsAssumption, WayUp DEF Refs
<1>2. /\ g \in [0 .. db_top -> Refs] /\ g[0] = o
      /\ \A i \in 1 .. db_top : g[i] = IF g[i - 1] \in {NOTHING, Top} THEN g[i - 1]
                                       ELSE db.location[g[i - 1]]
  BY <1>1 DEF OnTheWay
<1> DEFINE Rec(a) == [n \in 0 .. db_top |->
                        IF n = 0 THEN o
                        ELSE LET o1 == a[n - 1]
                             IN IF o1 \in {NOTHING, Top} THEN o1 ELSE db.location[o1]]
           at == CHOOSE a : a = Rec(a)
<1>3. g = Rec(g)
  <2>1. ASSUME NEW n \in 0 .. db_top PROVE g[n] = Rec(g)[n]
    <3>1. CASE n = 0 BY <1>2, <3>1
    <3>2. CASE n # 0
      <4>1. n \in 1 .. db_top BY <3>2
      <4> QED BY <4>1, <3>2, <1>2
    <3> QED BY <3>1, <3>2
  <2> QED BY <2>1, <1>2
<1>4. at = Rec(at) BY <1>3, Zenon
<1>5. Up(o) = at BY DEF Up
<1> HIDE DEF at
<1>6. at[0] = o BY <1>4
<1>7. ASSUME NEW n \in 1 .. db_top, at[n - 1] = g[n - 1]
      PROVE  at[n] = g[n]
  <2>1. n \in 0 .. db_top /\ n # 0 OBVIOUS
  <2>2. at[n] = IF at[n - 1] \in {NOTHING, Top} THEN at[n - 1] ELSE db.location[at[n - 1]]
    BY <1>4, <2>1
  <2> QED BY <2>2, <1>2, <1>7
<1>8. \A n \in 0 .. db_top : at[n] = g[n]
  <2> DEFINE Bad == {n \in 0 .. db_top : at[n] # g[n]}
  <2>1. SUFFICES ASSUME Bad # {} PROVE FALSE OBVIOUS
  <2>2. PICK m \in Bad : \A k \in Bad : m <= k
    <3>1. Bad \in SUBSET Nat OBVIOUS
    <3> QED BY <2>1, <3>1, LeastNat, Zenon
  <2>3. m \in 1 .. db_top /\ m - 1 \in 0 .. db_top /\ m - 1 \notin Bad
    BY <2>2, <1>2, <1>6
  <2>4. at[m - 1] = g[m - 1] /\ at[m] # g[m] BY <2>2, <2>3
  <2> QED BY <1>7, <2>3, <2>4
<1> QED BY <1>1, <1>5, <1>8

\* Where nothing is inside itself and all of L is in some of L, every way of L
\* ends at the top: it cannot meet an object twice.
LEMMA WayEnds ==
    ASSUME NEW f \in [Objs -> Refs], Forest(f), NEW L \in SUBSET Objs,
           \A x \in L : x = Top \/ f[x] \in L,
           NEW o \in L, NEW g, OnTheWay(f, o, db_top, g)
    PROVE  g[db_top] = Top
<1>0. db_top \in Nat /\ db_top \in 0 .. db_top BY ObjectsAssumption
<1> USE <1>0
<1>n. NOTHING \notin L /\ NOTHING # Top BY Names DEF Top, NOTHING
<1>1. /\ g \in [0 .. db_top -> Refs] /\ g[0] = o
      /\ \A i \in 1 .. db_top : g[i] = IF g[i - 1] \in {NOTHING, Top} THEN g[i - 1]
                                       ELSE f[g[i - 1]]
  BY DEF OnTheWay
<1>2. \A i \in 0 .. db_top : g[i] \in L
  <2> DEFINE Bad == {n \in 0 .. db_top : g[n] \notin L}
  <2>1. SUFFICES ASSUME Bad # {} PROVE FALSE OBVIOUS
  <2>2. PICK m \in Bad : \A k \in Bad : m <= k
    <3>1. Bad \in SUBSET Nat OBVIOUS
    <3> QED BY <2>1, <3>1, LeastNat, Zenon
  <2>3. m \in 1 .. db_top /\ m - 1 \in 0 .. db_top /\ m - 1 \notin Bad BY <2>2, <1>1
  <2>4. g[m - 1] \in L /\ g[m] \notin L BY <2>2, <2>3
  <2> QED BY <2>3, <2>4, <1>1, <1>n
<1>3. \E i \in 0 .. db_top : g[i] = Top
  <2> SUFFICES ASSUME \A i \in 0 .. db_top : g[i] # Top PROVE FALSE OBVIOUS
  <2>1. g \in [0 .. db_top -> Objs] BY <1>1, <1>2
  <2>2. \A i \in 1 .. db_top : g[i] = f[g[i - 1]]
    <3> TAKE i \in 1 .. db_top
    <3>1. i - 1 \in 0 .. db_top OBVIOUS
    <3> QED BY <3>1, <1>1, <1>2, <1>n
  <2>3. PICK i \in 0 .. db_top, j \in 0 .. db_top : i < j /\ g[i] = g[j]
    <3>1. IsFiniteSet(0 .. db_top) /\ Cardinality(0 .. db_top) = db_top + 1
      BY FS_Interval
    <3>2. Cardinality(Objs) < Cardinality(0 .. db_top) BY <3>1, ObjsFinite
    <3>3. PICK i \in 0 .. db_top, j \in 0 .. db_top : i # j /\ g[i] = g[j]
      BY <2>1, <3>1, <3>2, ObjsFinite, FS_PigeonHole
    <3>4. i < j \/ j < i BY <3>3
    <3> QED BY <3>3, <3>4
  <2> DEFINE S == {g[m] : m \in i .. j - 1}
  <2>4. S \in (SUBSET Objs) \ {{}} /\ g[i] \in S
    <3>1. i \in i .. j - 1 /\ \A m \in i .. j - 1 : m \in 0 .. db_top BY <2>3
    <3> QED BY <3>1, <2>1
  <2>5. ASSUME NEW x \in S PROVE f[x] \in S
    <3>1. PICK m \in i .. j - 1 : x = g[m] BY <2>5
    <3>2. m + 1 \in 1 .. db_top /\ (m + 1) - 1 = m BY <2>3
    <3>3. g[m + 1] = f[x] BY <3>1, <3>2, <2>2
    <3>4. CASE m + 1 = j BY <3>3, <3>4, <2>3, <2>4
    <3>5. CASE m + 1 # j
      <4>1. m + 1 \in i .. j - 1 BY <3>5, <2>3
      <4> QED BY <4>1, <3>3
    <3> QED BY <3>4, <3>5
  <2> HIDE DEF S
  <2> QED BY <2>4, <2>5 DEF Forest
<1>4. PICK k \in 0 .. db_top : g[k] = Top BY <1>3
<1>5. \A i \in k .. db_top : g[i] = Top
  <2> DEFINE Bad == {n \in k .. db_top : g[n] # Top}
  <2>1. SUFFICES ASSUME Bad # {} PROVE FALSE OBVIOUS
  <2>2. PICK m \in Bad : \A l \in Bad : m <= l
    <3>1. Bad \in SUBSET Nat OBVIOUS
    <3> QED BY <2>1, <3>1, LeastNat, Zenon
  <2>3. m \in 1 .. db_top /\ m - 1 \in k .. db_top /\ m - 1 \notin Bad BY <2>2, <1>4
  <2>4. g[m - 1] = Top /\ g[m] # Top BY <2>2, <2>3
  <2> QED BY <2>3, <2>4, <1>1
<1> QED BY <1>5

LEMMA SettledWay == Inv /\ Quiet /\ Settled /\ P!Acyclic => WayToTop
<1> SUFFICES ASSUME Inv, Quiet, Settled, P!Acyclic, task = << >>, NEW o \in Objs \ Garbage
             PROVE  Up(o)[db_top] = Top
  BY DEF WayToTop
<1>1. db \in Db /\ NothingIn(db, {}) /\ Away(db) = {} /\ Doomed = {}
  BY SettledBetween, BetweenQuiet
<1>2. db.location \in [Objs -> Refs] BY <1>1 DEF Db
<1>3. Forest(db.location)
  <2>1. \A x \in Objs : At[x] = db.location[x] BY <1>1 DEF At
  <2>2. Forest(At) BY PlacesAre
  <2> QED BY <2>1, <2>2 DEF Forest
<1>4. \A x \in Objs \ Garbage : x = Top \/ db.location[x] \in Objs \ Garbage
  <2> SUFFICES ASSUME NEW x \in Objs \ Garbage, x # Top PROVE db.location[x] \in Objs \ Garbage
    OBVIOUS
  <2>1. db.location[x] \in Objs BY <1>1, <1>2 DEF Away, Garbage, Refs
  <2> QED BY <2>1, <1>1 DEF NothingIn, Garbage
<1>5. PICK g : OnTheWay(db.location, o, db_top, g) /\ Up(o)[db_top] = g[db_top]
  BY <1>2, UpIs
<1>6. PICK L \in SUBSET Objs : L = Objs \ Garbage OBVIOUS
<1>7. o \in L /\ \A x \in L : x = Top \/ db.location[x] \in L BY <1>4, <1>6
<1> QED BY <1>2, <1>3, <1>5, <1>7, WayEnds

\* Then every object that is there finds its way to room 0.
LEMMA RoomyFindsItsWay ==
    ASSUME Alone PROVE Spec /\ []RoomsInRooms => []WayToTop
<1>1. Spec => [](Inv /\ Quiet /\ Settled) BY AloneSettled
<1>2. Spec /\ []RoomsInRooms => P!Spec BY RoomyImplementsPlaces DEF ImplementsPlaces
<1> QED BY <1>1, <1>2, PlacesStayATree, SettledWay, PTL

-----------------------------------------------------------------------------
(* Where rooms go. Only @dig puts a room into a thing, when its parent is one. *)
DigsIntoRooms == Doing("moveto") => db.type[Head(task).where] = "room"

\* What a movement changes of where things are: where one object is.
IsRecord(d) == d = [type |-> d.type, location |-> d.location, contents |-> d.contents,
                    next |-> d.next, home |-> d.home, owner |-> d.owner,
                    dropto |-> d.dropto, recyclable |-> d.recyclable]
OnlyMoves(d, e, what) ==
    /\ e.type = d.type
    /\ \A o \in Objs : o # what => e.location[o] = d.location[o]

LEMMA RemovedRecord ==
    ASSUME NEW d, IsRecord(d), NEW loc, NEW what
    PROVE  /\ IsRecord(RemoveContent(d, loc, what))
           /\ RemoveContent(d, loc, what).type = d.type
           /\ RemoveContent(d, loc, what).location = d.location
<1> DEFINE list == List(d, d.contents[loc])
           prevs == {n \in 1 .. db_top : list[n - 1] # NOTHING /\ list[n] = what}
           p == list[Min(prevs) - 1]
           c == [d.contents EXCEPT ![loc] = d.next[what]]
           n == [d.next EXCEPT ![p] = d.next[what]]
           e == RemoveContent(d, loc, what)
<1>1. e = [d EXCEPT !.contents = c] \/ e = [d EXCEPT !.next = n] \/ e = d
  BY DEF RemoveContent
<1> HIDE DEF c, n, e
<1>2. [d EXCEPT !.contents = c] =
         [type |-> d.type, location |-> d.location, contents |-> c, next |-> d.next,
          home |-> d.home, owner |-> d.owner, dropto |-> d.dropto, recyclable |-> d.recyclable]
  BY DEF IsRecord
<1>3. [d EXCEPT !.next = n] =
         [type |-> d.type, location |-> d.location, contents |-> d.contents, next |-> n,
          home |-> d.home, owner |-> d.owner, dropto |-> d.dropto, recyclable |-> d.recyclable]
  BY DEF IsRecord
<1>4. IsRecord(e) /\ e.type = d.type /\ e.location = d.location
  BY <1>1, <1>2, <1>3 DEF IsRecord
<1> QED BY <1>4 DEF e

LEMMA PushedRecord ==
    ASSUME NEW d, IsRecord(d), NEW what, NEW where
    PROVE  Push(d, what, where).type = d.type /\ Push(d, what, where).location = d.location
           /\ IsRecord(Push(d, what, where))
<1> DEFINE n == [d.next EXCEPT ![what] = d.contents[where]]
           c == [d.contents EXCEPT ![where] = what]
           m == [d EXCEPT !.next = n]
<1>1. Push(d, what, where) = [m EXCEPT !.contents = c]
  <2>1. m.contents = d.contents BY DEF IsRecord
  <2> QED BY <2>1 DEF Push, IsRecord
<1> HIDE DEF n, c
<1>2. m = [type |-> d.type, location |-> d.location, contents |-> d.contents, next |-> n,
           home |-> d.home, owner |-> d.owner, dropto |-> d.dropto, recyclable |-> d.recyclable]
  BY DEF IsRecord
<1> HIDE DEF m
<1>3. [m EXCEPT !.contents = c] =
          [type |-> d.type, location |-> d.location, contents |-> c, next |-> n,
           home |-> d.home, owner |-> d.owner, dropto |-> d.dropto, recyclable |-> d.recyclable]
  BY <1>2
<1> QED BY <1>1, <1>3 DEF IsRecord

LEMMA MovetoOnly ==
    ASSUME NEW d \in Db, NEW what \in Objs, NEW where
    PROVE  /\ OnlyMoves(d, Moveto(d, what, where), what)
           /\ \/ Moveto(d, what, where).location[what] = d.location[what]
              \/ where = NOTHING
              \/ where # HOME /\ Moveto(d, what, where).location[what] = where
              \/ \E out : /\ Moveto(d, what, where).location[what] = Fallback(out, what)
                          /\ out.type = d.type
<1> DEFINE out == IF d.location[what] = NOTHING THEN d
                  ELSE RemoveContent(d, d.location[what], what)
           to == IF where = HOME \/ ParentLoopCheck(out, what, where)
                   THEN Fallback(out, what) ELSE where
           e == Moveto(d, what, where)
<1>1. IsRecord(d) /\ d.location \in [Objs -> Refs] BY DEF Db, IsRecord
<1>2. IsRecord(out) /\ out.type = d.type /\ out.location = d.location
  BY <1>1, RemovedRecord
<1>3. \/ e = d
      \/ where = NOTHING /\ e = [out EXCEPT !.location[what] = NOTHING]
      \/ e = [Push(out, what, to) EXCEPT !.location[what] = to]
  BY DEF Moveto
<1>4. to = Fallback(out, what) \/ (where # HOME /\ to = where) OBVIOUS
<1> DEFINE f(x) == [d.location EXCEPT ![what] = x]
           p == Push(out, what, to)
           nowhere == [out EXCEPT !.location[what] = NOTHING]
           put == [p EXCEPT !.location[what] = to]
<1>n. e = d \/ (where = NOTHING /\ e = nowhere) \/ e = put BY <1>3
<1> HIDE DEF out, to, e
<1>5. nowhere.type = d.type /\ nowhere.location = f(NOTHING)
  <2>1. nowhere = [type |-> out.type, location |-> f(NOTHING), contents |-> out.contents,
                   next |-> out.next, home |-> out.home, owner |-> out.owner,
                   dropto |-> out.dropto, recyclable |-> out.recyclable]
    BY <1>2 DEF IsRecord
  <2> HIDE DEF nowhere
  <2> QED BY <1>2, <2>1
<1>6. put.type = d.type /\ put.location = f(to)
  <2>1. IsRecord(p) /\ p.type = d.type /\ p.location = d.location
    BY <1>2, PushedRecord
  <2> HIDE DEF p
  <2>2. put = [type |-> p.type, location |-> f(to), contents |-> p.contents, next |-> p.next,
               home |-> p.home, owner |-> p.owner, dropto |-> p.dropto,
               recyclable |-> p.recyclable]
    BY <2>1 DEF IsRecord
  <2> HIDE DEF put
  <2> QED BY <2>1, <2>2
<1> HIDE DEF nowhere, put
<1>7. \A x : /\ f(x)[what] = x
             /\ \A o \in Objs : o # what => f(x)[o] = d.location[o]
  BY <1>1
<1> HIDE DEF f
<1>8. OnlyMoves(d, e, what) BY <1>n, <1>5, <1>6, <1>7 DEF OnlyMoves
<1>9. \/ e.location[what] = d.location[what] \/ where = NOTHING
      \/ e.location[what] = to
  BY <1>n, <1>6, <1>7
<1>10. \/ e.location[what] = d.location[what] \/ where = NOTHING
       \/ where # HOME /\ e.location[what] = where
       \/ e.location[what] = Fallback(out, what) /\ out.type = d.type
  BY <1>2, <1>4, <1>9
<1> QED BY <1>8, <1>10 DEF e

LEMMA MovementOnly ==
    ASSUME NEW d \in Db, NEW what \in Objs, NEW where
    PROVE  /\ OnlyMoves(d, Moves(d, what, where).db, what)
           /\ OnlyMoves(d, Enters(d, what, where).db, what)
           /\ OnlyMoves(d, ThingMoves(d, what, where).db, what)
<1>1. OnlyMoves(d, Moveto(d, what, where), what) BY MovetoOnly
<1>2. OnlyMoves(d, EnterRoom(d, what, where), what)
  <2>1. OnlyMoves(d, Moveto(d, what, Entered(d, what, where)), what) BY MovetoOnly
  <2>2. OnlyMoves(d, d, what) BY DEF OnlyMoves
  <2> QED BY <2>1, <2>2 DEF EnterRoom
<1>3. Moves(d, what, where).db = Moveto(d, what, where) BY DEF Moves
<1>4. Enters(d, what, where).db = EnterRoom(d, what, where) BY DEF Enters
<1>5. OnlyMoves(d, ThingMoves(d, what, where).db, what)
  BY <1>1, <1>2, <1>3, <1>4 DEF ThingMoves
<1> QED BY <1>1, <1>2, <1>3, <1>4, <1>5

\* Rooms stay where they are, or go into rooms.
RoomsGo(d, e) ==
    /\ e.type = d.type
    /\ \A o \in Objs : d.type[o] = "room" =>
          \/ e.location[o] = d.location[o]
          \/ e.location[o] # NOTHING /\ d.type[e.location[o]] = "room"

LEMMA OthersGo ==
    ASSUME NEW d, NEW e, NEW what, OnlyMoves(d, e, what), d.type[what] # "room"
    PROVE  RoomsGo(d, e)
BY DEF OnlyMoves, RoomsGo

\* A room goes where it is sent, or to room 0.
LEMMA RoomMoves ==
    ASSUME NEW d, NEW D, NEW what \in Objs, NEW where, Good(d, D),
           where = HOME \/ (where \in Objs /\ (d.type[what] = "room" => d.type[where] = "room"))
    PROVE  RoomsGo(d, Moves(d, what, where).db)
<1> DEFINE e == Moveto(d, what, where)
<1>1. d \in Db /\ d.type[Top] = "room" /\ NOTHING # Top /\ NOTHING \notin Objs /\ where # NOTHING
  BY Names DEF Good, Sound, Fixed, Top, HOME, NOTHING
<1>2. OnlyMoves(d, e, what) BY <1>1, MovetoOnly
<1>3. Moves(d, what, where).db = e BY DEF Moves
<1>4. CASE d.type[what] # "room" BY <1>2, <1>3, <1>4, OthersGo
<1>5. CASE d.type[what] = "room"
  <2>1. \/ e.location[what] = d.location[what]
        \/ where # HOME /\ e.location[what] = where
        \/ \E out : e.location[what] = Fallback(out, what) /\ out.type = d.type
    BY <1>1, MovetoOnly
  <2>2. ASSUME NEW out, out.type = d.type PROVE Fallback(out, what) = Top
    BY <2>2, <1>5 DEF Fallback, HomeOf
  <2>3. \/ e.location[what] = d.location[what]
        \/ e.location[what] # NOTHING /\ d.type[e.location[what]] = "room"
    BY <2>1, <2>2, <1>1, <1>5
  <2> HIDE DEF e
  <2> QED BY <2>3, <1>2, <1>3 DEF OnlyMoves, RoomsGo
<1> QED BY <1>4, <1>5

\* A walk that does not put back into a room has no room in hand.
RoomAway(d) == \E o \in Objs : o # Top /\ d.type[o] = "room" /\ d.location[o] = NOTHING
RoomyIn(d, t) ==
    /\ Roomy(d)
    /\ \A i \in 1 .. Len(t) :
          t[i].does = "sending" /\ d.type[t[i].loc] # "room" => ~RoomAway(d)
RoomsBack == RoomyIn(db, task)

LEMMA RoomyNext ==
    ASSUME NEW e, NEW t, db' = e, task' = t, RoomyIn(e, t)
    PROVE  RoomsBack'
<1>1. RoomyIn(db', task') OBVIOUS
<1> QED BY <1>1 DEF RoomsBack, RoomyIn, Roomy, RoomAway

LEMMA RoomyGoes ==
    ASSUME NEW d, NEW e, Roomy(d), RoomsGo(d, e)
    PROVE  Roomy(e) /\ (RoomAway(e) => RoomAway(d))
BY DEF Roomy, RoomsGo, RoomAway

\* A step between walks.
LEMMA GoStep ==
    ASSUME Roomy(db), Away(db) = {}, RoomsGo(db, db')
    PROVE  RoomsBack'
<1>1. PICK e : e = db' OBVIOUS
<1>2. PICK t : t = task' OBVIOUS
<1>3. Roomy(e) /\ (RoomAway(e) => RoomAway(db)) BY <1>1, RoomyGoes
<1>4. ~RoomAway(db) BY DEF RoomAway, Away
<1>5. RoomyIn(e, t) BY <1>3, <1>4 DEF RoomyIn
<1> QED BY <1>1, <1>2, <1>5, RoomyNext

LEMMA StayGoes ==
    ASSUME NEW d, NEW e, e.type = d.type, e.location = d.location
    PROVE  RoomsGo(d, e)
BY DEF RoomsGo

\* The commands that make nothing.
LEMMA MovesGo ==
    ASSUME NEW a \in Objs, NEW b \in Objs, NEW c \in Objs, Inv, Quiet, Settled,
           \/ Trigger(a, b) \/ Get(a, b) \/ Leave(a) \/ Drop(a, b, c)
           \/ \E sobjact \in BOOLEAN : Summon(a, b, sobjact)
    PROVE  task = << >> /\ RoomsGo(db, db')
<1>1. task = << >> BY Zenon DEF Trigger, Get, Leave, Drop, Summon, Does, Command
<1> SUFFICES RoomsGo(db, db') BY <1>1
<1>2. db \in Db BY <1>1, SettledBetween
<1>3. ASSUME NEW what \in Objs, NEW to, db.type[what] # "room"
      PROVE  /\ RoomsGo(db, Enters(db, what, to).db)
             /\ RoomsGo(db, ThingMoves(db, what, to).db)
  BY <1>2, <1>3, MovementOnly, OthersGo
<1>4. CASE Trigger(a, b)
  <2>1. db.type[a] = "player" /\ \E to : db' = Enters(db, a, to).db
    BY <1>4 DEF Trigger, Is, Does
  <2> QED BY <2>1, <1>3
<1>5. CASE Get(a, b)
  <2>1. db.type[b] \in {"thing", "program"} /\ db' = ThingMoves(db, b, a).db
    BY <1>5 DEF Get, Is, Does
  <2> QED BY <2>1, <1>3
<1>6. CASE Leave(a)
  <2>1. db.type[a] = "player" /\ \E to : db' = Enters(db, a, to).db
    BY <1>6 DEF Leave, Is, Does
  <2> QED BY <2>1, <1>3
<1>7. CASE Drop(a, b, c)
  <2> DEFINE m == Then(<<[does |-> "send home", thing |-> b, puppethome |-> FALSE]>>)
  <2>1. db.type[b] \in {"thing", "program"} BY Zenon, <1>7 DEF Drop, Is
  <2>2. Does("drop", m) \/ \E to : Does("drop", ThingMoves(db, b, to))
    BY Zenon, <1>7 DEF Drop
  <2>3. m.db = db BY DEF Then
  <2> HIDE DEF m
  <2>4. db' = db \/ \E to : db' = ThingMoves(db, b, to).db BY <2>2, <2>3 DEF Does
  <2> QED BY <2>1, <2>4, <1>3, StayGoes
<1>8. ASSUME NEW sobjact \in BOOLEAN, Summon(a, b, sobjact) PROVE RoomsGo(db, db')
  <2> DEFINE to == IF Is({"thing"}, b) THEN db.location[b] ELSE b
             home == IF Is({"thing"}, b) /\ sobjact
                       THEN <<[does |-> "send home", thing |-> b, puppethome |-> FALSE]>> ELSE << >>
             move == ThingMoves(db, a, to)
             m == [move EXCEPT !.then = @ \o home]
  <2>1. db.type[a] = "thing" /\ Does("summon", m) BY Zenon, <1>8 DEF Summon, Is
  <2> HIDE DEF to, home
  <2>2. move = [db |-> move.db, then |-> move.then] BY DEF ThingMoves, Enters, Moves
  <2>3. RoomsGo(db, move.db) BY <2>1, <1>3
  <2> HIDE DEF move
  <2>4. m.db = move.db BY <2>2
  <2> HIDE DEF m
  <2> QED BY <2>1, <2>3, <2>4 DEF Does
<1> QED BY <1>4, <1>5, <1>6, <1>7, <1>8

LEMMA TeleportGoes ==
    ASSUME NEW victim \in Objs, NEW dest \in Objs, Inv, Quiet, Settled, Teleport(victim, dest)
    PROVE  task = << >> /\ RoomsGo(db, db')
<1>1. task = << >> BY DEF Teleport, Does, Command
<1> SUFFICES RoomsGo(db, db') BY <1>1
<1>2. Good(db, {}) /\ db \in Db BY <1>1, SettledBetween
<1>3. \/ db.type[victim] # "room" /\ \E to : \/ db' = Enters(db, victim, to).db
                                            \/ db' = ThingMoves(db, victim, to).db
      \/ db.type[dest] = "room" /\ db' = Moves(db, victim, dest).db
  BY DEF Teleport, Is, Does
<1>4. CASE db.type[victim] # "room" /\ \E to : \/ db' = Enters(db, victim, to).db
                                              \/ db' = ThingMoves(db, victim, to).db
  BY <1>2, <1>4, MovementOnly, OthersGo
<1>5. CASE db.type[dest] = "room" /\ db' = Moves(db, victim, dest).db
  BY <1>2, <1>5, RoomMoves
<1> QED BY <1>3, <1>4, <1>5

LEMMA OtherCommandsGo ==
    ASSUME NEW a \in Objs, NEW b \in Objs \cup {HOME}, NEW c \in Objs, Inv, Quiet, Settled,
           \/ Home(a) \/ LinkRoom(a, b) \/ Unlink(a) \/ DoRecycle(a)
           \/ (b \in Objs /\ (Link(a, b) \/ Toad(a, b, c)))
    PROVE  task = << >> /\ RoomsGo(db, db')
<1>1. task = << >>
  BY Zenon DEF Home, LinkRoom, Unlink, DoRecycle, Link, Toad, Does, Command
<1> SUFFICES RoomsGo(db, db') BY <1>1
<1>2. Good(db, {}) /\ db \in Db BY <1>1, SettledBetween
<1>3. CASE Home(a) \/ (b \in Objs /\ Toad(a, b, c))
  <2>1. db' = db BY Zenon, <1>3 DEF Home, Toad, Then, Does
  <2> QED BY <2>1, StayGoes
<1>4. CASE LinkRoom(a, b) \/ Unlink(a) \/ (b \in Objs /\ Link(a, b))
  <2>1. \/ db' = [db EXCEPT !.home[a] = b]
        \/ db' = [db EXCEPT !.dropto[a] = b]
        \/ db' = [db EXCEPT !.home[a] = db.owner[a]]
        \/ db' = [db EXCEPT !.home[a] = tp_player_start]
        \/ db' = [db EXCEPT !.dropto[a] = NOTHING]
    BY <1>4 DEF LinkRoom, Unlink, Link, Does
  <2>2. \A x : /\ [db EXCEPT !.home[a] = x].type = db.type
               /\ [db EXCEPT !.home[a] = x].location = db.location
               /\ [db EXCEPT !.dropto[a] = x].type = db.type
               /\ [db EXCEPT !.dropto[a] = x].location = db.location
    BY <1>2 DEF Db
  <2>3. db'.type = db.type /\ db'.location = db.location BY <2>1, <2>2
  <2> QED BY <2>3, StayGoes
<1>5. CASE DoRecycle(a)
  <2>1. Goes(db, a) /\ db' = Unlinked(db, a)
    BY <1>5 DEF DoRecycle, MayRecycle, Is, Goes, Does, Recycle
  <2>2. Partly(db, Unlinked(db, a), {}, a, db_top)
    BY <2>1, <1>2, UnlinkedMakes DEF Good
  <2>3. db'.type = db.type /\ db'.location = db.location BY <2>1, <2>2 DEF Partly
  <2> QED BY <2>3, StayGoes
<1> QED BY <1>3, <1>4, <1>5

\* The commands that make something, of garbage that nothing is in.
LEMMA MadeRoomy ==
    ASSUME NEW type, NEW location, NEW home, NEW owner, Good(db, {}), NothingIn(db, {}),
           MayMake(db, type, location, home, owner), Complete(db), db.type[location] \in Near,
           Made(db, db', type, location, home, owner), Roomy(db),
           type = "room" => db.type[location] = "room"
    PROVE  RoomsBack'
<1>1. PICK e : e = db' OBVIOUS
<1>2. PICK new : new = db.recyclable OBVIOUS
<1>3. /\ Complete(e) /\ new \in Objs \ {Top} /\ db.type[new] = "garbage"
      /\ \A o \in Objs : e.type[o] = IF o = new THEN type ELSE db.type[o]
      /\ \A o \in Objs : e.location[o] = IF o = new THEN location ELSE db.location[o]
  BY <1>1, <1>2, MadeSettles
<1>4. location \in Objs /\ location # new BY <1>3 DEF MayMake
<1>5. Roomy(e)
  <2> SUFFICES ASSUME NEW o \in Objs, e.type[o] = "room", e.location[o] # NOTHING
               PROVE  e.type[e.location[o]] = "room"
    BY DEF Roomy
  <2>1. CASE o = new BY <2>1, <1>3, <1>4
  <2>2. CASE o # new
    <3>1. db.type[o] = "room" /\ e.location[o] = db.location[o] BY <2>2, <1>3
    <3>2. db.type[e.location[o]] = "room" BY <3>1 DEF Roomy
    <3>3. e.location[o] \in Objs BY <3>1 DEF Good, Db, Refs
    <3> QED BY <3>2, <3>3, <1>3
  <2> QED BY <2>1, <2>2
<1>6. ~RoomAway(e) BY <1>3 DEF RoomAway, Complete, Away
<1>7. PICK t : t = task' OBVIOUS
<1>8. RoomyIn(e, t) BY <1>5, <1>6 DEF RoomyIn
<1> QED BY <1>1, <1>7, <1>8, RoomyNext

LEMMA CreateGoes ==
    ASSUME NEW player \in Objs, NEW type \in {"thing", "program"}, NEW home \in Refs,
           Inv, Quiet, Settled, Roomy(db), Create(player, type, home)
    PROVE  RoomsBack'
<1>1. /\ Good(db, {}) /\ NothingIn(db, {}) /\ MayMake(db, type, player, home, player)
      /\ Made(db, db', type, player, home, player)
  BY CreateMakes, QuietLosesNothing
<1>2. task = << >> /\ db.type[player] = "player" /\ type # "room"
  BY DEF Create, Is, Does, Command
<1>3. Complete(db) /\ db.type[player] \in Near
  BY <1>2, SettledBetween, Nearness DEF Complete
<1> QED BY <1>1, <1>2, <1>3, MadeRoomy

LEMMA DigGoes ==
    ASSUME NEW player \in Objs, NEW parent \in Objs, Inv, Quiet, Settled, Roomy(db),
           Dig(player, parent)
    PROVE  RoomsBack'
<1>1. /\ Good(db, {}) /\ NothingIn(db, {}) /\ MayMake(db, "room", Top, NOTHING, player)
      /\ Made(db, db', "room", Top, NOTHING, player)
  BY DigMakes, QuietLosesNothing
<1>2. task = << >> BY DEF Dig, Does, Command
<1>3. Complete(db) /\ db.type[Top] = "room" /\ db.type[Top] \in Near
  BY <1>1, <1>2, SettledBetween, Nearness DEF Complete, Good, Sound, Fixed
<1> QED BY <1>1, <1>3, MadeRoomy

\* The steps between walks.
LEMMA StepsGo ==
    ASSUME Inv, Quiet, Settled, DigsIntoRooms,
           Enter \/ MoveOn \/ SendHome \/ Depart \/ Recycling
    PROVE  Away(db) = {} /\ RoomsGo(db, db')
<1> DEFINE f == Head(task)
           D == DoomedIn(task)
<1>1. task # << >> /\ f.does \in {"enter", "moveto", "send home", "depart", "recycling"}
  BY Zenon DEF Enter, MoveOn, SendHome, Depart, Recycling, Doing
<1>2. Good(db, D) /\ f \in Frames /\ db \in Db /\ task \in Seq(Frames)
  BY Zenon, <1>1, HeadIs DEF Inv, Good, Whole
<1>3. Away(db) = {} BY Zenon, <1>1, SettledPop
<1>4. PICK W : Calm(db, task, D, W) BY DEF Quiet
<1>5. FrameCalm(db, D, W, f) BY Zenon, <1>1, <1>2, <1>4, CalmPop
<1> HIDE DEF D
<1>6. CASE Enter
  <2>1. f.does = "enter" /\ db' = Enters(db, f.what, HOME).db
    BY <1>6 DEF Enter, Doing, Continue
  <2>2. f.what \in Objs /\ db.type[f.what] # "room"
    BY Zenon, <2>1, <1>2, <1>5 DEF Frames, FrameCalm
  <2> HIDE DEF f
  <2>3. OnlyMoves(db, Enters(db, f.what, HOME).db, f.what)
    BY <1>2, <2>2, MovementOnly
  <2> QED BY <2>1, <2>2, <2>3, <1>3, OthersGo
<1>7. CASE MoveOn
  <2>1. f.does = "moveto" /\ db' = Moves(db, f.what, f.where).db /\ db.type[f.where] = "room"
    BY <1>7 DEF MoveOn, Doing, Continue, DigsIntoRooms
  <2>2. f.what \in Objs /\ f.where \in Objs BY Zenon, <2>1, <1>2 DEF Frames
  <2> HIDE DEF f
  <2> QED BY <2>1, <2>2, <1>2, <1>3, RoomMoves
<1>8. CASE SendHome
  <2>1. f.does = "send home" /\ (db' = db \/ db' = Moves(db, f.thing, HOME).db)
    BY Zenon, <1>8 DEF SendHome, Doing, Continue
  <2>2. f.thing \in Objs BY Zenon, <2>1, <1>2 DEF Frames
  <2> HIDE DEF f
  <2>3. RoomsGo(db, Moves(db, f.thing, HOME).db) BY Zenon, <2>2, <1>2, RoomMoves
  <2> QED BY Zenon, <2>1, <2>3, <1>3, StayGoes
<1>9. CASE Depart
  <2>1. db' = db BY Zenon, <1>9 DEF Depart, Continue
  <2> QED BY <2>1, <1>3, StayGoes
<1>10. CASE Recycling
  <2> DEFINE first == db.contents[f.thing]
             again == [f EXCEPT !.last = first, !.looplimit = @ - 1]
             walks == \/ db.type[first] = "player"
                      \/ db.type[first] = "thing"
                         /\ (tp_thing_movement \/ first \in Zombie \cup Vehicle)
             move == IF walks THEN Enters(db, first, HOME) ELSE Moves(db, first, HOME)
             next == IF walks THEN again ELSE [again EXCEPT !.last = NOTHING]
             m == [move EXCEPT !.then = @ \o <<next>>]
  <2>1. /\ f.does = "recycling"
        /\ \/ f.last \in Here(f.thing) /\ db' = Moveto(db, f.last, HOME)
           \/ first # NOTHING /\ db' = m.db
    BY Zenon, <1>10 DEF Recycling, Doing, Continue
  <2>2. f.thing \in Objs BY Zenon, <2>1, <1>2 DEF Frames
  <2> HIDE DEF f
  <2>3. first # NOTHING => first \in Objs BY <1>2, <2>2 DEF Db, Refs
  <2> HIDE DEF first, next
  <2>4. move = [db |-> move.db, then |-> move.then] BY DEF Enters, Moves
  <2>5. first # NOTHING => RoomsGo(db, move.db)
    <3> SUFFICES ASSUME first \in Objs PROVE RoomsGo(db, move.db) BY <2>3
    <3>1. CASE walks
      <4>1. db.type[first] # "room" BY <3>1
      <4>2. OnlyMoves(db, Enters(db, first, HOME).db, first) BY <1>2, MovementOnly
      <4> QED BY <3>1, <4>1, <4>2, OthersGo
    <3>2. CASE ~walks BY <3>2, <1>2, RoomMoves
    <3> QED BY <3>1, <3>2
  <2> HIDE DEF move
  <2>6. m.db = move.db BY <2>4
  <2> HIDE DEF m
  <2>7. CASE f.last \in Here(f.thing) /\ db' = Moveto(db, f.last, HOME)
    <3>1. f.last \in Objs /\ Moves(db, f.last, HOME).db = Moveto(db, f.last, HOME)
      BY <2>7 DEF Here, Moves
    <3> QED BY <3>1, <2>7, <1>2, <1>3, RoomMoves
  <2> QED BY <2>1, <2>5, <2>6, <2>7, <1>3
<1> QED BY <1>6, <1>7, <1>8, <1>9, <1>10

LEMMA ToadedRoomy ==
    ASSUME Inv, Quiet, Settled, Roomy(db), Toaded
    PROVE  RoomsBack'
<1> DEFINE t == Head(task)
           what == t.what
           owners == [o \in Objs |-> IF o = what THEN t.by
                                     ELSE IF db.owner[o] = what THEN t.recipient ELSE db.owner[o]]
           homes == [o \in Objs |-> IF o = what THEN db.home[t.by]
                                    ELSE IF db.type[o] = "thing" /\ db.home[o] = what
                                           THEN tp_player_start ELSE db.home[o]]
<1>1. /\ task # << >> /\ Head(task).does = "toad"
      /\ db' = [db EXCEPT !.owner = owners, !.home = homes, !.type[what] = "thing"]
  BY Zenon DEF Toaded, Doing, Continue
<1>2. Whole(db, task) /\ Head(task) \in Frames /\ FrameOK(db, Head(task)) /\ db \in Db
  BY <1>1, HeadIs DEF Inv, Whole, Good
<1>3. what \in Objs /\ db.type[what] = "player" /\ Away(db) = {}
  BY Zenon, <1>1, <1>2, SettledPop DEF FrameOK, Frames
<1> HIDE DEF owners, homes, what
<1>4. db'.location = db.location /\ db'.type = [db.type EXCEPT ![what] = "thing"]
  <2>1. db' = [type |-> [db.type EXCEPT ![what] = "thing"], location |-> db.location,
               contents |-> db.contents, next |-> db.next, home |-> homes, owner |-> owners,
               dropto |-> db.dropto, recyclable |-> db.recyclable]
    BY <1>1, <1>2 DEF Db
  <2> QED BY <2>1
<1>5. PICK e : e = db' OBVIOUS
<1>6. \A o \in Objs : e.type[o] = (IF o = what THEN "thing" ELSE db.type[o]) /\ e.location[o] = db.location[o]
  BY <1>2, <1>3, <1>4, <1>5 DEF Db
<1>7. Roomy(e)
  <2> SUFFICES ASSUME NEW o \in Objs, e.type[o] = "room", e.location[o] # NOTHING
               PROVE  e.type[e.location[o]] = "room"
    BY DEF Roomy
  <2>1. db.type[o] = "room" /\ db.type[db.location[o]] = "room" /\ db.location[o] \in Objs
    BY <1>2, <1>6 DEF Roomy, Db, Refs
  <2> QED BY <2>1, <1>3, <1>6
<1>8. ~RoomAway(e) BY <1>3, <1>6 DEF RoomAway, Away
<1>9. PICK u : u = task' OBVIOUS
<1>10. RoomyIn(e, u) BY <1>7, <1>8 DEF RoomyIn
<1> QED BY <1>5, <1>9, <1>10, RoomyNext

LEMMA RecycledRoomy ==
    ASSUME Inv, Quiet, Settled, Roomy(db), NothingLost', Recycled
    PROVE  RoomsBack'
<1> DEFINE thing == Head(task).thing
           moved == Moveto(db, thing, NOTHING)
<1>1. task # << >> /\ Head(task).does = "recycling" BY DEF Recycled, Doing
<1>2. db \in Db BY <1>1, HeadIs DEF Inv, Good
<1>3. PICK W : Calm(db, task, DoomedIn(task), W) BY DEF Quiet
<1>4. Tail(task) = << >> BY <1>1, <1>3, RecyclesAlone
<1>5. /\ thing \in Objs /\ Shifted(db, moved, thing) /\ Buried(moved, db', thing)
      /\ task' = Tail(task)
  BY RecycledBuries DEF Buries
<1>6. task' = << >> /\ Doomed' = {} BY <1>4, <1>5, DoomedNext, NoneDoomed
<1> HIDE DEF thing, moved
<1>7. /\ moved \in Db /\ moved.type = db.type
      /\ \A x \in Objs : x # thing => moved.location[x] = db.location[x]
  BY <1>5 DEF Shifted
<1>8. /\ \A x \in Objs : db'.type[x] = IF x = thing THEN "garbage" ELSE db.type[x]
      /\ \A x \in Objs : db'.location[x] = IF x = thing THEN NOTHING ELSE db.location[x]
  <2>1. /\ db'.type = [moved.type EXCEPT ![thing] = "garbage"]
        /\ db'.location = [moved.location EXCEPT ![thing] = NOTHING]
    BY <1>5 DEF Buried
  <2>2. moved.type \in [Objs -> Types] /\ moved.location \in [Objs -> Refs]
    BY <1>7 DEF Db
  <2> QED BY <1>7, <2>1, <2>2
<1>9. \A o \in Objs : db'.location[o] # thing
  <2>1. thing \in Garbage' BY <1>5, <1>8 DEF Garbage
  <2> QED BY <2>1, <1>6 DEF NothingLost
<1>10. PICK e : e = db' OBVIOUS
<1>11. Roomy(e)
  <2> SUFFICES ASSUME NEW o \in Objs, e.type[o] = "room", e.location[o] # NOTHING
               PROVE  e.type[e.location[o]] = "room"
    BY DEF Roomy
  <2>1. e.location[o] = db.location[o] /\ db.type[o] = "room" /\ e.location[o] # thing
    BY <1>8, <1>9, <1>10
  <2>2. db.location[o] \in Objs /\ db.type[db.location[o]] = "room"
    BY <2>1, <1>2 DEF Db, Refs, Roomy
  <2> QED BY <2>1, <2>2, <1>8, <1>10
<1>12. RoomyIn(e, << >>) BY <1>11 DEF RoomyIn
<1> QED BY <1>6, <1>10, <1>12, RoomyNext

\* The steps of a walk.
LEMMA SendRoomy ==
    ASSUME Inv, Quiet, Settled, Roomy(db), Send
    PROVE  RoomsBack'
<1> DEFINE loc == Head(task).loc
           e == ListOff(db, loc)
           walk == [does |-> "sending", loc |-> loc, dest |-> Head(task).dest,
                    first |-> db.contents[loc]]
           D == DoomedIn(task)
           u == Tail(task)
           c == <<walk>> \o u
<1>1. task # << >> /\ Head(task).does = "send" /\ db' = e /\ task' = c
  BY DEF Send, Doing, ListOff, Continue
<1>2. Good(db, D) /\ Head(task) \in Frames BY <1>1, HeadIs DEF Inv
<1>3. loc \in Objs /\ Head(task).dest \in Objs \cup {HOME} /\ db.contents[loc] \in Refs
  <2>1. loc \in Objs /\ Head(task).dest \in Objs \cup {HOME}
    BY Zenon, <1>1, <1>2 DEF Frames
  <2> HIDE DEF loc
  <2> QED BY <2>1, <1>2 DEF Good, Db
<1>4. u \in Seq(Frames) /\ NoWalk(u) /\ Away(db) = {} /\ db.location[Top] = NOTHING
  BY <1>1, SettledPop
<1>5. walk \in Frames /\ walk.loc = loc BY Zenon, <1>3 DEF Frames
<1> HIDE DEF loc, walk, D, u
<1>6. PICK K \in SUBSET (Objs \ {Top}) : Lifted(db, e, loc, K)
  BY <1>2, <1>3, <1>4, ListOffHeld
<1> HIDE DEF e
<1>7. /\ e.type = db.type
      /\ \A o \in Objs : e.location[o] = db.location[o] \/ (db.location[o] = loc /\ e.location[o] = NOTHING)
  BY <1>6 DEF Lifted
<1>8. Roomy(e) BY <1>7 DEF Roomy
<1>9. RoomAway(e) => db.type[loc] = "room"
  <2> SUFFICES ASSUME NEW o \in Objs, o # Top, db.type[o] = "room", e.location[o] = NOTHING
               PROVE  db.type[loc] = "room"
    BY <1>7 DEF RoomAway
  <2>1. db.location[o] # NOTHING BY <1>4 DEF Away
  <2>2. db.location[o] = loc BY <2>1, <1>7
  <2> QED BY <2>1, <2>2 DEF Roomy
<1>10. \A i \in 1 .. Len(c) : c[i] = walk \/ c[i].does # "sending"
  <2>1. <<walk>> \in Seq(Frames) /\ Len(<<walk>>) = 1 /\ <<walk>>[1] = walk
    BY <1>5, OneFrame
  <2> DEFINE g == <<walk>>
  <2> HIDE DEF g
  <2>2. \A i \in 1 .. Len(g \o u) :
            \/ i \in 1 .. Len(g) /\ (g \o u)[i] = g[i]
            \/ i - Len(g) \in 1 .. Len(u) /\ (g \o u)[i] = u[i - Len(g)]
    BY <2>1, <1>4, JoinIs DEF g
  <2>3. \A i \in 1 .. Len(g) : g[i] = walk BY <2>1 DEF g
  <2>4. \A i \in 1 .. Len(g \o u) : (g \o u)[i] = walk \/ (g \o u)[i].does # "sending"
    BY <2>2, <2>3, <1>4 DEF NoWalk
  <2> QED BY <2>4 DEF g
<1> HIDE DEF c
<1>11. RoomyIn(e, c) BY <1>5, <1>7, <1>8, <1>9, <1>10 DEF RoomyIn
<1> QED BY <1>1, <1>11, RoomyNext

LEMMA SentRoomy ==
    ASSUME Inv, Quiet, Settled, Roomy(db), Sent
    PROVE  RoomsBack'
<1> DEFINE loc == Head(task).loc
           e == ReverseContents(db, loc)
           D == DoomedIn(task)
           u == Tail(task)
<1>1. /\ task # << >> /\ Head(task).does = "sending"
      /\ db' = e /\ task' = << >> \o u
  BY DEF Sent, Doing, Continue
<1>2. Good(db, D) /\ Head(task) \in Frames BY <1>1, HeadIs DEF Inv
<1>3. loc \in Objs BY Zenon, <1>1, <1>2 DEF Frames
<1> HIDE DEF loc, D
<1>4. PICK h : Threaded(db, h) /\ Placed(db, h, D) BY <1>2 DEF Good, InPlace
<1>5. Relinked(db, e, h) BY <1>2, <1>3, <1>4, ReverseThreads DEF Good
<1> HIDE DEF e
<1>6. e.type = db.type /\ e.location = db.location BY <1>5 DEF Relinked, OnlyLists
<1>7. u \in Seq(Frames) /\ NoWalk(u) BY <1>1, SettledPop
<1> HIDE DEF u
<1>8. task' = u BY <1>1, <1>7, ConcatEmptySeq
<1>9. RoomyIn(e, u) BY <1>6, <1>7 DEF RoomyIn, Roomy, NoWalk
<1> QED BY <1>1, <1>8, <1>9, RoomyNext

LEMMA ArriveRoomy ==
    ASSUME Inv, RoomsBack, Arrive
    PROVE  RoomsBack'
<1> DEFINE u == Tail(task)
<1>1. task # << >> /\ db' = db /\ task' = << >> \o u BY DEF Arrive, Doing, Continue
<1>2. task \in Seq(Frames) BY DEF Inv, Whole
<1>3. /\ u \in Seq(Frames)
      /\ \A i \in 1 .. Len(u) : i + 1 \in 1 .. Len(task) /\ u[i] = task[i + 1]
  BY <1>1, <1>2, PopIs
<1> HIDE DEF u
<1>4. task' = u BY <1>1, <1>3, ConcatEmptySeq
<1>5. RoomyIn(db, u) BY <1>3 DEF RoomsBack, RoomyIn
<1> QED BY <1>1, <1>4, <1>5, RoomyNext

\* A room in hand is put back where it was, in a room.
LEMMA SendingRoomy ==
    ASSUME Inv, Quiet, Settled, RoomsBack, Sending
    PROVE  RoomsBack'
<1> DEFINE walk == Head(task)
           first == walk.first
           loc == walk.loc
           where == IF first \in Sticky THEN HOME ELSE walk.dest
           fits == IF ParentLoopCheck(db, first, where) THEN loc ELSE where
           move == IF db.type[first] \notin {"thing", "program"}
                     THEN Moves(db, first, loc)
                     ELSE ThingMoves(db, first, fits)
           rest == [walk EXCEPT !.first = db.next[first]]
           c == move.then \o <<rest>>
           m == [move EXCEPT !.then = @ \o <<rest>>]
           D == DoomedIn(task)
           u == Tail(task)
           v == c \o u
<1>1. task # << >> /\ walk.does = "sending" /\ Continue(m) /\ first # NOTHING
  BY Zenon DEF Sending, Doing
<1>2. Good(db, D) /\ walk \in Frames /\ task \in Seq(Frames) /\ FrameOK(db, walk)
  BY Zenon, <1>1, HeadIs DEF Inv, Whole
<1>3. /\ walk \in [does : {"sending"}, loc : Objs, dest : Objs \cup {HOME}, first : Refs]
      /\ first \in Objs /\ loc \in Objs /\ walk.dest \in Objs \cup {HOME} /\ db.next[first] \in Refs
  <2>1. walk \in [does : {"sending"}, loc : Objs, dest : Objs \cup {HOME}, first : Refs]
    BY Zenon, <1>1, <1>2 DEF Frames
  <2>2. first \in Objs BY Zenon, <1>1, <2>1 DEF Refs
  <2> QED BY <1>2, <2>1, <2>2 DEF Good, Db
<1>4. /\ u \in Seq(Frames) /\ NoWalk(u) /\ FrameSettled(db, walk)
  BY <1>1, SettledPop
<1>5. first # Top /\ db.location[first] = NOTHING
  <2>1. InHand(db, first) BY Zenon, <1>1, <1>4 DEF FrameSettled
  <2>2. PICK K \in SUBSET (Objs \ {Top}) : \E r \in [Objs -> Int] : Held(db, K, r, first)
    BY <2>1 DEF InHand
  <2> QED BY Zenon, <2>2, <1>1 DEF Held, Walked
<1>6. Roomy(db) /\ (db.type[loc] # "room" => ~RoomAway(db))
  <2>1. 1 \in 1 .. Len(task) /\ task[1] = walk BY Zenon, <1>1, <1>2, PopIs
  <2> HIDE DEF walk
  <2> QED BY <2>1, <1>1 DEF RoomsBack, RoomyIn
<1>7. rest \in Frames /\ rest.loc = loc BY Zenon, <1>3 DEF Frames
<1> HIDE DEF walk, rest, u, D
<1>8. RoomsGo(db, move.db) /\ move = [db |-> move.db, then |-> move.then]
  <2>1. CASE db.type[first] \notin {"thing", "program"}
    <3>1. db.type[first] = "room" => db.type[loc] = "room"
      BY <1>3, <1>5, <1>6 DEF RoomAway
    <3> HIDE DEF first, loc
    <3>2. RoomsGo(db, Moves(db, first, loc).db) BY <1>2, <1>3, <3>1, RoomMoves
    <3>3. Moves(db, first, loc) = [db |-> Moves(db, first, loc).db, then |-> Moves(db, first, loc).then]
      BY DEF Moves
    <3> QED BY <2>1, <3>2, <3>3
  <2>2. CASE db.type[first] \in {"thing", "program"}
    <3> HIDE DEF first, fits
    <3> DEFINE n == ThingMoves(db, first, fits)
    <3>1. db \in Db /\ db.type[first] # "room" BY <1>2, <2>2 DEF Good
    <3>2. RoomsGo(db, n.db) BY <1>3, <3>1, MovementOnly, OthersGo
    <3>3. n = [db |-> n.db, then |-> n.then] BY DEF ThingMoves, Enters, Moves
    <3>4. move = n BY <2>2
    <3> HIDE DEF n
    <3> QED BY <3>2, <3>3, <3>4
  <2> QED BY <2>1, <2>2
<1>9. Arrives(move.then)
  <2> HIDE DEF fits, first, loc
  <2>1. Puts(db, Moves(db, first, loc), first) /\ Puts(db, ThingMoves(db, first, fits), first)
    <3>1. fits \in Objs \cup {HOME} BY <1>3 DEF fits, first, loc
    <3>2. HOME \notin Objs /\ db \in Db BY <1>2, Names DEF Good, Refs
    <3> QED BY <1>3, <1>5, <3>1, <3>2, MovementPuts
  <2> QED BY <2>1 DEF Puts
<1> HIDE DEF move, first, loc
<1> DEFINE e == move.db
<1>10. db' = e /\ task' = v
  <2>1. m = [move EXCEPT !.then = c] BY <1>8
  <2>2. Continue(m) BY <1>1
  <2> HIDE DEF m, c
  <2>3. m.db = e /\ m.then = c BY <2>1, <1>8
  <2> QED BY <2>2, <2>3 DEF Continue, u
<1>11. \A i \in 1 .. Len(v) : v[i] = rest \/ v[i].does # "sending"
  <2>1. <<rest>> \in Seq(Frames) /\ Len(<<rest>>) = 1 /\ <<rest>>[1] = rest /\ move.then \in Seq(Frames)
    BY <1>7, <1>9, OneFrame DEF Arrives
  <2> DEFINE g == <<rest>>
             a == move.then
  <2>2. \A i \in 1 .. Len(g) : g[i] = rest BY <2>1
  <2>3. \A i \in 1 .. Len(a) : a[i].does = "arrive" BY <1>9 DEF Arrives
  <2> HIDE DEF g, a
  <2>4. /\ a \o g \in Seq(Frames)
        /\ \A i \in 1 .. Len(a \o g) :
            \/ i \in 1 .. Len(a) /\ (a \o g)[i] = a[i]
            \/ i - Len(a) \in 1 .. Len(g) /\ (a \o g)[i] = g[i - Len(a)]
    BY <2>1, JoinIs DEF g, a
  <2>5. \A i \in 1 .. Len(a \o g) : (a \o g)[i] = rest \/ (a \o g)[i].does = "arrive"
    BY <2>2, <2>3, <2>4
  <2> DEFINE b == a \o g
  <2> HIDE DEF b
  <2>6. \A i \in 1 .. Len(b \o u) :
            \/ i \in 1 .. Len(b) /\ (b \o u)[i] = b[i]
            \/ i - Len(b) \in 1 .. Len(u) /\ (b \o u)[i] = u[i - Len(b)]
    BY <2>4, <1>4, JoinIs DEF b
  <2>7. \A i \in 1 .. Len(b) : b[i] = rest \/ b[i].does = "arrive" BY <2>5 DEF b
  <2>8. \A i \in 1 .. Len(b \o u) : (b \o u)[i] = rest \/ (b \o u)[i].does # "sending"
    BY <2>6, <2>7, <1>4 DEF NoWalk
  <2> QED BY <2>8 DEF a, b, g
<1> HIDE DEF v, e
<1>12. Roomy(e) /\ (RoomAway(e) => RoomAway(db)) /\ e.type = db.type
  BY <1>6, <1>8, RoomyGoes DEF RoomsGo, e
<1>13. RoomyIn(e, v) BY <1>6, <1>7, <1>11, <1>12 DEF RoomyIn
<1> QED BY <1>10, <1>13, RoomyNext

LEMMA NextRoomy ==
    ASSUME Alone, Inv, Quiet, Settled, RoomsBack, DigsIntoRooms, NothingLost', [Next]_vars
    PROVE  RoomsBack'
<1>1. Roomy(db) BY DEF RoomsBack, RoomyIn
<1>2. ASSUME RoomsGo(db, db'), task = << >> PROVE RoomsBack'
  BY <1>1, <1>2, SettledBetween, GoStep
<1>3. CASE PlayerActs
  <2>1. ASSUME NEW a \in Objs, NEW b \in Objs,
               \/ Trigger(a, b) \/ Get(a, b) \/ Leave(a)
               \/ \E c \in Objs : Drop(a, b, c)
               \/ \E sobjact \in BOOLEAN : Summon(a, b, sobjact)
        PROVE  RoomsBack'
    BY <2>1, <1>2, MovesGo
  <2>2. ASSUME NEW a \in Objs, NEW b \in Objs, Teleport(a, b) PROVE RoomsBack'
    BY <2>2, <1>2, TeleportGoes
  <2>3. ASSUME NEW a \in Objs, NEW b \in Objs \cup {HOME}, NEW c \in Objs,
               \/ Home(a) \/ LinkRoom(a, b) \/ Unlink(a) \/ DoRecycle(a)
               \/ (b \in Objs /\ (Link(a, b) \/ Toad(a, b, c)))
        PROVE  RoomsBack'
    BY <2>3, <1>2, OtherCommandsGo
  <2>4. ASSUME NEW a \in Objs, NEW b \in Objs, Dig(a, b) PROVE RoomsBack'
    BY <2>4, <1>1, DigGoes
  <2>5. ASSUME NEW a \in Objs, NEW type \in {"thing", "program"}, NEW home \in Refs,
               Create(a, type, home)
        PROVE  RoomsBack'
    BY <2>5, <1>1, CreateGoes
  <2> QED BY <1>3, <2>1, <2>2, <2>3, <2>4, <2>5 DEF PlayerActs
<1>4. CASE Step
  <2>1. CASE Enter \/ MoveOn \/ SendHome \/ Depart \/ Recycling
    BY <2>1, <1>1, StepsGo, GoStep
  <2>2. CASE Send \/ Sending \/ Sent \/ Arrive
    BY <2>2, <1>1, SendRoomy, SendingRoomy, SentRoomy, ArriveRoomy
  <2>3. CASE Recycled \/ Toaded BY <2>3, <1>1, RecycledRoomy, ToadedRoomy
  <2> QED BY <1>4, <2>1, <2>2, <2>3 DEF Step
<1>5. CASE ProgramActs BY <1>5 DEF ProgramActs, ProgramMoves, ProgramRecycles, Alone
<1>6. CASE UNCHANGED vars
  <2>1. db' = db /\ task' = task BY <1>6 DEF vars
  <2>2. RoomyIn(db, task) BY DEF RoomsBack
  <2> QED BY <2>1, <2>2, RoomyNext
<1> QED BY <1>3, <1>4, <1>5, <1>6 DEF Next

(* A room that is in rooms stays in rooms, whatever players do, as long as *)
(* no @dig takes a thing for the parent of the room that it makes.         *)
THEOREM RoomsStayInRooms ==
    ASSUME Alone PROVE Spec /\ RoomsInRooms /\ []DigsIntoRooms => []RoomsInRooms
<1>1. Init /\ RoomsInRooms => RoomsBack
  BY DEF Init, RoomsInRooms, RoomsBack, RoomyIn
<1>2. Inv /\ Quiet /\ Settled /\ RoomsBack /\ DigsIntoRooms /\ [Next]_vars => RoomsBack'
  <2> SUFFICES ASSUME Inv, Quiet, Settled, RoomsBack, DigsIntoRooms, [Next]_vars PROVE RoomsBack'
    OBVIOUS
  <2>1. Quiet' BY NextQuiet
  <2>2. NothingLost'
    <3>1. Quiet' => NothingLost' BY QuietLosesNothing, PTL
    <3> QED BY <2>1, <3>1
  <2> QED BY <2>2, NextRoomy
<1>3. RoomsBack => RoomsInRooms BY DEF RoomsBack, RoomyIn, RoomsInRooms
<1>4. Spec => [](Inv /\ Quiet /\ Settled) BY AloneSettled
<1> QED BY <1>1, <1>2, <1>3, <1>4, PTL DEF Spec

(* Where @dig makes rooms in rooms only, every step of every command is    *)
(* one of Places, or none: moveto() puts an object only where it does not  *)
(* get inside itself, although it checks neither the home of a player nor  *)
(* tp_player_start where it falls back on them, and recycle() frees an     *)
(* object only when it is empty.                                           *)
THEOREM ContentsImplementsPlaces ==
    ASSUME Alone PROVE Spec /\ RoomsInRooms /\ []DigsIntoRooms => ImplementsPlaces
BY RoomsStayInRooms, RoomyImplementsPlaces, PTL

(* Then every object that is there finds its way to room 0 when a command  *)
(* is done: parent_loop_check() and room_loop_check() end, and what they   *)
(* follow is never a circle.                                               *)
THEOREM FindsItsWay ==
    ASSUME Alone PROVE Spec /\ RoomsInRooms /\ []DigsIntoRooms => []WayToTop
BY RoomsStayInRooms, RoomyFindsItsWay, PTL

=============================================================================
