---------------------------- MODULE CatalogProofs ----------------------------
(***************************************************************************)
(* What holds of Catalog for any collections and any number of requests.   *)
(* References dangle, and teachers do not teach, only where an excuse says *)
(* so; this is inductive once it speaks of the writes under way as well.   *)
(***************************************************************************)
EXTENDS Catalog, TLAPS

-----------------------------------------------------------------------------
(* Documents and their references *)

\* A reference goes from one collection to another, never back.
LEMMA ReferralsAcyclic ==
  ASSUME NEW x, NEW y, MayRefer(x, y)
  PROVE  x # y /\ ~MayRefer(y, x) /\ y \in Ids /\ x \notin Users
BY KindsAssumption DEF MayRefer, Ids

LEMMA PairsEqual ==
  ASSUME NEW a, NEW b, NEW c, {a, b} = {a, c} PROVE b = c
OBVIOUS

LEMMA RefsOf ==
  ASSUME NEW d, NEW y
  PROVE  y \in Refs(d) <=>
           \/ y # None /\ \E f \in Links \cap DOMAIN d : d[f] = y
           \/ "teachers" \in DOMAIN d /\ y \in d["teachers"]
BY DEF Refs

\* The names and types of the fields.
LEMMA DocumentFields ==
  ASSUME NEW d \in Documents
  PROVE  /\ DOMAIN d = Fields /\ d = [f \in Fields |-> d[f]]
         /\ d["teachers"] \subseteq Users /\ Links \subseteq Fields
BY DEF Documents, Fields, Links

LEMMA DocumentMixed ==
  ASSUME NEW d \in Documents, NEW e \in Documents, NEW S
  PROVE  [f \in Fields |-> IF f \in S THEN e[f] ELSE d[f]] \in Documents
<1> DEFINE m == [f \in Fields |-> IF f \in S THEN e[f] ELSE d[f]]
<1>1. m = [state |-> m["state"], course |-> m["course"], group |-> m["group"],
           room |-> m["room"], lesson |-> m["lesson"],
           teachers |-> m["teachers"], fit |-> m["fit"]]
  BY DEF Fields, Links
<1>2. /\ m["state"] \in {"unused", "live", "deleted"}
      /\ m["course"] \in Courses \cup {None} /\ m["group"] \in Groups \cup {None}
      /\ m["room"] \in Rooms \cup {None} /\ m["lesson"] \in Lessons \cup {None}
      /\ m["teachers"] \in SUBSET Users /\ m["fit"] \in BOOLEAN
  BY DEF Fields, Links, Documents
<1> HIDE DEF m
<1>3. m \in Documents
  BY <1>1, <1>2 DEF Documents
<1> QED
  BY <1>3 DEF m

\* A write changes what the patch names and leaves the rest.
LEMMA MergeEffect ==
  ASSUME NEW d \in Documents, NEW set, IsPatch(set)
  PROVE  /\ Merge(d, set) \in Documents
         /\ \A f \in Fields : Merge(d, set)[f] =
              IF f \in DOMAIN set THEN set[f] ELSE d[f]
         /\ \A y \in Refs(Merge(d, set)) : y \in Refs(set) \/ y \in Refs(d)
         /\ set \in Documents => Merge(d, set) = set
<1>1. PICK e \in Documents : \A f \in DOMAIN set : set[f] = e[f]
  BY DEF IsPatch
<1>2. Merge(d, set) = [f \in Fields |-> IF f \in DOMAIN set THEN set[f] ELSE d[f]]
  BY DocumentFields DEF Merge
<1>3. Merge(d, set) = [f \in Fields |-> IF f \in DOMAIN set THEN e[f] ELSE d[f]]
  BY <1>1, <1>2
<1>4. Merge(d, set) \in Documents
  BY <1>3, DocumentMixed
<1>5. ASSUME NEW y \in Refs(Merge(d, set)) PROVE y \in Refs(set) \/ y \in Refs(d)
  <2>1. CASE y # None /\ \E f \in Links : Merge(d, set)[f] = y
    <3>1. PICK f \in Links : Merge(d, set)[f] = y
      BY <2>1
    <3>2. f \in Fields /\ f \in DOMAIN d
      BY <1>4, DocumentFields
    <3>3. CASE f \in DOMAIN set
      BY <1>2, <2>1, <3>1, <3>2, <3>3, RefsOf
    <3>4. CASE f \notin DOMAIN set
      BY <1>2, <2>1, <3>1, <3>2, <3>4, RefsOf
    <3> QED
      BY <3>3, <3>4
  <2>2. CASE y \in Merge(d, set)["teachers"]
    <3>1. "teachers" \in Fields
      BY DEF Fields
    <3> QED
      BY <1>2, <2>2, <3>1, RefsOf, DocumentFields
  <2> QED
    BY <1>5, <2>1, <2>2, RefsOf
<1>6. set \in Documents => Merge(d, set) = set
  BY <1>2, DocumentFields
<1> QED
  BY <1>2, <1>4, <1>5, <1>6

\* Every teacher is a reference.
LEMMA TeachersAreRefs ==
  ASSUME NEW d \in Documents, NEW t \in d.teachers
  PROVE  t \in Refs(d) /\ t \in Users
BY DocumentFields, RefsOf DEF Fields

-----------------------------------------------------------------------------
(* The parts of the invariant *)

\* What a write under way holds.
Grounded(r) ==
  /\ r.id \in Checked =>
       \A y \in Refs(r.set) \ r.since : Live(y) /\ (y \in Users => docs[y].fit)
  /\ Withdraws(r) => Referrers(Checked, r.id) \subseteq r.since

LEMMA InvParts ==
  CatalogInv <=>
    /\ TypeOK /\ RefsLiveUnlessRaced /\ TeachersTeach
    /\ \A w \in Workers : request[w] # Idle => Grounded(request[w])
BY DEF CatalogInv, Grounded

\* The look-ups of a handler ground the write it plans.
LEMMA PlanPreserves ==
  ASSUME CatalogInv, NEW w \in Workers, NEW op, NEW id, NEW set,
         Plans(w, op, id, set),
         IsRequest(Writing(op, id, set)), Grounded(Writing(op, id, set))
  PROVE  CatalogInv'
<1> DEFINE r == Writing(op, id, set)
<1>1. /\ request' = [request EXCEPT ![w] = r] /\ docs' = docs /\ excused' = excused
  BY DEF Plans
<1>2. request = [v \in Workers |-> request[v]]
  BY DEF CatalogInv, TypeOK
<1>3. request' = [v \in Workers |-> IF v = w THEN r ELSE request[v]]
  BY <1>1, <1>2
<1> HIDE DEF r
<1>4. TypeOK'
  <2>1. request' = [v \in Workers |-> request'[v]]
    BY <1>3
  <2>2. \A v \in Workers : request'[v] = Idle \/ IsRequest(request'[v])
    BY <1>3 DEF CatalogInv, TypeOK, r
  <2> QED
    BY <1>1, <2>1, <2>2 DEF CatalogInv, TypeOK
<1>5. RefsLiveUnlessRaced' /\ TeachersTeach'
  BY <1>1, InvParts DEF RefsLiveUnlessRaced, TeachersTeach, Live
<1>6. ASSUME NEW v \in Workers, request'[v] # Idle PROVE Grounded(request[v])'
  <2>1. Grounded(request'[v])
    BY <1>3, <1>6, InvParts DEF r
  <2> QED
    BY <1>1, <2>1 DEF Grounded, Referrers, Live
<1> QED
  BY <1>4, <1>5, <1>6 DEF CatalogInv, Grounded

LEMMA InsertPreserves ==
  ASSUME CatalogInv, NEW w \in Workers, NEW id \in Ids \ Users, NEW doc \in Documents,
         Inserts(w, id, doc), doc.state = "live",
         \A y \in Refs(doc) :
           MayRefer(id, y) /\ (id \in Checked => Live(y) /\ (y \in Users => docs[y].fit))
  PROVE  CatalogInv'
<1>1. IsPatch(doc)
  BY DocumentFields DEF IsPatch
<1>2. IsRequest(Writing("insert", id, doc))
  BY <1>1 DEF IsRequest, Writing
<1>3. Grounded(Writing("insert", id, doc))
  BY DEF Grounded, Writing, Withdraws
<1> QED
  BY <1>2, <1>3, PlanPreserves DEF Inserts

LEMMA SavePreserves ==
  ASSUME CatalogInv, NEW w \in Workers, NEW id \in Ids, NEW set, IsPatch(set),
         Saves(w, id, set), "state" \notin DOMAIN set,
         \A y \in Refs(set) :
           MayRefer(id, y) /\ (id \in Checked => Live(y) /\ (y \in Users => docs[y].fit)),
         id \in Users /\ ~set.fit => Referrers(Checked, id) = {}
  PROVE  CatalogInv'
<1>1. IsRequest(Writing("save", id, set))
  BY DEF IsRequest, Writing
<1>2. Grounded(Writing("save", id, set))
  BY DEF Grounded, Writing, Withdraws
<1> QED
  BY <1>1, <1>2, PlanPreserves DEF Saves

LEMMA EmptyDocument ==
  ASSUME NEW s \in {"unused", "live", "deleted"}, NEW b \in BOOLEAN
  PROVE  Document(s, b) \in Documents /\ Refs(Document(s, b)) = {}
BY DEF Document, Documents, Refs, Links

LEMMA DeletePreserves ==
  ASSUME CatalogInv, NEW w \in Workers, NEW id \in Ids, Deletes(w, id),
         Referrers(Checked, id) = {}
  PROVE  CatalogInv'
<1> DEFINE gone == Document("deleted", FALSE)
<1>1. gone \in Documents /\ Refs(gone) = {}
  BY EmptyDocument
<1>2. IsPatch(gone)
  BY <1>1, DocumentFields DEF IsPatch
<1> HIDE DEF gone
<1>3. IsRequest(Writing("delete", id, gone))
  BY <1>1, <1>2 DEF IsRequest, Writing, gone
<1>4. Grounded(Writing("delete", id, gone))
  BY <1>1 DEF Grounded, Writing, Withdraws
<1> QED
  BY <1>3, <1>4, PlanPreserves DEF Deletes, gone

-----------------------------------------------------------------------------
(* The handlers *)

\* No look-up before a deletion leaves a collection out, but for payments.
LEMMA LookUpsComplete ==
  ASSUME TypeOK, NEW id \in Ids
  PROVE  /\ id \in Courses /\ Referrers(Groups \cup Lessons, id) = {} => Referrers(Checked, id) = {}
         /\ id \in Groups \cup Rooms /\ Referrers(Lessons, id) = {} => Referrers(Checked, id) = {}
         /\ id \in Lessons /\ Referrers(Marks, id) = {} => Referrers(Checked, id) = {}
         /\ id \in Marks \cup Bills => Referrers(Checked, id) = {}
         /\ id \in Users /\ Referrers(Courses \cup Groups \cup Lessons, id) = {}
              => Referrers(Checked, id) = {}
<1>1. ASSUME NEW x \in Referrers(Checked, id)
      PROVE  /\ MayRefer(x, id) /\ x \notin Bills
             /\ \A K : x \in K => x \in Referrers(K, id)
  BY DEF Referrers, TypeOK, Checked
<1>2. ASSUME NEW x \in Referrers(Checked, id)
      PROVE  /\ id \in Courses => x \in Groups \cup Lessons
             /\ id \in Groups \cup Rooms => x \in Lessons
             /\ id \in Lessons => x \in Marks
             /\ id \notin Marks \cup Bills
             /\ id \in Users => x \in Courses \cup Groups \cup Lessons
  <2>1. MayRefer(x, id) /\ x \notin Bills
    BY <1>1
  <2> QED
    BY <2>1, KindsAssumption DEF MayRefer
<1> QED
  BY <1>1, <1>2

\* The patches of the handlers, and what they refer to.
LEMMA Patches ==
  ASSUME NEW c \in Courses \cup {None}, NEW g \in Groups \cup {None},
         NEW r \in Rooms \cup {None}, NEW ts \in SUBSET Users, NEW b \in BOOLEAN, NEW set,
         \/ set = [fit |-> b]
         \/ set = [teachers |-> ts]
         \/ set = [course |-> c]
         \/ set = [course |-> c, teachers |-> ts]
         \/ set = [course |-> c, room |-> r, teachers |-> ts]
         \/ set = [course |-> c, room |-> r, teachers |-> ts, group |-> g]
  PROVE  IsPatch(set) /\ "state" \notin DOMAIN set
<1> DEFINE d == [state |-> "live", course |-> c, group |-> g, room |-> r,
                 lesson |-> None, teachers |-> ts, fit |-> b]
<1>1. d \in Documents
  BY DEF Documents
<1>2. DOMAIN set \subseteq Fields /\ "state" \notin DOMAIN set
  BY DEF Fields, Links
<1>3. \A f \in DOMAIN set : set[f] = d[f]
  OBVIOUS
<1>4. set = [f \in DOMAIN set |-> set[f]]
  OBVIOUS
<1> HIDE DEF d
<1> QED
  BY <1>1, <1>2, <1>3, <1>4 DEF IsPatch

LEMMA PatchRefs ==
  ASSUME NEW c, NEW g, NEW r, NEW ts, NEW b
  PROVE  /\ Refs([fit |-> b]) = {}
         /\ Refs([teachers |-> ts]) = ts
         /\ Refs([course |-> c]) \subseteq {c}
         /\ Refs([course |-> c, teachers |-> ts]) \subseteq {c} \cup ts
         /\ Refs([course |-> c, room |-> r, teachers |-> ts]) \subseteq {c, r} \cup ts
         /\ Refs([course |-> c, room |-> r, teachers |-> ts, group |-> g])
              \subseteq {c, r, g} \cup ts
BY DEF Refs, Links

LEMMA BlankFields ==
  /\ Blank = [f \in Fields |-> Blank[f]]
  /\ Blank["state"] = "live" /\ Blank["course"] = None /\ Blank["group"] = None
  /\ Blank["room"] = None /\ Blank["lesson"] = None /\ Blank["teachers"] = {}
  /\ Blank["fit"] = FALSE
BY DEF Blank, Document, Fields, Links

LEMMA BlankWith ==
  ASSUME NEW d, d = [f \in Fields |-> d[f]], d["state"] = "live",
         d["course"] \in Courses \cup {None}, d["group"] \in Groups \cup {None},
         d["room"] \in Rooms \cup {None}, d["lesson"] \in Lessons \cup {None},
         d["teachers"] \in SUBSET Users, d["fit"] \in BOOLEAN
  PROVE  /\ d \in Documents /\ d.state = "live"
         /\ Refs(d) = ({d["course"], d["group"], d["room"], d["lesson"]} \ {None})
                        \cup d["teachers"]
<1>1. d = [state |-> d["state"], course |-> d["course"], group |-> d["group"],
           room |-> d["room"], lesson |-> d["lesson"], teachers |-> d["teachers"],
           fit |-> d["fit"]]
  BY DEF Fields, Links
<1>2. d \in Documents /\ d.state = "live"
  BY <1>1 DEF Documents
<1>3. Refs(d) = ({d[f] : f \in Links} \ {None}) \cup d["teachers"]
  BY DEF Refs, Links, Fields
<1>4. {d[f] : f \in Links} = {d["course"], d["group"], d["room"], d["lesson"]}
  BY DEF Links
<1> QED
  BY <1>2, <1>3, <1>4

LEMMA CoursesPreserve ==
  ASSUME CatalogInv, NEW w \in Workers, NEW c \in Courses, NEW ts \in SUBSET Users,
         CreateCourse(w, c, ts) \/ UpdateCourse(w, c, ts) \/ RemoveCourse(w, c)
  PROVE  CatalogInv'
<1>1. c \in Ids \ Users /\ \A t \in ts : MayRefer(c, t)
  BY KindsAssumption DEF Ids, MayRefer
<1>2. CASE CreateCourse(w, c, ts)
  <2> DEFINE doc == [Blank EXCEPT !.teachers = ts]
  <2>1. doc \in Documents /\ doc.state = "live" /\ Refs(doc) = ts
    <3>1. /\ doc = [f \in Fields |-> doc[f]]
          /\ doc["state"] = "live" /\ doc["course"] = None /\ doc["group"] = None
          /\ doc["room"] = None /\ doc["lesson"] = None /\ doc["teachers"] = ts
          /\ doc["fit"] = FALSE
      BY BlankFields DEF Fields, Links
    <3> HIDE DEF doc
    <3> QED
      BY <3>1, BlankWith
  <2> HIDE DEF doc
  <2>2. Inserts(w, c, doc) /\ \A t \in ts : Teaches(t)
    BY <1>2 DEF CreateCourse, doc
  <2> QED
    BY <1>1, <2>1, <2>2, InsertPreserves DEF Teaches
<1>3. CASE UpdateCourse(w, c, ts)
  <2> DEFINE set == [teachers |-> ts]
  <2>1. Refs(set) = ts
    BY PatchRefs
  <2>2. IsPatch(set) /\ "state" \notin DOMAIN set
    BY Patches
  <2> HIDE DEF set
  <2>3. Saves(w, c, set) /\ \A t \in ts : Teaches(t)
    BY <1>3 DEF UpdateCourse, set
  <2> QED
    BY <1>1, <2>1, <2>2, <2>3, SavePreserves DEF Teaches
<1>4. CASE RemoveCourse(w, c)
  BY <1>1, <1>4, LookUpsComplete, DeletePreserves DEF RemoveCourse, CatalogInv
<1> QED
  BY <1>2, <1>3, <1>4

LEMMA GroupsPreserve ==
  ASSUME CatalogInv, NEW w \in Workers, NEW g \in Groups, NEW c \in Courses, NEW t \in Users,
         CreateGroup(w, g, c, t) \/ UpdateGroup(w, g, c, t)
  PROVE  CatalogInv'
<1>1. g \in Ids \ Users /\ MayRefer(g, c) /\ MayRefer(g, t) /\ c \notin Users
  BY KindsAssumption DEF Ids, MayRefer
<1>2. CASE CreateGroup(w, g, c, t)
  <2> DEFINE doc == [Blank EXCEPT !.course = c, !.teachers = {t}]
  <2>1. doc \in Documents /\ doc.state = "live" /\ Refs(doc) \subseteq {c, t}
    <3>1. /\ doc = [f \in Fields |-> doc[f]]
          /\ doc["state"] = "live" /\ doc["course"] = c /\ doc["group"] = None
          /\ doc["room"] = None /\ doc["lesson"] = None /\ doc["teachers"] = {t}
          /\ doc["fit"] = FALSE
      BY BlankFields DEF Fields, Links
    <3> HIDE DEF doc
    <3> QED
      BY <3>1, BlankWith
  <2> HIDE DEF doc
  <2>2. Inserts(w, g, doc) /\ Live(c) /\ Teaches(t)
    BY <1>2 DEF CreateGroup, doc
  <2> QED
    BY <1>1, <2>1, <2>2, InsertPreserves DEF Teaches
<1>3. CASE UpdateGroup(w, g, c, t)
  <2> DEFINE set == [course |-> c, teachers |-> {t}]
  <2>1. Refs(set) \subseteq {c} \cup {t}
    BY PatchRefs
  <2>2. IsPatch(set) /\ "state" \notin DOMAIN set
    BY Patches
  <2> HIDE DEF set
  <2>3. Saves(w, g, set) /\ Live(c) /\ Teaches(t)
    BY <1>3 DEF UpdateGroup, set
  <2> QED
    BY <1>1, <2>1, <2>2, <2>3, SavePreserves DEF Teaches
<1> QED
  BY <1>2, <1>3

LEMMA GroupCoursePreserves ==
  ASSUME CatalogInv, NEW w \in Workers, NEW g \in Groups, NEW c \in Courses,
         UpdateGroupCourse(w, g, c)
  PROVE  CatalogInv'
<1>1. g \in Ids \ Users /\ MayRefer(g, c) /\ c \notin Users
  BY KindsAssumption DEF Ids, MayRefer
<1> DEFINE set == [course |-> c]
<1>2. Refs(set) \subseteq {c}
  BY PatchRefs
<1>3. IsPatch(set) /\ "state" \notin DOMAIN set
  BY Patches
<1> HIDE DEF set
<1>4. Saves(w, g, set) /\ Live(c)
  BY DEF UpdateGroupCourse, set
<1> QED
  BY <1>1, <1>2, <1>3, <1>4, SavePreserves

LEMMA GroupTeacherPreserves ==
  ASSUME CatalogInv, NEW w \in Workers, NEW g \in Groups, NEW t \in Users,
         UpdateGroupTeacher(w, g, t)
  PROVE  CatalogInv'
<1>1. g \in Ids \ Users /\ MayRefer(g, t)
  BY KindsAssumption DEF Ids, MayRefer
<1> DEFINE set == [teachers |-> {t}]
<1>2. Refs(set) \subseteq {t}
  BY PatchRefs
<1>3. IsPatch(set) /\ "state" \notin DOMAIN set
  BY Patches
<1> HIDE DEF set
<1>4. Saves(w, g, set) /\ Teaches(t)
  BY DEF UpdateGroupTeacher, set
<1> QED
  BY <1>1, <1>2, <1>3, <1>4, SavePreserves DEF Teaches

LEMMA RoomsPreserve ==
  ASSUME CatalogInv, NEW w \in Workers, NEW r \in Rooms, NEW available \in BOOLEAN,
         CreateRoom(w, r) \/ UpdateRoom(w, r, available) \/ RemoveRoom(w, r)
  PROVE  CatalogInv'
<1>1. r \in Ids \ Users
  BY KindsAssumption DEF Ids
<1>2. CASE CreateRoom(w, r)
  <2> DEFINE doc == [Blank EXCEPT !.fit = TRUE]
  <2>1. doc \in Documents /\ doc.state = "live" /\ Refs(doc) \subseteq {}
    <3>1. /\ doc = [f \in Fields |-> doc[f]]
          /\ doc["state"] = "live" /\ doc["course"] = None /\ doc["group"] = None
          /\ doc["room"] = None /\ doc["lesson"] = None /\ doc["teachers"] = {}
          /\ doc["fit"] = TRUE
      BY BlankFields DEF Fields, Links
    <3> HIDE DEF doc
    <3> QED
      BY <3>1, BlankWith
  <2> HIDE DEF doc
  <2>2. Inserts(w, r, doc)
    BY <1>2 DEF CreateRoom, doc
  <2> QED
    BY <1>1, <2>1, <2>2, InsertPreserves
<1>3. CASE UpdateRoom(w, r, available)
  <2> DEFINE set == [fit |-> available]
  <2>1. Refs(set) \subseteq {}
    BY PatchRefs
  <2>2. IsPatch(set) /\ "state" \notin DOMAIN set
    BY Patches
  <2> HIDE DEF set
  <2>3. Saves(w, r, set)
    BY <1>3 DEF UpdateRoom, set
  <2> QED
    BY <1>1, <2>1, <2>2, <2>3, SavePreserves
<1>4. CASE RemoveRoom(w, r)
  BY <1>1, <1>4, LookUpsComplete, DeletePreserves DEF RemoveRoom, CatalogInv
<1> QED
  BY <1>2, <1>3, <1>4

LEMMA LessonsPreserve ==
  ASSUME CatalogInv, NEW w \in Workers, NEW l \in Lessons, NEW c \in Courses,
         NEW r \in Rooms, NEW t \in Users, NEW g \in Groups \cup {None},
         CreateLesson(w, l, c, r, t, g) \/ UpdateLesson(w, l, c, r, t, g)
  PROVE  CatalogInv'
<1>1. /\ l \in Ids \ Users /\ MayRefer(l, c) /\ MayRefer(l, r) /\ MayRefer(l, t)
      /\ c \notin Users /\ r \notin Users
      /\ g # None => MayRefer(l, g) /\ g \notin Users
  BY KindsAssumption DEF Ids, MayRefer
<1>2. CASE CreateLesson(w, l, c, r, t, g)
  <2> DEFINE doc == [Blank EXCEPT !.course = c, !.room = r, !.teachers = {t},
                               !.group = g]
  <2>1. /\ doc \in Documents /\ doc.state = "live"
        /\ Refs(doc) \subseteq {c, r, t} \cup ({g} \ {None})
    <3>1. /\ doc = [f \in Fields |-> doc[f]]
          /\ doc["state"] = "live" /\ doc["course"] = c /\ doc["group"] = g
          /\ doc["room"] = r /\ doc["lesson"] = None /\ doc["teachers"] = {t}
          /\ doc["fit"] = FALSE
      BY BlankFields DEF Fields, Links
    <3> HIDE DEF doc
    <3>2. /\ doc \in Documents /\ doc.state = "live"
          /\ Refs(doc) = ({doc["course"], doc["group"], doc["room"], doc["lesson"]}
                            \ {None}) \cup doc["teachers"]
      BY <3>1, BlankWith
    <3>3. Refs(doc) = ({c, g, r, None} \ {None}) \cup {t}
      BY <3>1, <3>2
    <3> QED
      BY <3>2, <3>3
  <2> HIDE DEF doc
  <2>2. Inserts(w, l, doc) /\ LessonFits(c, r, t, g)
    BY <1>2 DEF CreateLesson, doc
  <2> QED
    BY <1>1, <2>1, <2>2, InsertPreserves DEF Teaches, LessonFits
<1>3. CASE UpdateLesson(w, l, c, r, t, g)
  <2> DEFINE set == IF g = None THEN [course |-> c, room |-> r, teachers |-> {t}]
                   ELSE [course |-> c, room |-> r, teachers |-> {t}, group |-> g]
  <2>1. Refs(set) \subseteq {c, r, t} \cup ({g} \ {None})
    <3>1. CASE g = None
      <4>1. Refs(set) \subseteq {c, r} \cup {t}
        BY <3>1, PatchRefs
      <4> QED
        BY <4>1
    <3>2. CASE g # None
      <4>1. set = [course |-> c, room |-> r, teachers |-> {t}, group |-> g]
        BY <3>2
      <4>2. Refs([course |-> c, room |-> r, teachers |-> {t}, group |-> g])
              \subseteq {c, r, g} \cup {t}
        BY PatchRefs, Zenon
      <4> HIDE DEF set
      <4> QED
        BY <3>2, <4>1, <4>2
    <3> QED
      BY <3>1, <3>2
  <2>2. IsPatch(set) /\ "state" \notin DOMAIN set
    BY Patches
  <2> HIDE DEF set
  <2>3. Saves(w, l, set) /\ LessonFits(c, r, t, g)
    BY <1>3 DEF UpdateLesson, set
  <2> QED
    BY <1>1, <2>1, <2>2, <2>3, SavePreserves DEF Teaches, LessonFits
<1> QED
  BY <1>2, <1>3

LEMMA MarksAndBillsPreserve ==
  ASSUME CatalogInv, NEW w \in Workers,
         \/ \E a \in Marks, l \in Lessons : MarkAttendance(w, a, l)
         \/ \E b \in Bills, c \in Courses, g \in Groups : CreatePayment(w, b, c, g)
         \/ \E b \in Bills : RemovePayment(w, b)
  PROVE  CatalogInv'
<1>1. ASSUME NEW a \in Marks, NEW l \in Lessons, MarkAttendance(w, a, l) PROVE CatalogInv'
  <2> DEFINE doc == [Blank EXCEPT !.lesson = l]
  <2>1. doc \in Documents /\ doc.state = "live" /\ Refs(doc) \subseteq {l}
    <3>1. /\ doc = [f \in Fields |-> doc[f]]
          /\ doc["state"] = "live" /\ doc["course"] = None /\ doc["group"] = None
          /\ doc["room"] = None /\ doc["lesson"] = l /\ doc["teachers"] = {}
          /\ doc["fit"] = FALSE
      BY BlankFields DEF Fields, Links
    <3> HIDE DEF doc
    <3> QED
      BY <3>1, BlankWith
  <2> HIDE DEF doc
  <2>2. Inserts(w, a, doc) /\ Live(l)
    BY <1>1 DEF MarkAttendance, doc
  <2>3. a \in Ids \ Users /\ MayRefer(a, l) /\ l \notin Users
    BY KindsAssumption DEF Ids, MayRefer
  <2> QED
    BY <2>1, <2>2, <2>3, InsertPreserves
<1>2. ASSUME NEW b \in Bills, NEW c \in Courses, NEW g \in Groups, CreatePayment(w, b, c, g)
      PROVE  CatalogInv'
  <2> DEFINE doc == [Blank EXCEPT !.course = c, !.group = g]
  <2>1. doc \in Documents /\ doc.state = "live" /\ Refs(doc) \subseteq {c, g}
    <3>1. /\ doc = [f \in Fields |-> doc[f]]
          /\ doc["state"] = "live" /\ doc["course"] = c /\ doc["group"] = g
          /\ doc["room"] = None /\ doc["lesson"] = None /\ doc["teachers"] = {}
          /\ doc["fit"] = FALSE
      BY BlankFields DEF Fields, Links
    <3> HIDE DEF doc
    <3> QED
      BY <3>1, BlankWith
  <2> HIDE DEF doc
  <2>2. Inserts(w, b, doc) /\ Live(c) /\ Live(g)
    BY <1>2 DEF CreatePayment, doc
  <2>3. b \in Ids \ Users /\ MayRefer(b, c) /\ MayRefer(b, g) /\ c \notin Users /\ g \notin Users
    BY KindsAssumption DEF Ids, MayRefer
  <2> QED
    BY <2>1, <2>2, <2>3, InsertPreserves
<1>3. ASSUME NEW b \in Bills, RemovePayment(w, b) PROVE CatalogInv'
  BY <1>3, LookUpsComplete, DeletePreserves DEF RemovePayment, CatalogInv, Ids
<1> QED
  BY <1>1, <1>2, <1>3

LEMMA UsersPreserve ==
  ASSUME CatalogInv, NEW w \in Workers, NEW t \in Users,
         \/ GrantTeacherRole(w, t) \/ TakeTeacherRole(w, t)
         \/ RemoveUser(w, t) \/ PutRole(w, t)
  PROVE  CatalogInv'
<1>1. t \in Ids
  BY DEF Ids
<1>2. CASE GrantTeacherRole(w, t)
  <2> DEFINE set == [fit |-> TRUE]
  <2>1. Refs(set) \subseteq {}
    BY PatchRefs
  <2>2. IsPatch(set) /\ "state" \notin DOMAIN set
    BY Patches
  <2>4. set.fit
    OBVIOUS
  <2> HIDE DEF set
  <2>3. Saves(w, t, set)
    BY <1>2 DEF GrantTeacherRole, set
  <2> QED
    BY <1>1, <2>1, <2>2, <2>3, <2>4, SavePreserves
<1>3. CASE TakeTeacherRole(w, t)
  <2> DEFINE set == [fit |-> FALSE]
  <2>1. Refs(set) \subseteq {}
    BY PatchRefs
  <2>2. IsPatch(set) /\ "state" \notin DOMAIN set
    BY Patches
  <2> HIDE DEF set
  <2>3. Saves(w, t, set) /\ Referrers(Courses \cup Groups \cup Lessons, t) = {}
    BY <1>3 DEF TakeTeacherRole, set
  <2> QED
    BY <1>1, <2>1, <2>2, <2>3, LookUpsComplete, SavePreserves DEF CatalogInv
<1>4. CASE RemoveUser(w, t)
  BY <1>1, <1>4, LookUpsComplete, DeletePreserves DEF RemoveUser, CatalogInv
<1>5. CASE PutRole(w, t)
  <2> DEFINE set == [fit |-> FALSE]
  <2>1. Refs(set) = {} /\ IsPatch(set)
    BY PatchRefs, Patches
  <2> HIDE DEF set
  <2>2. IsRequest(Writing("put", t, set))
    BY <1>1, <2>1 DEF IsRequest, Writing, set
  <2>3. Grounded(Writing("put", t, set))
    BY <2>1 DEF Grounded, Writing, Withdraws
  <2> QED
    BY <1>5, <2>2, <2>3, PlanPreserves DEF PutRole, set
<1> QED
  BY <1>2, <1>3, <1>4, <1>5

LEMMA HandlersPreserve ==
  ASSUME CatalogInv, NEW w \in Workers, Handles(w)
  PROVE  CatalogInv'
<1>1. ASSUME NEW g \in Groups, RemoveGroup(w, g) PROVE CatalogInv'
  BY <1>1, LookUpsComplete, DeletePreserves DEF RemoveGroup, CatalogInv, Ids
<1>2. ASSUME NEW l \in Lessons, RemoveLesson(w, l) PROVE CatalogInv'
  BY <1>2, LookUpsComplete, DeletePreserves DEF RemoveLesson, CatalogInv, Ids
<1>3. ASSUME NEW c \in Courses, RemoveCourse(w, c) PROVE CatalogInv'
  BY <1>3, LookUpsComplete, DeletePreserves DEF RemoveCourse, CatalogInv, Ids
<1>4. ASSUME NEW r \in Rooms, CreateRoom(w, r) \/ RemoveRoom(w, r) PROVE CatalogInv'
  BY <1>4, RoomsPreserve
<1> QED
  BY <1>1, <1>2, <1>3, <1>4, CoursesPreserve, GroupsPreserve, GroupCoursePreserves,
     GroupTeacherPreserves, RoomsPreserve, LessonsPreserve,
     MarksAndBillsPreserve, UsersPreserve DEF Handles

-----------------------------------------------------------------------------
(* The writes *)

\* What a write that lands does to the documents.
LEMMA LandingEffect ==
  ASSUME CatalogInv, NEW w \in Workers, request[w] # Idle, Commit(w), Lands(request[w])
  PROVE  LET r == request[w] IN
         /\ IsRequest(r) /\ Grounded(r)
         /\ docs' \in [Ids -> Documents]
         /\ \A x \in Ids \ {r.id} : docs'[x] = docs[x]
         /\ \A f \in Fields : docs'[r.id][f] = IF f \in DOMAIN r.set THEN r.set[f] ELSE docs[r.id][f]
         /\ \A y \in Refs(docs'[r.id]) \ Refs(r.set) : y \in Refs(docs[r.id])
         /\ r.op = "insert" => docs'[r.id] = r.set /\ r.id \notin Users
         /\ r.op = "delete" => docs'[r.id].state = "deleted"
         /\ r.op \in {"save", "put"} => Live(r.id) /\ docs'[r.id].state = "live"
         /\ r.op \in {"insert", "delete", "save", "put"}
<1> DEFINE r == request[w]
           i == r.id
<1>1. IsRequest(r) /\ Grounded(r)
  BY InvParts DEF TypeOK
<1>2. /\ docs' = [docs EXCEPT ![i] = Merge(docs[i], r.set)]
      /\ docs \in [Ids -> Documents] /\ i \in Ids
  BY <1>1 DEF Commit, CatalogInv, TypeOK, IsRequest
<1>3. IsPatch(r.set)
  BY <1>1 DEF IsRequest
<1> HIDE DEF r
<1>4. /\ docs' \in [Ids -> Documents] /\ docs'[i] = Merge(docs[i], r.set)
      /\ \A x \in Ids \ {i} : docs'[x] = docs[x]
  BY <1>2, <1>3, MergeEffect
<1>5. \A f \in Fields : docs'[i][f] = IF f \in DOMAIN r.set THEN r.set[f] ELSE docs[i][f]
  BY <1>2, <1>3, <1>4, MergeEffect
<1>6. \A y \in Refs(docs'[i]) \ Refs(r.set) : y \in Refs(docs[i])
  BY <1>2, <1>3, <1>4, MergeEffect
<1>7. r.set \in Documents => docs'[i] = r.set
  BY <1>2, <1>3, <1>4, MergeEffect
<1>8. r.op = "insert" => docs'[i] = r.set /\ i \notin Users
  BY <1>1, <1>7 DEF IsRequest
<1>9. r.op = "delete" => docs'[i].state = "deleted"
  <2>1. Document("deleted", FALSE).state = "deleted"
    BY DEF Document
  <2> QED
    BY <1>1, <1>7, <2>1, EmptyDocument DEF IsRequest
<1>10. ASSUME r.op \in {"save", "put"} PROVE Live(i) /\ docs'[i].state = "live"
  <2>1. Live(i)
    <3>1. Lands(r) /\ r.op # "insert"
      BY <1>10 DEF r
    <3> QED
      BY <3>1 DEF Lands
  <2>2. "state" \notin DOMAIN r.set
    <3>1. CASE r.op = "save"
      BY <1>1, <3>1 DEF IsRequest
    <3>2. CASE r.op = "put"
      <4>1. r.set = [fit |-> FALSE]
        BY <1>1, <3>2 DEF IsRequest
      <4> QED
        BY <4>1
    <3> QED
      BY <1>10, <3>1, <3>2
  <2>3. "state" \in Fields
    BY DEF Fields
  <2> QED
    BY <1>5, <2>1, <2>2, <2>3 DEF Live
<1>11. r.op \in {"insert", "delete", "save", "put"}
  BY <1>1 DEF IsRequest
<1> QED
  BY <1>1, <1>4, <1>5, <1>6, <1>8, <1>9, <1>10, <1>11 DEF r

\* A write that lands is excused for what it missed, and a PUT for all who
\* name the user; an old excuse stays but for the references looked at again.
LEMMA Excuses ==
  ASSUME NEW r, excused' = ExcusedBy(r), NEW x, NEW y, RefersTo(x, y),
         \/ r.id = x /\ y \in r.since \ {x}
         \/ r.id = y /\ x \in r.since \ {y}
         \/ r.id = y /\ r.op = "put" /\ x \in Referrers(Ids, y)
         \/ {x, y} \in excused /\ r.id \notin {x, y}
         \/ {x, y} \in excused /\ r.id = x /\ y \notin Refs(r.set)
         \/ {x, y} \in excused /\ Refs(r.set) = {}
  PROVE  {x, y} \in excused'
<1> DEFINE kept == {q \in excused : \A z \in Refs(r.set) : q # {r.id, z}}
           missed == {{r.id, z} : z \in r.since \ {r.id}}
           put == {{r.id, z} : z \in IF r.op = "put" THEN Referrers(Ids, r.id) ELSE {}}
<1>1. {x, y} \in kept \cup missed \cup put
  <2>1. {x, y} = {y, x}
    OBVIOUS
  <2>2. CASE r.id = x /\ y \in r.since \ {x}
    BY <2>2
  <2>3. CASE r.id = y /\ x \in r.since \ {y}
    BY <2>1, <2>3
  <2>4. CASE r.id = y /\ r.op = "put" /\ x \in Referrers(Ids, y)
    BY <2>1, <2>4
  <2>5. CASE {x, y} \in excused /\ r.id \notin {x, y}
    BY <2>5
  <2>6. CASE {x, y} \in excused /\ r.id = x /\ y \notin Refs(r.set)
    BY <2>6
  <2>7. CASE {x, y} \in excused /\ Refs(r.set) = {}
    BY <2>7
  <2> QED
    BY <2>2, <2>3, <2>4, <2>5, <2>6, <2>7
<1>2. x \in {x, y} /\ y \in {x, y}
  OBVIOUS
<1>3. excused' = {p \in kept \cup missed \cup put : \E a, b \in p : RefersTo(a, b)}
  BY DEF ExcusedBy
<1> HIDE DEF kept, missed, put
<1> QED
  BY <1>1, <1>2, <1>3

LEMMA LandingKeepsRefs ==
  ASSUME CatalogInv, NEW w \in Workers, request[w] # Idle, Commit(w), Lands(request[w])
  PROVE  RefsLiveUnlessRaced'
<1> DEFINE r == request[w]
           i == r.id
<1>1. /\ IsRequest(r) /\ Grounded(r)
      /\ docs' \in [Ids -> Documents]
      /\ \A x \in Ids \ {i} : docs'[x] = docs[x]
      /\ \A y \in Refs(docs'[i]) \ Refs(r.set) : y \in Refs(docs[i])
      /\ r.op = "insert" => docs'[i] = r.set
      /\ r.op = "delete" => docs'[i].state = "deleted"
      /\ r.op \in {"save", "put"} => Live(i) /\ docs'[i].state = "live"
      /\ r.op \in {"insert", "delete", "save", "put"}
  BY LandingEffect
<1>2. excused' = ExcusedBy(r) /\ i \in Ids
  BY <1>1 DEF Commit, IsRequest
<1>3. /\ RefsLiveUnlessRaced
      /\ \A x \in Ids : \A y \in Refs(docs[x]) : MayRefer(x, y)
      /\ \A y \in Refs(r.set) : MayRefer(i, y)
  BY <1>1, InvParts DEF TypeOK, IsRequest
<1> HIDE DEF r
<1> SUFFICES ASSUME NEW x \in Checked, docs'[x].state = "live", NEW y \in Refs(docs'[x])
             PROVE  docs'[y].state = "live" \/ {x, y} \in excused'
  BY DEF RefsLiveUnlessRaced, Live
<1>4. RefersTo(x, y) /\ x \in Ids
  BY DEF RefersTo, Checked
<1>5. CASE x = i
  <2>1. CASE y \in Refs(r.set)
    <3>1. y # i /\ y \in Ids
      BY <1>3, <2>1, ReferralsAcyclic
    <3>2. CASE y \in r.since
      BY <1>2, <1>4, <1>5, <3>1, <3>2, Excuses
    <3>3. CASE y \notin r.since
      <4>1. Live(y)
        BY <1>1, <1>5, <2>1, <3>3 DEF Grounded
      <4> QED
        BY <1>1, <3>1, <4>1 DEF Live
    <3> QED
      BY <3>2, <3>3
  <2>2. CASE y \notin Refs(r.set)
    <3>1. y \in Refs(docs[i]) /\ Live(i)
      BY <1>1, <1>5, <2>2
    <3>2. y # i /\ y \in Ids
      BY <1>2, <1>3, <3>1, ReferralsAcyclic
    <3>3. Live(y) \/ {i, y} \in excused
      BY <1>3, <1>5, <3>1 DEF RefsLiveUnlessRaced
    <3>4. CASE Live(y)
      BY <1>1, <3>2, <3>4 DEF Live
    <3>5. CASE {i, y} \in excused
      BY <1>2, <1>4, <1>5, <2>2, <3>5, Excuses
    <3> QED
      BY <3>3, <3>4, <3>5
  <2> QED
    BY <2>1, <2>2
<1>6. CASE x # i
  <2>1. Live(x) /\ y \in Refs(docs[x]) /\ y \in Ids
    BY <1>1, <1>3, <1>4, <1>6, ReferralsAcyclic DEF Live
  <2>2. CASE y = i
    <3>1. CASE r.op = "delete"
      <4>1. x \in r.since
        BY <1>1, <2>1, <2>2, <3>1 DEF Grounded, Withdraws, Referrers
      <4> QED
        BY <1>2, <1>4, <1>6, <2>2, <4>1, Excuses
    <3>2. CASE r.op = "insert"
      <4>1. r.set.state = "live"
        BY <1>1, <3>2 DEF IsRequest
      <4> QED
        BY <1>1, <2>2, <3>2, <4>1
    <3> QED
      BY <1>1, <2>2, <3>1, <3>2
  <2>3. CASE y # i
    <3>1. Live(y) \/ {x, y} \in excused
      BY <1>3, <2>1 DEF RefsLiveUnlessRaced
    <3>2. CASE Live(y)
      BY <1>1, <2>1, <2>3, <3>2 DEF Live
    <3>3. CASE {x, y} \in excused
      BY <1>2, <1>4, <1>6, <2>3, <3>3, Excuses
    <3> QED
      BY <3>1, <3>2, <3>3
  <2> QED
    BY <2>2, <2>3
<1> QED
  BY <1>5, <1>6

LEMMA LandingKeepsTeachers ==
  ASSUME CatalogInv, NEW w \in Workers, request[w] # Idle, Commit(w), Lands(request[w])
  PROVE  TeachersTeach'
<1> DEFINE r == request[w]
           i == r.id
<1>1. /\ IsRequest(r) /\ Grounded(r)
      /\ docs' \in [Ids -> Documents]
      /\ \A x \in Ids \ {i} : docs'[x] = docs[x]
      /\ \A f \in Fields : docs'[i][f] = IF f \in DOMAIN r.set THEN r.set[f] ELSE docs[i][f]
      /\ r.op = "insert" => docs'[i] = r.set /\ i \notin Users
      /\ r.op = "delete" => docs'[i].state = "deleted"
      /\ r.op \in {"save", "put"} => Live(i) /\ docs'[i].state = "live"
      /\ r.op \in {"insert", "delete", "save", "put"}
  BY LandingEffect
<1>2. excused' = ExcusedBy(r) /\ i \in Ids
  BY <1>1 DEF Commit, IsRequest
<1>3. /\ TeachersTeach /\ docs \in [Ids -> Documents]
      /\ \A x \in Ids : \A y \in Refs(docs[x]) : MayRefer(x, y)
      /\ \A y \in Refs(r.set) : MayRefer(i, y)
  BY <1>1, InvParts DEF TypeOK, IsRequest
<1> HIDE DEF r
<1> SUFFICES ASSUME NEW x \in Checked, docs'[x].state = "live", NEW t \in docs'[x].teachers
             PROVE  docs'[t].fit \/ {x, t} \in excused'
  BY DEF TeachersTeach, Live
<1>4. t \in Users /\ t \in Ids /\ RefersTo(x, t) /\ x \in Ids
  BY <1>1, TeachersAreRefs DEF RefersTo, Checked, Ids
<1>5. CASE x = i
  <2>1. CASE t \in Refs(r.set)
    <3>1. t # i
      BY <1>3, <2>1, ReferralsAcyclic
    <3>2. CASE t \in r.since
      BY <1>2, <1>4, <1>5, <3>1, <3>2, Excuses
    <3>3. CASE t \notin r.since
      <4>1. docs[t].fit
        BY <1>1, <1>4, <1>5, <2>1, <3>3 DEF Grounded
      <4> QED
        BY <1>1, <1>4, <3>1, <4>1
    <3> QED
      BY <3>2, <3>3
  <2>2. CASE t \notin Refs(r.set)
    <3>1. t \in docs[i].teachers
      <4>1. "teachers" \in Fields
        BY DEF Fields
      <4>2. "teachers" \in DOMAIN r.set => t \notin r.set["teachers"]
        BY <2>2, RefsOf
      <4> QED
        BY <1>1, <1>5, <4>1, <4>2
    <3>2. Live(i)
      <4>1. r.op # "insert"
        BY <1>1, <1>4, <1>5, <2>2, TeachersAreRefs
      <4> QED
        BY <1>1, <1>5, <4>1
    <3>3. t # i
      BY <1>2, <1>3, <3>1, TeachersAreRefs, ReferralsAcyclic
    <3>4. docs[t].fit \/ {i, t} \in excused
      BY <1>3, <1>5, <3>1, <3>2 DEF TeachersTeach
    <3>5. CASE docs[t].fit
      BY <1>1, <1>4, <3>3, <3>5
    <3>6. CASE {i, t} \in excused
      BY <1>2, <1>4, <1>5, <2>2, <3>6, Excuses
    <3> QED
      BY <3>4, <3>5, <3>6
  <2> QED
    BY <2>1, <2>2
<1>6. CASE x # i
  <2>1. Live(x) /\ t \in docs[x].teachers /\ t \in Refs(docs[x])
    BY <1>1, <1>3, <1>4, <1>6, TeachersAreRefs DEF Live
  <2>2. docs[t].fit \/ {x, t} \in excused
    BY <1>3, <2>1 DEF TeachersTeach
  <2>3. CASE t = i
    <3>1. CASE Withdraws(r)
      <4>1. x \in r.since
        BY <1>1, <2>1, <2>3, <3>1 DEF Grounded, Referrers
      <4> QED
        BY <1>2, <1>4, <1>6, <2>3, <4>1, Excuses
    <3>2. CASE r.op = "put"
      <4>1. x \in Referrers(Ids, t)
        BY <1>4, <2>1 DEF Referrers
      <4> QED
        BY <1>2, <1>4, <2>3, <3>2, <4>1, Excuses
    <3>3. CASE r.op = "save" /\ ~Withdraws(r)
      <4>1. r.set["fit"] /\ "fit" \in Fields
        BY <1>4, <2>3, <3>3 DEF Withdraws, Fields
      <4>2. CASE "fit" \in DOMAIN r.set
        BY <1>1, <2>3, <4>1, <4>2
      <4>3. CASE "fit" \notin DOMAIN r.set
        <5>1. docs'[i]["fit"] = docs[i]["fit"]
          BY <1>1, <4>1, <4>3
        <5>2. Refs(r.set) = {}
          BY <1>3, <1>4, <2>3, ReferralsAcyclic
        <5> QED
          BY <1>2, <1>4, <2>2, <2>3, <5>1, <5>2, Excuses
      <4> QED
        BY <4>2, <4>3
    <3> QED
      BY <1>1, <1>4, <2>3, <3>1, <3>2, <3>3 DEF Withdraws
  <2>4. CASE t # i
    <3>1. CASE docs[t].fit
      BY <1>1, <1>4, <2>4, <3>1
    <3>2. CASE {x, t} \in excused
      BY <1>2, <1>4, <1>6, <2>4, <3>2, Excuses
    <3> QED
      BY <2>2, <3>1, <3>2
  <2> QED
    BY <2>3, <2>4
<1> QED
  BY <1>5, <1>6

\* The other requests learn of the write if it concerns them.
LEMMA Noted ==
  ASSUME CatalogInv, NEW w \in Workers, NEW id, NoteWrite(w, id)
  PROVE  /\ request' = [v \in Workers |-> request'[v]]
         /\ \A v \in Workers : request'[v] # Idle =>
              /\ request[v] # Idle /\ IsRequest(request[v])
              /\ request'[v] = [request[v] EXCEPT !.since =
                   @ \cup IF id \in Refs(request[v].set) \/ RefersTo(id, request[v].id)
                          THEN {id} ELSE {}]
<1>1. /\ request' = [v \in Workers |-> request'[v]]
      /\ \A v \in Workers : request'[v] =
           IF v = w \/ request[v] = Idle THEN Idle
           ELSE IF id \in Refs(request[v].set) \/ RefersTo(id, request[v].id)
           THEN [request[v] EXCEPT !.since = @ \cup {id}]
           ELSE request[v]
  BY DEF NoteWrite
<1>2. ASSUME NEW v \in Workers, request'[v] # Idle
      PROVE  /\ request[v] # Idle /\ IsRequest(request[v])
             /\ request'[v] = [request[v] EXCEPT !.since =
                  @ \cup IF id \in Refs(request[v].set) \/ RefersTo(id, request[v].id)
                         THEN {id} ELSE {}]
  <2>1. request[v] # Idle /\ IsRequest(request[v])
    BY <1>1, <1>2 DEF CatalogInv, TypeOK
  <2>2. CASE id \in Refs(request[v].set) \/ RefersTo(id, request[v].id)
    BY <1>1, <1>2, <2>1, <2>2
  <2>3. CASE ~(id \in Refs(request[v].set) \/ RefersTo(id, request[v].id))
    <3>1. request'[v] = request[v]
      BY <1>1, <1>2, <2>3
    <3>2. request[v] = [request[v] EXCEPT !.since = @ \cup {}]
      BY <2>1 DEF IsRequest
    <3> QED
      BY <2>1, <2>3, <3>1, <3>2
  <2> QED
    BY <2>1, <2>2, <2>3
<1> QED
  BY <1>1, <1>2

LEMMA SinceGrows ==
  ASSUME NEW q, IsRequest(q), NEW S \in SUBSET Ids
  PROVE  LET n == [q EXCEPT !.since = @ \cup S] IN
         /\ IsRequest(n) /\ n.id = q.id /\ n.set = q.set /\ n.since = q.since \cup S
         /\ Withdraws(n) <=> Withdraws(q)
<1> DEFINE n == [q EXCEPT !.since = @ \cup S]
<1>1. /\ n = [op |-> q.op, id |-> q.id, set |-> q.set, since |-> q.since \cup S]
      /\ n.op = q.op /\ n.id = q.id /\ n.set = q.set /\ n.since = q.since \cup S
  BY DEF IsRequest
<1> HIDE DEF n
<1>2. IsRequest(n)
  BY <1>1 DEF IsRequest
<1>3. Withdraws(n) <=> Withdraws(q)
  BY <1>1 DEF Withdraws
<1> QED
  BY <1>1, <1>2, <1>3 DEF n

LEMMA LandingKeepsGrounds ==
  ASSUME CatalogInv, NEW w \in Workers, request[w] # Idle, Commit(w), Lands(request[w])
  PROVE  \A v \in Workers : request'[v] # Idle => Grounded(request[v])'
<1> DEFINE i == request[w].id
<1>1. /\ docs' \in [Ids -> Documents] /\ i \in Ids
      /\ \A x \in Ids \ {i} : docs'[x] = docs[x]
  BY LandingEffect DEF IsRequest
<1>2. NoteWrite(w, i)
  BY DEF Commit
<1> HIDE DEF i
<1> SUFFICES ASSUME NEW v \in Workers, request'[v] # Idle PROVE Grounded(request[v])'
  OBVIOUS
<1> DEFINE q == request[v]
           S == IF i \in Refs(q.set) \/ RefersTo(i, q.id) THEN {i} ELSE {}
           n == request'[v]
<1>3. request[v] # Idle /\ IsRequest(q) /\ n = [q EXCEPT !.since = @ \cup S]
  BY <1>2, Noted
<1>4. Grounded(q)
  BY <1>3, InvParts
<1>5. /\ n.id = q.id /\ n.set = q.set /\ n.since = q.since \cup S
      /\ Withdraws(n) <=> Withdraws(q)
  <2>1. S \in SUBSET Ids
    BY <1>1
  <2> HIDE DEF S, q, n
  <2> QED
    BY <1>3, <2>1, SinceGrows
<1>6. \A y \in Refs(q.set) : y \in Ids
  BY <1>3, ReferralsAcyclic DEF IsRequest
<1> HIDE DEF q, n
<1>7. ASSUME n.id \in Checked, NEW y \in Refs(n.set) \ n.since
      PROVE  docs'[y].state = "live" /\ (y \in Users => docs'[y].fit)
  <2>1. y \in Refs(q.set) \ q.since /\ y # i /\ y \in Ids
    BY <1>5, <1>6, <1>7
  <2>2. Live(y) /\ (y \in Users => docs[y].fit)
    BY <1>4, <1>5, <1>7, <2>1 DEF Grounded
  <2> QED
    BY <1>1, <2>1, <2>2 DEF Live
<1>8. ASSUME Withdraws(n), NEW x \in Checked, docs'[x].state = "live", n.id \in Refs(docs'[x])
      PROVE  x \in n.since
  <2>1. CASE x = i
    BY <1>5, <1>8, <2>1 DEF RefersTo
  <2>2. CASE x # i
    <3>1. docs'[x] = docs[x]
      BY <1>1, <2>2 DEF Checked
    <3> QED
      BY <1>4, <1>5, <1>8, <3>1 DEF Grounded, Referrers, Live
  <2> QED
    BY <2>1, <2>2
<1> QED
  BY <1>7, <1>8 DEF Grounded, Live, Referrers, Withdraws, n

LEMMA LandingKeepsType ==
  ASSUME CatalogInv, NEW w \in Workers, request[w] # Idle, Commit(w), Lands(request[w])
  PROVE  TypeOK'
<1> DEFINE r == request[w]
           i == r.id
<1>1. /\ IsRequest(r)
      /\ docs' \in [Ids -> Documents]
      /\ \A x \in Ids \ {i} : docs'[x] = docs[x]
      /\ \A y \in Refs(docs'[i]) \ Refs(r.set) : y \in Refs(docs[i])
  BY LandingEffect
<1>2. excused' = ExcusedBy(r) /\ NoteWrite(w, i) /\ i \in Ids
  BY <1>1 DEF Commit, IsRequest
<1>3. /\ \A x \in Ids : \A y \in Refs(docs[x]) : MayRefer(x, y)
      /\ \A y \in Refs(r.set) : MayRefer(i, y)
      /\ r.since \subseteq Ids /\ excused \subseteq SUBSET Ids
  BY <1>1 DEF CatalogInv, TypeOK, IsRequest
<1> HIDE DEF r
<1>4. \A x \in Ids : \A y \in Refs(docs'[x]) : MayRefer(x, y)
  <2>1. ASSUME NEW x \in Ids, NEW y \in Refs(docs'[x]) PROVE MayRefer(x, y)
    BY <1>1, <1>2, <1>3, <2>1
  <2> QED
    BY <2>1
<1>5. excused' \subseteq SUBSET Ids
  <2>1. \A x \in Referrers(Ids, i) : x \in Ids
    BY DEF Referrers
  <2> QED
    BY <1>2, <1>3, <2>1 DEF ExcusedBy
<1>6. \A v \in Workers : request'[v] = Idle \/ IsRequest(request'[v])
  <2>1. ASSUME NEW v \in Workers, request'[v] # Idle PROVE IsRequest(request'[v])
    <3> DEFINE S == IF i \in Refs(request[v].set) \/ RefersTo(i, request[v].id)
                    THEN {i} ELSE {}
    <3>1. /\ IsRequest(request[v]) /\ request'[v] = [request[v] EXCEPT !.since = @ \cup S]
          /\ S \in SUBSET Ids
      BY <1>2, <2>1, Noted
    <3> HIDE DEF S
    <3> QED
      BY <3>1, SinceGrows
  <2> QED
    BY <2>1
<1>7. request' = [v \in Workers |-> request'[v]]
  BY <1>2, Noted
<1> QED
  BY <1>1, <1>4, <1>5, <1>6, <1>7 DEF TypeOK

\* A write that does not land, or is never made, leaves the documents alone.
LEMMA GivingUpPreserves ==
  ASSUME CatalogInv, NEW w \in Workers, request' = [request EXCEPT ![w] = Idle],
         UNCHANGED <<docs, excused>>
  PROVE  CatalogInv'
<1>1. request = [v \in Workers |-> request[v]]
  BY DEF CatalogInv, TypeOK
<1>2. /\ request' = [v \in Workers |-> request'[v]]
      /\ \A v \in Workers : request'[v] = IF v = w THEN Idle ELSE request[v]
  BY <1>1
<1>3. TypeOK'
  BY <1>2 DEF CatalogInv, TypeOK
<1>4. RefsLiveUnlessRaced' /\ TeachersTeach'
  BY InvParts DEF RefsLiveUnlessRaced, TeachersTeach, Live
<1>5. ASSUME NEW v \in Workers, request'[v] # Idle PROVE Grounded(request[v])'
  <2>1. Grounded(request[v]) /\ request'[v] = request[v]
    BY <1>2, <1>5, InvParts
  <2> QED
    BY <2>1 DEF Grounded, Referrers, Live
<1> QED
  BY <1>3, <1>4, <1>5 DEF CatalogInv, Grounded

-----------------------------------------------------------------------------

LEMMA InitInv == ASSUME Init PROVE CatalogInv
<1>1. docs \in [Ids -> Documents] /\ \A x \in Ids : Refs(docs[x]) = {}
  BY EmptyDocument DEF Init
<1>2. TypeOK
  BY <1>1 DEF Init, TypeOK
<1>3. RefsLiveUnlessRaced
  BY <1>1 DEF RefsLiveUnlessRaced, Checked
<1>4. TeachersTeach
  <2>1. ASSUME NEW x \in Checked, NEW t \in docs[x].teachers PROVE FALSE
    BY <1>1, <2>1, TeachersAreRefs DEF Checked
  <2> QED
    BY <2>1 DEF TeachersTeach
<1>5. \A w \in Workers : request[w] = Idle
  BY DEF Init
<1> QED
  BY <1>2, <1>3, <1>4, <1>5, InvParts

LEMMA NextPreserves == ASSUME CatalogInv, [Next]_vars PROVE CatalogInv'
<1>1. ASSUME NEW w \in Workers, Handles(w) PROVE CatalogInv'
  BY <1>1, HandlersPreserve
<1>2. ASSUME NEW w \in Workers, Commit(w) PROVE CatalogInv'
  <2>1. request[w] # Idle
    BY <1>2 DEF Commit
  <2>2. CASE Lands(request[w])
    BY <1>2, <2>1, <2>2, LandingKeepsType, LandingKeepsRefs, LandingKeepsTeachers,
       LandingKeepsGrounds DEF CatalogInv, Grounded
  <2>3. CASE ~Lands(request[w])
    BY <1>2, <2>3, GivingUpPreserves DEF Commit
  <2> QED
    BY <2>2, <2>3
<1>3. ASSUME NEW w \in Workers, Abort(w) PROVE CatalogInv'
  BY <1>3, GivingUpPreserves DEF Abort
<1>4. CASE UNCHANGED vars
  BY <1>4 DEF vars, CatalogInv, TypeOK, RefsLiveUnlessRaced, TeachersTeach, Live, Referrers
<1> QED
  BY <1>1, <1>2, <1>3, <1>4 DEF Next

\* Whatever the requests do at once, the documents and the writes under way
\* stay as the look-ups left them, but for what was written in between.
THEOREM CatalogInvariant == Spec => []CatalogInv
<1>1. Init => CatalogInv
  BY InitInv
<1>2. CatalogInv /\ [Next]_vars => CatalogInv'
  BY NextPreserves
<1> QED
  BY <1>1, <1>2, PTL DEF Spec

\* References of courses, groups, lessons and attendance records dangle only
\* where the deletion and the reference were under way at once.
THEOREM ReferencesLive == Spec => []RefsLiveUnlessRaced
<1>1. CatalogInv => RefsLiveUnlessRaced
  BY DEF CatalogInv
<1> QED
  BY <1>1, CatalogInvariant, PTL

\* Those named as teachers have the role, but for races and the general PUT.
THEOREM TeachersHaveRole == Spec => []TeachersTeach
<1>1. CatalogInv => TeachersTeach
  BY DEF CatalogInv
<1> QED
  BY <1>1, CatalogInvariant, PTL

-----------------------------------------------------------------------------
(* One request at a time *)

Alone == \A w \in Workers : request[w] # Idle => request[w].since = {}

LEMMA AloneStays ==
  ASSUME NEW one, Workers = {one}, CatalogInv, Alone, [Next]_vars
  PROVE  Alone'
<1>0. request = [w \in Workers |-> request[w]]
  BY DEF CatalogInv, TypeOK
<1>1. ASSUME NEW op, NEW id, NEW set, Plans(one, op, id, set) PROVE Alone'
  <2>1. request'[one] = Writing(op, id, set)
    BY <1>0, <1>1 DEF Plans
  <2> QED
    BY <2>1 DEF Alone, Writing
<1>2. CASE Handles(one)
  BY <1>1, <1>2 DEF Handles, CreateCourse, UpdateCourse, RemoveCourse, CreateGroup,
     UpdateGroup, UpdateGroupCourse, UpdateGroupTeacher, RemoveGroup, CreateRoom,
     UpdateRoom, RemoveRoom, CreateLesson, UpdateLesson, RemoveLesson, MarkAttendance,
     CreatePayment, RemovePayment, GrantTeacherRole, TakeTeacherRole, RemoveUser,
     PutRole, Inserts, Saves, Deletes
<1>3. CASE Commit(one) \/ Abort(one)
  <2>1. NoteWrite(one, request[one].id) \/ request' = [request EXCEPT ![one] = Idle]
    BY <1>3 DEF Commit, Abort
  <2>2. request'[one] = Idle
    BY <1>0, <2>1 DEF NoteWrite
  <2> QED
    BY <2>2 DEF Alone
<1>4. CASE UNCHANGED vars
  BY <1>4 DEF vars, Alone
<1> QED
  BY <1>2, <1>3, <1>4 DEF Next

LEMMA AloneKeepsRefs ==
  ASSUME CatalogInv, Alone, RefsLive, [Next]_vars
  PROVE  RefsLive'
<1>1. ASSUME UNCHANGED docs PROVE RefsLive'
  BY <1>1 DEF RefsLive, Live
<1>2. ASSUME NEW w \in Workers, Handles(w) PROVE UNCHANGED docs
  BY <1>2 DEF Handles, CreateCourse, UpdateCourse, RemoveCourse, CreateGroup,
     UpdateGroup, UpdateGroupCourse, UpdateGroupTeacher, RemoveGroup, CreateRoom,
     UpdateRoom, RemoveRoom, CreateLesson, UpdateLesson, RemoveLesson, MarkAttendance,
     CreatePayment, RemovePayment, GrantTeacherRole, TakeTeacherRole, RemoveUser,
     PutRole, Inserts, Saves, Deletes, Plans
<1>3. ASSUME NEW w \in Workers, Commit(w), Lands(request[w]) PROVE RefsLive'
  <2> DEFINE r == request[w]
             i == r.id
  <2>1. request[w] # Idle
    BY <1>3 DEF Commit
  <2>2. /\ IsRequest(r) /\ Grounded(r)
        /\ docs' \in [Ids -> Documents]
        /\ \A x \in Ids \ {i} : docs'[x] = docs[x]
        /\ \A y \in Refs(docs'[i]) \ Refs(r.set) : y \in Refs(docs[i])
        /\ r.op = "insert" => docs'[i] = r.set
        /\ r.op = "delete" => docs'[i].state = "deleted"
        /\ r.op \in {"save", "put"} => Live(i) /\ docs'[i].state = "live"
        /\ r.op \in {"insert", "delete", "save", "put"}
    BY <1>3, <2>1, LandingEffect
  <2>3. r.since = {}
    BY <2>1 DEF Alone
  <2>4. /\ \A x \in Ids : \A y \in Refs(docs[x]) : MayRefer(x, y)
        /\ \A y \in Refs(r.set) : MayRefer(i, y)
    BY <2>2 DEF CatalogInv, TypeOK, IsRequest
  <2> HIDE DEF r
  <2> SUFFICES ASSUME NEW x \in Checked, docs'[x].state = "live", NEW y \in Refs(docs'[x])
               PROVE  docs'[y].state = "live"
    BY DEF RefsLive, Live
  <2>5. CASE x = i
    <3>1. Live(y) /\ MayRefer(i, y)
      <4>1. CASE y \in Refs(r.set)
        BY <2>2, <2>3, <2>4, <2>5, <4>1 DEF Grounded
      <4>2. CASE y \notin Refs(r.set)
        BY <2>2, <2>4, <2>5, <4>2 DEF RefsLive, Checked
      <4> QED
        BY <4>1, <4>2
    <3>2. y # i /\ y \in Ids
      BY <3>1, ReferralsAcyclic
    <3> QED
      BY <2>2, <3>1, <3>2 DEF Live
  <2>6. CASE x # i
    <3>1. Live(x) /\ y \in Refs(docs[x]) /\ y \in Ids
      BY <2>2, <2>4, <2>6, ReferralsAcyclic DEF Live, Checked
    <3>2. CASE y = i
      <4>1. r.op # "delete"
        BY <2>2, <2>3, <3>1, <3>2 DEF Grounded, Withdraws, Referrers
      <4>2. r.op = "insert" => r.set.state = "live"
        BY <2>2 DEF IsRequest
      <4> QED
        BY <2>2, <3>2, <4>1, <4>2
    <3>3. CASE y # i
      BY <2>2, <3>1, <3>3 DEF RefsLive, Live
    <3> QED
      BY <3>2, <3>3
  <2> QED
    BY <2>5, <2>6
<1> QED
  BY <1>1, <1>2, <1>3 DEF Next, Commit, Abort, vars

\* When requests do not overlap, no sequence of calls leaves a reference to
\* something deleted in a course, group, lesson or attendance record.
THEOREM NothingDanglesAlone ==
  ASSUME NEW one, Workers = {one} PROVE Spec => []RefsLive
<1> DEFINE AloneInv == CatalogInv /\ Alone /\ RefsLive
<1>1. Init => AloneInv
  <2>1. ASSUME Init PROVE RefsLive
    BY <2>1, EmptyDocument DEF Init, RefsLive, Checked
  <2> QED
    BY <2>1, InitInv DEF Init, Alone
<1>2. AloneInv /\ [Next]_vars => AloneInv'
  BY NextPreserves, AloneStays, AloneKeepsRefs
<1>3. AloneInv => RefsLive
  OBVIOUS
<1> HIDE DEF AloneInv
<1> QED
  BY <1>1, <1>2, <1>3, PTL DEF Spec
=============================================================================
