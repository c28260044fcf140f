---------------------------- MODULE ServicesProofs ----------------------------
(***************************************************************************)
(* Theorems about the small services, for any sets and bounds.  Each       *)
(* section proves the invariant of one module from its actions; the last   *)
(* one puts them together as MCServices does.                              *)
(***************************************************************************)
EXTENDS MCServices, FiniteSetTheorems, WellFoundedInduction, TLAPS

--------------------------------------------------------------------------------
(* StaffAdmins.  An operation that still holds the lock, in a world where  *)
(* no other has written without it, has read what is still there, and its  *)
(* count still says that another administrator is left.                    *)

AdminChange ==
    [pc : {"read"}, kind : {"update", "disable", "deleteGroup", "createGroup"}, admin : BOOLEAN,
     of : Staff \cup {None}, group : Group \cup {None}, on : BOOLEAN \cup {None}]
    \cup [pc : {"check", "write"}, kind : {"update", "disable", "deleteGroup", "createGroup"},
          of : Staff \cup {None}, group : Group \cup {None}, on : BOOLEAN \cup {None},
          before : [on : BOOLEAN, group : Group] \cup {None}]

\* update and disable are of somebody, the others of a group.
AdminChangeFits(q) ==
    q \in AdminChange /\ (q.kind \in {"update", "disable"} <=> q.of # None)
    /\ (q.kind = "disable" => q.on = FALSE)
    /\ (q.kind \in {"deleteGroup", "createGroup"} => q.group \in Group)

AdminTypes ==
    /\ staff \in [Staff -> [on : BOOLEAN, group : Group]] /\ group \subseteq Group
    /\ DOMAIN request = Request
    /\ \A r \in Request : request[r] = Admins!Idle \/ AdminChangeFits(request[r])

\* What a holder of the lock knows.
AdminKnows(r) ==
    LET q == request[r] IN
    /\ q.pc \in {"check", "write"} /\ q.of # None => q.before = staff[q.of]
    /\ q.pc = "write" => Admins!Allowed(q)

AdminsInv ==
    /\ AdminTypes /\ Admins!AnAdminRemains
    /\ ~late => \A r \in Request : lock = r => AdminKnows(r)

LEMMA AdminsInit == Admins!Init => AdminsInv
  <1> SUFFICES ASSUME Admins!Init PROVE AdminsInv
    OBVIOUS
  <1>1. AdminTypes /\ lock = None
    BY ServicesAssumption DEF Admins!Init, AdminTypes
  <1>2. \A s \in Staff : staff[s].on /\ staff[s].group \in AdminGroup /\ staff[s].group \in group
    BY ServicesAssumption DEF Admins!Init
  <1>3. Admins!AnAdminRemains
    BY <1>2, ServicesAssumption DEF Admins!AnAdminRemains, Admins!Active
  <1>4. QED
    BY <1>1, <1>3, ServicesAssumption DEF AdminsInv

\* More than one is another one.
LEMMA AnotherAdmin ==
    ASSUME NEW s \in Staff, Admins!EnabledAdmins > 1
    PROVE  \E t \in Staff : t # s /\ Admins!Active(t)
  <1> DEFINE A == {t \in Staff : Admins!Active(t)}
  <1> SUFFICES ASSUME \A t \in Staff : Admins!Active(t) => t = s PROVE FALSE
    OBVIOUS
  <1>1. A \subseteq {s}
    OBVIOUS
  <1>2. IsFiniteSet({s}) /\ Cardinality({s}) = 1
    BY FS_Singleton
  <1>3. Cardinality(A) <= 1 /\ Cardinality(A) \in Nat
    BY <1>1, <1>2, FS_Subset, FS_CardinalityType
  <1>4. Cardinality(A) > 1
    <2>1. Admins!EnabledAdmins = Admins!Cardinality(A)
      BY Zenon DEF Admins!EnabledAdmins
    <2>2. QED
      BY <2>1 DEF Admins!Cardinality, Cardinality
  <1>5. QED
    BY <1>3, <1>4

\* A request moves and the rows stay: who holds the lock knows what it knew.
LEMMA AdminsMove ==
    ASSUME AdminsInv, NEW r \in Request, NEW q, request' = [request EXCEPT ![r] = q],
           UNCHANGED <<staff, group, late>>, q = Admins!Idle \/ AdminChangeFits(q),
           lock' \in {lock, r, None},
           ~late /\ lock' = r => AdminKnows(r)'
    PROVE  AdminsInv'
  <1>1. AdminTypes'
    BY DEF AdminsInv, AdminTypes
  <1>2. Admins!AnAdminRemains'
    BY DEF AdminsInv, Admins!AnAdminRemains, Admins!Active
  <1>3. ASSUME ~late', NEW s \in Request, lock' = s PROVE AdminKnows(s)'
    <2>1. CASE s = r
      BY <1>3, <2>1
    <2>2. CASE s # r
      <3>1. lock = s /\ request'[s] = request[s]
        BY <1>3, <2>2, ServicesAssumption DEF AdminsInv, AdminTypes
      <3>2. AdminKnows(s)
        BY <1>3, <3>1 DEF AdminsInv
      <3>3. \A c : Admins!Allowed(c)' <=> Admins!Allowed(c)
        BY DEF Admins!Allowed, Admins!RemovesAdmin, Admins!EnabledAdmins, Admins!Active
      <3>4. QED
        BY <3>1, <3>2, <3>3 DEF AdminKnows
    <2>3. QED
      BY <2>1, <2>2
  <1>4. QED
    BY <1>1, <1>2, <1>3 DEF AdminsInv

\* The holder writes: an update or a disabling that was allowed leaves an administrator.
LEMMA AdminWritten ==
    ASSUME AdminsInv, NEW r \in Request, request[r].pc = "write", request[r].of # None,
           request[r].kind \in {"update", "disable"}, lock = r, ~late,
           NEW on \in BOOLEAN, NEW g \in Group,
           on = IF request[r].on = None THEN staff[request[r].of].on ELSE request[r].on,
           g = IF request[r].group = None THEN staff[request[r].of].group ELSE request[r].group,
           staff' = [staff EXCEPT ![request[r].of].on = on, ![request[r].of].group = g]
    PROVE  \E s \in Staff : Admins!Active(s)'
  <1> DEFINE q == request[r]
  <1>a. AdminChangeFits(q)
    <2>1. q # Admins!Idle
      BY DEF Admins!Idle
    <2>2. QED
      BY <2>1 DEF AdminsInv, AdminTypes
  <1>1. /\ AdminKnows(r) /\ q.of \in Staff /\ staff \in [Staff -> [on : BOOLEAN, group : Group]]
        /\ q.on \in BOOLEAN \cup {None} /\ q.group \in Group \cup {None}
    BY <1>a DEF AdminsInv, AdminTypes, AdminChangeFits, AdminChange
  <1>2. q.before = staff[q.of] /\ Admins!Allowed(q)
    BY <1>1 DEF AdminKnows
  <1>3. /\ staff'[q.of].on = on /\ staff'[q.of].group = g
        /\ \A s \in Staff : s # q.of => staff'[s] = staff[s]
    BY <1>1
  <1>4. CASE Admins!RemovesAdmin(q)
    <2>1. Admins!EnabledAdmins > 1
      BY <1>2, <1>4 DEF Admins!Allowed
    <2>2. PICK t \in Staff : t # q.of /\ Admins!Active(t)
      BY <1>1, <2>1, AnotherAdmin
    <2>3. QED
      BY <1>3, <2>2 DEF Admins!Active
  <1>5. CASE ~Admins!RemovesAdmin(q)
    <2>1. PICK t \in Staff : Admins!Active(t)
      BY DEF AdminsInv, Admins!AnAdminRemains
    <2>2. CASE t # q.of
      BY <1>3, <2>1, <2>2 DEF Admins!Active
    <2>3. CASE t = q.of
      <3>1. q.on # FALSE /\ q.group \in AdminGroup \cup {None}
        BY <1>2, <1>5, <2>1, <2>3 DEF Admins!RemovesAdmin, Admins!Active
      <3>2. on = TRUE /\ g \in AdminGroup
        BY <1>1, <2>1, <2>3, <3>1 DEF Admins!Active
      <3>3. QED
        BY <1>1, <1>3, <3>2 DEF Admins!Active
    <2>4. QED
      BY <2>2, <2>3
  <1>6. QED
    BY <1>4, <1>5

\* A write of the holder ends its operation; one of another operation is late.
LEMMA AdminsWrite ==
    ASSUME AdminsInv, NEW r \in Request, request[r].pc = "write", Admins!Ends(r),
           staff' \in [Staff -> [on : BOOLEAN, group : Group]], group' \subseteq Group,
           \A s \in Staff : staff'[s].group \in group',
           ~late' => ~late /\ (lock = r \/ UNCHANGED <<staff, group>>),
           ~late' => \E s \in Staff : Admins!Active(s)'
    PROVE  AdminsInv'
  <1>1. request' = [request EXCEPT ![r] = Admins!Idle] /\ lock' = (IF lock = r THEN None ELSE lock)
    BY DEF Admins!Ends, Admins!Does
  <1>2. AdminTypes'
    BY <1>1 DEF AdminsInv, AdminTypes
  <1>3. Admins!AnAdminRemains'
    BY DEF Admins!AnAdminRemains
  <1>4. ASSUME ~late', NEW s \in Request, lock' = s PROVE AdminKnows(s)'
    <2>1. lock = s /\ s # r
      BY <1>1, <1>4, ServicesAssumption
    <2>2. ~late
      BY <1>4
    <2>3. UNCHANGED <<staff, group>>
      BY <1>4, <2>1
    <2>4. request'[s] = request[s]
      BY <1>1, <2>1 DEF AdminsInv, AdminTypes
    <2>5. AdminKnows(s)
      BY <2>1, <2>2 DEF AdminsInv
    <2>6. QED
      BY <2>3, <2>4, <2>5
      DEF AdminKnows, Admins!Allowed, Admins!RemovesAdmin, Admins!EnabledAdmins, Admins!Active
  <1>5. QED
    BY <1>2, <1>3, <1>4 DEF AdminsInv

LEMMA AdminsStep ==
    ASSUME AdminsInv, Admins!Next
    PROVE  AdminsInv'
  <1>1. PICK r \in Request :
            \/ Admins!Start(r) \/ Admins!Read(r) \/ Admins!Check(r)
            \/ Admins!WriteUpdate(r) \/ Admins!WriteDisable(r) \/ Admins!WriteDeleteGroup(r)
            \/ Admins!WriteCreateGroup(r) \/ Admins!TimesOut(r) \/ Admins!Dies(r)
    BY DEF Admins!Next
  <1> DEFINE q == request[r]
  <1>t. /\ staff \in [Staff -> [on : BOOLEAN, group : Group]] /\ group \subseteq Group
        /\ DOMAIN request = Request /\ (q = Admins!Idle \/ AdminChangeFits(q))
        /\ \A s \in Staff : staff[s].group \in group
    BY DEF AdminsInv, AdminTypes, Admins!AnAdminRemains
  <1>i. Admins!Idle.pc = "idle"
    BY DEF Admins!Idle
  <1>k. ~late /\ lock = r => AdminKnows(r)
    BY DEF AdminsInv
  <1>a. ~late => \E s \in Staff : Admins!Active(s)
    BY DEF AdminsInv, Admins!AnAdminRemains
  <1>e. ASSUME Admins!Ends(r), UNCHANGED <<staff, group, late>> PROVE AdminsInv'
    <2>1. request' = [request EXCEPT ![r] = Admins!Idle] /\ lock' = (IF lock = r THEN None ELSE lock)
      BY <1>e DEF Admins!Ends, Admins!Does
    <2>2. lock' # r
      BY <2>1, ServicesAssumption
    <2>3. QED
      BY <1>e, <2>1, <2>2, AdminsMove
  <1>2. CASE Admins!Start(r)
    <2>1. PICK kind \in {"update", "disable", "deleteGroup", "createGroup"}, admin \in BOOLEAN,
               of \in Staff \cup {None}, g \in Group \cup {None}, on \in BOOLEAN \cup {None} :
              /\ request' = [request EXCEPT ![r] = Admins!Asked(kind, admin, of, g, on)]
              /\ kind \in {"update", "disable"} <=> of # None
              /\ kind = "disable" => on = FALSE
              /\ kind \in {"deleteGroup", "createGroup"} => g \in Group
      <3>1. /\ \A s \in Staff : s # None
            /\ FALSE \in BOOLEAN \cup {None} /\ None \in BOOLEAN \cup {None}
        BY ServicesAssumption
      <3>2. PICK admin \in BOOLEAN :
                \/ \E s \in Staff, g \in Group \cup {None}, on \in BOOLEAN \cup {None} :
                       Admins!Does(r, Admins!Asked("update", admin, s, g, on))
                \/ \E s \in Staff : Admins!Does(r, Admins!Asked("disable", admin, s, None, FALSE))
                \/ \E kind \in {"deleteGroup", "createGroup"}, g \in Group :
                       Admins!Does(r, Admins!Asked(kind, admin, None, g, None))
        BY <1>2, Zenon DEF Admins!Start
      <3>3. CASE \E s \in Staff, g \in Group \cup {None}, on \in BOOLEAN \cup {None} :
                     Admins!Does(r, Admins!Asked("update", admin, s, g, on))
        <4>1. PICK s \in Staff, g \in Group \cup {None}, on \in BOOLEAN \cup {None} :
                  Admins!Does(r, Admins!Asked("update", admin, s, g, on))
          BY <3>3
        <4>2. QED
          BY <3>1, <4>1 DEF Admins!Does
      <3>4. CASE \E s \in Staff : Admins!Does(r, Admins!Asked("disable", admin, s, None, FALSE))
        <4>1. PICK s \in Staff : Admins!Does(r, Admins!Asked("disable", admin, s, None, FALSE))
          BY <3>4
        <4>2. QED
          BY <3>1, <4>1 DEF Admins!Does
      <3>5. CASE \E kind \in {"deleteGroup", "createGroup"}, g \in Group :
                     Admins!Does(r, Admins!Asked(kind, admin, None, g, None))
        <4>1. PICK kind \in {"deleteGroup", "createGroup"}, g \in Group :
                  Admins!Does(r, Admins!Asked(kind, admin, None, g, None))
          BY <3>5
        <4>2. QED
          BY <3>1, <4>1 DEF Admins!Does
      <3>6. QED
        BY <3>2, <3>3, <3>4, <3>5
    <2> DEFINE new == Admins!Asked(kind, admin, of, g, on)
    <2>2. AdminChangeFits(new) /\ new.pc = "read"
      BY <2>1 DEF Admins!Asked, AdminChangeFits, AdminChange
    <2>3. request'[r] = new
      BY <2>1, <1>t
    <2> HIDE DEF new
    <2>4. AdminKnows(r)'
      BY <2>2, <2>3 DEF AdminKnows
    <2>5. QED
      BY <1>2, <2>1, <2>2, <2>4, AdminsMove DEF Admins!Start, new
  <1>3. CASE Admins!Read(r)
    <2>1. q.pc = "read" /\ AdminChangeFits(q) /\ UNCHANGED <<staff, group, late>>
      BY <1>3, <1>t, <1>i DEF Admins!Read
    <2>2. CASE Admins!Ends(r)
      BY <2>1, <2>2, <1>e
    <2>3. CASE ~Admins!Ends(r)
      <3> DEFINE new == [pc |-> "check", kind |-> q.kind, of |-> q.of, group |-> q.group, on |-> q.on,
                         before |-> IF q.of = None THEN None ELSE staff[q.of]]
      <3>1. request' = [request EXCEPT ![r] = new] /\ lock' = lock
        BY <1>3, <2>3 DEF Admins!Read, Admins!Does
      <3>2. AdminChangeFits(new) /\ new.pc = "check" /\ (new.of # None => new.before = staff[new.of])
        BY <1>t, <2>1 DEF AdminChangeFits, AdminChange
      <3>3. request'[r] = new
        BY <3>1, <1>t
      <3> HIDE DEF new
      <3>4. AdminKnows(r)'
        BY <2>1, <3>2, <3>3 DEF AdminKnows
      <3>5. QED
        BY <2>1, <3>1, <3>2, <3>4, AdminsMove DEF new
    <2>4. QED
      BY <2>2, <2>3
  <1>4. CASE Admins!Check(r)
    <2>1. q.pc = "check" /\ AdminChangeFits(q) /\ UNCHANGED <<staff, group, late>>
      BY <1>4, <1>t, <1>i DEF Admins!Check
    <2>2. CASE Admins!Ends(r)
      BY <2>1, <2>2, <1>e
    <2>3. CASE ~Admins!Ends(r)
      <3> DEFINE new == [q EXCEPT !.pc = "write"]
      <3>1. request' = [request EXCEPT ![r] = new] /\ lock' = lock /\ Admins!Allowed(q)
        BY <1>4, <2>3 DEF Admins!Check, Admins!Goes, Admins!Does
      <3>2. /\ AdminChangeFits(new) /\ new.pc = "write" /\ new.of = q.of /\ new.before = q.before
            /\ new.kind = q.kind /\ new.group = q.group /\ new.on = q.on
        BY <2>1 DEF AdminChangeFits, AdminChange
      <3>3. request'[r] = new
        BY <3>1, <1>t
      <3> HIDE DEF new
      <3>4. ASSUME ~late, lock = r PROVE AdminKnows(r)'
        <4>1. q.of # None => q.before = staff[q.of]
          BY <1>k, <2>1, <3>4 DEF AdminKnows
        <4>2. Admins!Allowed(new)
          BY <3>1, <3>2 DEF Admins!Allowed, Admins!RemovesAdmin
        <4>3. Admins!Allowed(new)'
          BY <4>2, <2>1, <3>3
          DEF Admins!Allowed, Admins!RemovesAdmin, Admins!EnabledAdmins, Admins!Active, new
        <4>4. QED
          BY <4>1, <4>3, <3>2, <3>3, <2>1 DEF AdminKnows, new
      <3>5. QED
        BY <2>1, <3>1, <3>2, <3>4, AdminsMove DEF new
    <2>4. QED
      BY <2>2, <2>3
  <1>5. CASE Admins!WriteUpdate(r)
    <2>1. /\ q.pc = "write" /\ q.kind = "update" /\ AdminChangeFits(q) /\ Admins!Ends(r)
          /\ group' = group /\ late' = late
      BY <1>5, <1>t, <1>i DEF Admins!WriteUpdate
    <2>2. CASE lock = r /\ q.group \in group \cup {None}
      <3> DEFINE on == IF q.on = None THEN staff[q.of].on ELSE q.on
                 g == IF q.group = None THEN staff[q.of].group ELSE q.group
      <3>1. q.of \in Staff
        BY <2>1 DEF AdminChangeFits, AdminChange
      <3>2. on \in BOOLEAN /\ g \in Group /\ g \in group
        BY <2>1, <2>2, <3>1, <1>t DEF AdminChangeFits, AdminChange
      <3>3. staff' = [staff EXCEPT ![q.of].on = on, ![q.of].group = g]
        <4>1. staff' = [staff EXCEPT ![q.of].on = IF q.on = None THEN @ ELSE q.on,
                                     ![q.of].group = IF q.group = None THEN @ ELSE q.group]
          BY <1>5, <2>2 DEF Admins!WriteUpdate
        <4>2. QED
          BY <4>1, <3>1, <1>t
      <3> HIDE DEF on, g
      <3>4. staff' \in [Staff -> [on : BOOLEAN, group : Group]]
        BY <3>1, <3>2, <3>3, <1>t
      <3>5. \A s \in Staff : staff'[s].group \in group'
        BY <3>1, <3>2, <3>3, <1>t, <2>1
      <3>6. ASSUME ~late PROVE \E s \in Staff : Admins!Active(s)'
        BY <2>1, <2>2, <3>1, <3>2, <3>3, <3>6, AdminWritten, ServicesAssumption DEF on, g
      <3>7. QED
        BY <2>1, <2>2, <3>4, <3>5, <3>6, <1>t, AdminsWrite
    <2>3. CASE ~(lock = r /\ q.group \in group \cup {None})
      BY <1>5, <2>1, <2>3, <1>e DEF Admins!WriteUpdate
    <2>4. QED
      BY <2>2, <2>3
  <1>6. CASE Admins!WriteDisable(r)
    <2>1. /\ q.pc = "write" /\ q.kind = "disable" /\ AdminChangeFits(q) /\ Admins!Ends(r)
          /\ group' = group /\ late' = (late \/ lock # r)
          /\ staff' = [staff EXCEPT ![q.of].on = FALSE]
      BY <1>6, <1>t, <1>i DEF Admins!WriteDisable, Admins!Late
    <2>2. q.of \in Staff /\ q.on = FALSE /\ q.of # None
      BY <2>1 DEF AdminChangeFits, AdminChange
    <2>3. staff' \in [Staff -> [on : BOOLEAN, group : Group]]
      BY <2>1, <2>2, <1>t
    <2>4. \A s \in Staff : staff'[s].group \in group'
      BY <2>1, <2>2, <1>t
    <2>5. ~late' => ~late /\ lock = r
      BY <2>1
    <2>6. ASSUME ~late' PROVE \E s \in Staff : Admins!Active(s)'
      <3>1. ~late /\ lock = r /\ AdminKnows(r)
        BY <2>5, <2>6, <1>k
      <3>2. q.before = staff[q.of] /\ Admins!Allowed(q)
        BY <3>1, <2>1, <2>2 DEF AdminKnows
      <3>3. CASE Admins!Active(q.of)
        <4>1. Admins!RemovesAdmin(q)
          BY <3>2, <3>3, <2>2 DEF Admins!RemovesAdmin, Admins!Active
        <4>2. Admins!EnabledAdmins > 1
          BY <3>2, <4>1, <2>1 DEF Admins!Allowed
        <4>3. PICK t \in Staff : t # q.of /\ Admins!Active(t)
          BY <2>2, <4>2, AnotherAdmin
        <4>4. QED
          BY <4>3, <2>1, <2>2, <1>t DEF Admins!Active
      <3>4. CASE ~Admins!Active(q.of)
        <4>1. PICK t \in Staff : Admins!Active(t)
          BY <3>1, <1>a
        <4>2. QED
          BY <4>1, <3>4, <2>1, <2>2, <1>t DEF Admins!Active
      <3>5. QED
        BY <3>3, <3>4
    <2>7. QED
      BY <2>1, <2>3, <2>4, <2>5, <2>6, <1>t, AdminsWrite
  <1>7. CASE Admins!WriteDeleteGroup(r)
    <2>1. /\ q.pc = "write" /\ Admins!Ends(r) /\ staff' = staff
          /\ \/ /\ \A s \in Staff : staff[s].group # q.group
                /\ group' = group \ {q.group} /\ late' = (late \/ lock # r)
             \/ UNCHANGED <<group, late>>
      BY <1>7 DEF Admins!WriteDeleteGroup, Admins!Late
    <2>2. \A s \in Staff : staff'[s].group \in group'
      BY <2>1, <1>t
    <2>3. ~late' => ~late /\ (lock = r \/ UNCHANGED <<staff, group>>)
      BY <2>1
    <2>4. ~late' => \E s \in Staff : Admins!Active(s)'
      BY <2>1, <2>3, <1>a DEF Admins!Active
    <2>5. QED
      BY <2>1, <2>2, <2>3, <2>4, <1>t, AdminsWrite
  <1>8. CASE Admins!WriteCreateGroup(r)
    <2>1. /\ q.pc = "write" /\ q.kind = "createGroup" /\ AdminChangeFits(q) /\ Admins!Ends(r)
          /\ staff' = staff /\ group' = group \cup {q.group} /\ late' = (late \/ lock # r)
      BY <1>8, <1>t, <1>i DEF Admins!WriteCreateGroup, Admins!Late
    <2>2. \A s \in Staff : staff'[s].group \in group'
      BY <2>1, <1>t
    <2>3. ~late' => ~late /\ lock = r
      BY <2>1
    <2>4. ~late' => \E s \in Staff : Admins!Active(s)'
      BY <2>1, <2>3, <1>a DEF Admins!Active
    <2>5. q.group \in Group
      BY <2>1 DEF AdminChangeFits, AdminChange
    <2>6. QED
      BY <2>1, <2>2, <2>3, <2>4, <2>5, <1>t, AdminsWrite
  <1>9. CASE Admins!TimesOut(r)
    <2>1. lock' = None /\ UNCHANGED <<staff, group, request, late>>
      BY <1>9 DEF Admins!TimesOut
    <2>2. QED
      BY <2>1, ServicesAssumption DEF AdminsInv, AdminTypes, Admins!AnAdminRemains, Admins!Active
  <1>10. CASE Admins!Dies(r)
    BY <1>10, <1>e DEF Admins!Dies
  <1>11. QED
    BY <1>1, <1>2, <1>3, <1>4, <1>5, <1>6, <1>7, <1>8, <1>9, <1>10

--------------------------------------------------------------------------------
(* AbuseLimits.  The count that a login has read may be old, but who is    *)
(* hashing now and who is about to be counted are different logins.        *)

LoginsAt(f, pc) == {r \in Login : f[r] = pc}

LimitOf(k) == CASE k = "global" -> 3 [] k = "ip" -> 2 [] OTHER -> 1

LimitsInv ==
    /\ login \in [Login -> {"idle", "hash", "wrong", "right"}]
    /\ failures \in Nat /\ guesses \in Nat /\ slips \in Nat
    /\ guesses <= failures + Cardinality(LoginsAt(login, "wrong")) + slips
    /\ guesses + Cardinality(LoginsAt(login, "hash")) < Threshold + Cardinality(Login) + slips
    /\ asked \in [Key -> Nat] /\ resets \in [Key -> Nat]
    /\ \A k \in Key : resets[k] <= asked[k] /\ resets[k] <= LimitOf(k)

LEMMA SameCountOfLogins == \A S : Limits!Cardinality(S) = Cardinality(S)
  BY DEF Limits!Cardinality, Cardinality

LEMMA LoginsCounted ==
    ASSUME NEW f
    PROVE  /\ Cardinality(Login) \in Nat
           /\ \A pc : IsFiniteSet(LoginsAt(f, pc)) /\ Cardinality(LoginsAt(f, pc)) \in Nat
           /\ Cardinality(LoginsAt(f, "hash")) + Cardinality(LoginsAt(f, "wrong")) <= Cardinality(Login)
  <1>1. Cardinality(Login) \in Nat
    BY ServicesAssumption, FS_CardinalityType
  <1>2. \A pc : IsFiniteSet(LoginsAt(f, pc)) /\ Cardinality(LoginsAt(f, pc)) \in Nat
    <2> SUFFICES ASSUME NEW pc
                 PROVE  IsFiniteSet(LoginsAt(f, pc)) /\ Cardinality(LoginsAt(f, pc)) \in Nat
      OBVIOUS
    <2>1. LoginsAt(f, pc) \in SUBSET Login
      BY DEF LoginsAt
    <2>2. QED
      BY <2>1, ServicesAssumption, FS_Subset, FS_CardinalityType
  <1> DEFINE H == LoginsAt(f, "hash")
             W == LoginsAt(f, "wrong")
  <1>3. H \cap W = {} /\ H \cup W \in SUBSET Login
    BY DEF LoginsAt
  <1> HIDE DEF H, W
  <1>4. Cardinality(H \cup W) = Cardinality(H) + Cardinality(W) - Cardinality({})
    BY <1>2, <1>3, FS_Union DEF H, W
  <1>5. Cardinality(H \cup W) <= Cardinality(Login)
    BY <1>3, ServicesAssumption, FS_Subset
  <1>6. Cardinality({}) = 0
    BY FS_EmptySet
  <1>7. Cardinality(H) + Cardinality(W) <= Cardinality(Login)
    BY <1>1, <1>2, <1>4, <1>5, <1>6 DEF H, W
  <1>8. QED
    BY <1>1, <1>2, <1>7 DEF H, W

LEMMA LimitsInit == Limits!Init => LimitsInv
  <1> SUFFICES ASSUME Limits!Init PROVE LimitsInv
    OBVIOUS
  <1>1. LoginsAt(login, "hash") = {}
    BY DEF Limits!Init, LoginsAt
  <1>2. Cardinality(LoginsAt(login, "hash")) = 0
    BY <1>1, FS_EmptySet
  <1>3. \A k \in Key : 0 <= LimitOf(k)
    BY DEF LimitOf
  <1>4. QED
    BY <1>2, <1>3, LoginsCounted, ServicesAssumption DEF Limits!Init, LimitsInv

\* A login takes a step from one place to another.
LEMMA LoginMoves ==
    ASSUME NEW f, NEW g, NEW r \in Login, f[r] # g[r], \A s \in Login \ {r} : g[s] = f[s]
    PROVE  \A pc : Cardinality(LoginsAt(g, pc)) =
                     CASE pc = g[r] -> Cardinality(LoginsAt(f, pc)) + 1
                       [] pc = f[r] -> Cardinality(LoginsAt(f, pc)) - 1
                       [] OTHER -> Cardinality(LoginsAt(f, pc))
  <1> SUFFICES ASSUME NEW pc
               PROVE  Cardinality(LoginsAt(g, pc)) =
                     CASE pc = g[r] -> Cardinality(LoginsAt(f, pc)) + 1
                       [] pc = f[r] -> Cardinality(LoginsAt(f, pc)) - 1
                       [] OTHER -> Cardinality(LoginsAt(f, pc))
    OBVIOUS
  <1>1. IsFiniteSet(LoginsAt(f, pc))
    BY LoginsCounted
  <1>2. CASE pc = g[r]
    <2>1. LoginsAt(g, pc) = LoginsAt(f, pc) \cup {r} /\ r \notin LoginsAt(f, pc)
      BY <1>2 DEF LoginsAt
    <2>2. QED
      BY <1>1, <1>2, <2>1, FS_AddElement
  <1>3. CASE pc = f[r]
    <2>1. LoginsAt(g, pc) = LoginsAt(f, pc) \ {r} /\ r \in LoginsAt(f, pc)
      BY <1>3 DEF LoginsAt
    <2>2. QED
      BY <1>1, <1>3, <2>1, FS_RemoveElement
  <1>4. CASE pc \notin {f[r], g[r]}
    <2>1. LoginsAt(g, pc) = LoginsAt(f, pc)
      BY <1>4 DEF LoginsAt
    <2>2. QED
      BY <1>4, <2>1
  <1>5. QED
    BY <1>2, <1>3, <1>4

LEMMA LimitsStep ==
    ASSUME LimitsInv, Limits!Next
    PROVE  LimitsInv'
  <1> DEFINE H == Cardinality(LoginsAt(login, "hash"))
             W == Cardinality(LoginsAt(login, "wrong"))
             N == Cardinality(Login)
  <1>n. H \in Nat /\ W \in Nat /\ N \in Nat /\ H + W <= N /\ Threshold \in Nat \ {0}
    BY LoginsCounted, ServicesAssumption
  <1>i. /\ login \in [Login -> {"idle", "hash", "wrong", "right"}]
        /\ failures \in Nat /\ guesses \in Nat /\ slips \in Nat
        /\ guesses <= failures + W + slips /\ guesses + H < Threshold + N + slips
        /\ asked \in [Key -> Nat] /\ resets \in [Key -> Nat]
        /\ \A k \in Key : resets[k] <= asked[k] /\ resets[k] <= LimitOf(k)
    BY DEF LimitsInv
  <1>c. \A S : Limits!Cardinality(S) = Cardinality(S)
    BY SameCountOfLogins
  <1>u. Limits!Unrecorded = LoginsAt(login, "wrong")
    BY DEF Limits!Unrecorded, LoginsAt
  <1>m. ASSUME NEW r \in Login, login[r] # login'[r],
               \A s \in Login \ {r} : login'[s] = login[s]
        PROVE  /\ (login'[r] = "hash" => H' = H + 1) /\ (login[r] = "hash" => H' = H - 1)
               /\ (login'[r] # "hash" /\ login[r] # "hash" => H' = H)
               /\ (login'[r] = "wrong" => W' = W + 1) /\ (login[r] = "wrong" => W' = W - 1)
               /\ (login'[r] # "wrong" /\ login[r] # "wrong" => W' = W)
    <2>0. PICK g : g = login'
      OBVIOUS
    <2>1. login[r] # g[r] /\ \A s \in Login \ {r} : g[s] = login[s]
      BY <1>m, <2>0
    <2>2. H' = Cardinality(LoginsAt(g, "hash")) /\ W' = Cardinality(LoginsAt(g, "wrong"))
      BY <2>0 DEF H, W
    <2>3. \A pc : Cardinality(LoginsAt(g, pc)) =
                     CASE pc = g[r] -> Cardinality(LoginsAt(login, pc)) + 1
                       [] pc = login[r] -> Cardinality(LoginsAt(login, pc)) - 1
                       [] OTHER -> Cardinality(LoginsAt(login, pc))
      BY <2>1, LoginMoves
    <2>4. QED
      BY <2>0, <2>1, <2>2, <2>3 DEF H, W
  <1> HIDE DEF H, W, N
  <1>g. ASSUME login' \in [Login -> {"idle", "hash", "wrong", "right"}],
               failures' \in Nat, guesses' \in Nat, slips' \in Nat, UNCHANGED <<asked, resets>>,
               guesses' <= failures' + W' + slips', guesses' + H' < Threshold + N + slips'
        PROVE  LimitsInv'
    BY <1>g, <1>i DEF LimitsInv, H, W, N
  <1>1. ASSUME NEW r \in Login, Limits!AssertNotThrottled(r) PROVE LimitsInv'
    <2>1. /\ login[r] = "idle" /\ login' = [login EXCEPT ![r] = "hash"]
          /\ UNCHANGED <<failures, guesses, asked, resets>>
          /\ \/ failures < Threshold /\ slips' = slips
             \/ slips' = slips + 1
      BY <1>1 DEF Limits!AssertNotThrottled, Limits!Lapse, Limits!To
    <2>m. login'[r] = "hash" /\ \A s \in Login \ {r} : login'[s] = login[s]
      BY <2>1, <1>i
    <2>2. H' = H + 1 /\ W' = W
      BY <2>1, <2>m, <1>m
    <2>3. guesses' + H' < Threshold + N + slips'
      <3>1. CASE failures < Threshold /\ slips' = slips
        <4>1. H' \in Nat /\ W' \in Nat /\ H' + W' <= N
          BY LoginsCounted DEF H, W, N
        <4>2. QED
          BY <4>1, <2>1, <2>2, <3>1, <1>n, <1>i
      <3>2. CASE slips' = slips + 1
        BY <2>1, <2>2, <3>2, <1>n, <1>i
      <3>3. QED
        BY <2>1, <3>1, <3>2
    <2>4. QED
      BY <2>1, <2>2, <2>3, <1>n, <1>i, <1>g
  <1>2. ASSUME NEW r \in Login, Limits!ValidateStaff(r) PROVE LimitsInv'
    <2>1. /\ login[r] = "hash" /\ UNCHANGED <<failures, asked, resets, slips>>
          /\ \/ login' = [login EXCEPT ![r] = "wrong"] /\ guesses' = guesses + 1
             \/ login' = [login EXCEPT ![r] = "right"] /\ guesses' = guesses
      BY <1>2 DEF Limits!ValidateStaff, Limits!To
    <2>m. login'[r] \in {"wrong", "right"} /\ \A s \in Login \ {r} : login'[s] = login[s]
      BY <2>1, <1>i
    <2>2. CASE login' = [login EXCEPT ![r] = "wrong"] /\ guesses' = guesses + 1
      <3>m. login'[r] = "wrong"
        BY <2>2, <1>i
      <3>1. H' = H - 1 /\ W' = W + 1
        BY <2>1, <2>2, <2>m, <3>m, <1>m
      <3>2. QED
        BY <2>1, <2>2, <3>1, <1>n, <1>i, <1>g
    <2>3. CASE login' = [login EXCEPT ![r] = "right"] /\ guesses' = guesses
      <3>m. login'[r] = "right"
        BY <2>3, <1>i
      <3>1. H' = H - 1 /\ W' = W
        BY <2>1, <2>3, <2>m, <3>m, <1>m
      <3>2. QED
        BY <2>1, <2>3, <3>1, <1>n, <1>i, <1>g
    <2>4. QED
      BY <2>1, <2>2, <2>3
  <1>3. ASSUME NEW r \in Login, Limits!RecordFailure(r) PROVE LimitsInv'
    <2>1. /\ login[r] = "wrong" /\ login' = [login EXCEPT ![r] = "idle"]
          /\ UNCHANGED <<guesses, asked, resets>>
          /\ \/ failures' = failures + 1 /\ slips' = slips
             \/ slips' = slips + 1 /\ failures' = failures
      BY <1>3 DEF Limits!RecordFailure, Limits!To, Limits!Count, Limits!Lapse
    <2>m. login'[r] = "idle" /\ \A s \in Login \ {r} : login'[s] = login[s]
      BY <2>1, <1>i
    <2>2. H' = H /\ W' = W - 1
      BY <2>1, <2>m, <1>m
    <2>3. QED
      BY <2>1, <2>2, <1>n, <1>i, <1>g
  <1>4. ASSUME NEW r \in Login, Limits!Clear(r) PROVE LimitsInv'
    <2>1. /\ login[r] = "right" /\ login' = [login EXCEPT ![r] = "idle"] /\ UNCHANGED <<asked, resets>>
          /\ \/ failures' = 0 /\ guesses' = W /\ slips' = slips
             \/ slips' = slips + 1 /\ UNCHANGED <<failures, guesses>>
      BY <1>4, <1>u, <1>c DEF Limits!Clear, Limits!To, Limits!Forgotten, Limits!Lapse, W
    <2>m. login'[r] = "idle" /\ \A s \in Login \ {r} : login'[s] = login[s]
      BY <2>1, <1>i
    <2>2. H' = H /\ W' = W
      BY <2>1, <2>m, <1>m
    <2>3. QED
      BY <2>1, <2>2, <1>n, <1>i, <1>g
  <1>5. CASE Limits!FailuresExpire
    <2>1. failures' = 0 /\ guesses' = W /\ UNCHANGED <<login, asked, resets, slips>>
      BY <1>5, <1>u, <1>c DEF Limits!FailuresExpire, Limits!Forgotten, W
    <2>2. H' = H /\ W' = W
      BY <2>1 DEF H, W, LoginsAt
    <2>3. QED
      BY <2>1, <2>2, <1>n, <1>i, <1>g
  <1>6. CASE Limits!AskReset
    <2>1. /\ asked' = [k \in Key |-> IF asked[k] + 1 > LimitOf(k) THEN LimitOf(k) + 1 ELSE asked[k] + 1]
          /\ resets' = IF \E k \in Key : asked[k] + 1 > LimitOf(k) THEN resets
                       ELSE [k \in Key |-> resets[k] + 1]
          /\ UNCHANGED <<login, failures, guesses, slips>>
      BY <1>6 DEF Limits!AskReset, LimitOf
    <2>2. \A k \in Key : LimitOf(k) \in Nat
      BY DEF LimitOf
    <2>3. asked' \in [Key -> Nat] /\ resets' \in [Key -> Nat]
      BY <2>1, <2>2, <1>i
    <2>4. \A k \in Key : resets'[k] <= asked'[k] /\ resets'[k] <= LimitOf(k)
      BY <2>1, <2>2, <1>i
    <2>5. H' = H /\ W' = W
      BY <2>1 DEF H, W, LoginsAt
    <2>6. QED
      BY <2>1, <2>3, <2>4, <2>5, <1>i DEF LimitsInv, H, W, N
  <1>7. ASSUME NEW k \in Key, Limits!ResetsExpire(k) PROVE LimitsInv'
    <2>1. /\ asked' = [asked EXCEPT ![k] = 0] /\ resets' = [resets EXCEPT ![k] = 0]
          /\ UNCHANGED <<login, failures, guesses, slips>>
      BY <1>7 DEF Limits!ResetsExpire
    <2>2. \A j \in Key : LimitOf(j) \in Nat
      BY DEF LimitOf
    <2>3. asked' \in [Key -> Nat] /\ resets' \in [Key -> Nat]
      BY <2>1, <1>i
    <2>4. \A j \in Key : resets'[j] <= asked'[j] /\ resets'[j] <= LimitOf(j)
      BY <2>1, <2>2, <1>i
    <2>5. H' = H /\ W' = W
      BY <2>1 DEF H, W, LoginsAt
    <2>6. QED
      BY <2>1, <2>3, <2>4, <2>5, <1>i DEF LimitsInv, H, W, N
  <1>8. QED
    BY <1>1, <1>2, <1>3, <1>4, <1>5, <1>6, <1>7 DEF Limits!Next

LEMMA LimitsPromise == LimitsInv => Limits!LimitsHold
  <1> SUFFICES ASSUME LimitsInv PROVE Limits!LimitsHold
    OBVIOUS
  <1>1. guesses < Threshold + Cardinality(Login) + slips
    BY LoginsCounted, ServicesAssumption DEF LimitsInv
  <1>2. QED
    BY <1>1, SameCountOfLogins DEF LimitsInv, Limits!LimitsHold, LimitOf
--------------------------------------------------------------------------------
(* ClientLinks.  A link that was not opened and a session that was not     *)
(* revoked still name the user who has the address: whatever moves an      *)
(* address ends both in the same transaction.                              *)

LinkFields == {"state", "user", "version", "email", "expired", "mailed"}
SessionFields == {"login", "link", "user", "version", "email", "revoked"}

AskerTypes ==
    /\ DOMAIN asker = Asker
    /\ \A r \in Asker : asker[r] \in {Logins!Idle} \cup [pc : {"issue"}, email : Address, user : User]
                                     \cup [pc : {"mail", "burn"}, link : Logins!Link]

LinksInv ==
    /\ address \in [Address -> User \cup {None}] /\ AskerTypes
    /\ DOMAIN link = Logins!Link
    /\ \A n \in Logins!Link :
          /\ DOMAIN link[n] = LinkFields /\ link[n].state \in {"none", "unused", "used", "gone"}
          /\ link[n].state = "unused" =>
                 link[n].user \in User /\ link[n].email \in Address /\ address[link[n].email] = link[n].user
    /\ \A m, n \in Logins!Link :
          link[m].state = "unused" /\ link[n].state = "unused" /\ link[m].user = link[n].user => m = n
    /\ \A s \in session :
          /\ DOMAIN s = SessionFields /\ s.link \in Logins!Link /\ link[s.link].state \in {"used", "gone"}
          /\ s.user \in User /\ s.email \in Address
          /\ s.revoked \in BOOLEAN /\ (s.revoked = FALSE => address[s.email] = s.user)
    /\ \A s, t \in session : s.link = t.link => s = t

LEMMA LinksInit == Logins!Init => LinksInv
  <1> SUFFICES ASSUME Logins!Init PROVE LinksInv
    OBVIOUS
  <1>1. AskerTypes /\ session = {} /\ address \in [Address -> User \cup {None}]
    BY DEF Logins!Init, AskerTypes
  <1>2. DOMAIN link = Logins!Link /\ \A n \in Logins!Link : link[n] = Logins!NoLink
    BY DEF Logins!Init
  <1>3. DOMAIN Logins!NoLink = LinkFields /\ Logins!NoLink.state = "none"
    BY DEF Logins!NoLink, LinkFields
  <1>4. QED
    BY <1>1, <1>2, <1>3 DEF LinksInv

\* What a transaction that opens no link leaves.
LEMMA LinksSettle ==
    ASSUME LinksInv, address' \in [Address -> User \cup {None}], AskerTypes',
           DOMAIN link' = Logins!Link,
           \A n \in Logins!Link :
              /\ DOMAIN link'[n] = LinkFields /\ link'[n].state \in {"none", "unused", "used", "gone"}
              /\ link'[n].state = "unused" =>
                    /\ link[n].state = "unused" /\ link'[n].user = link[n].user
                    /\ link'[n].email = link[n].email /\ address'[link[n].email] = link[n].user
              /\ link[n].state \in {"used", "gone"} => link'[n].state \in {"used", "gone"},
           \A s \in session' : \E t \in session :
              /\ s.link = t.link /\ DOMAIN s = SessionFields /\ s.revoked \in BOOLEAN
              /\ s.user = t.user /\ s.email = t.email
              /\ s.revoked = FALSE => address'[s.email] = s.user,
           \A s, t \in session' : s.link = t.link => s = t
    PROVE  LinksInv'
  <1>1. \A n \in Logins!Link :
          /\ DOMAIN link'[n] = LinkFields /\ link'[n].state \in {"none", "unused", "used", "gone"}
          /\ link'[n].state = "unused" =>
                 /\ link'[n].user \in User /\ link'[n].email \in Address
                 /\ address'[link'[n].email] = link'[n].user
    BY DEF LinksInv
  <1>2. \A m, n \in Logins!Link :
          link'[m].state = "unused" /\ link'[n].state = "unused" /\ link'[m].user = link'[n].user => m = n
    BY DEF LinksInv
  <1>3. \A s \in session' :
          /\ DOMAIN s = SessionFields /\ s.link \in Logins!Link /\ link'[s.link].state \in {"used", "gone"}
          /\ s.user \in User /\ s.email \in Address
          /\ s.revoked \in BOOLEAN /\ (s.revoked = FALSE => address'[s.email] = s.user)
    BY DEF LinksInv
  <1>4. QED
    BY <1>1, <1>2, <1>3 DEF LinksInv

\* Revoked sessions stay the same but for that.
LEMMA RevokedSessions ==
    ASSUME LinksInv, NEW those \in SUBSET session, Logins!Revoke(those)
    PROVE  /\ \A s \in session' : \E t \in session :
                /\ s.link = t.link /\ DOMAIN s = SessionFields /\ s.revoked \in BOOLEAN
                /\ s.user = t.user /\ s.email = t.email
                /\ s.revoked = FALSE => s = t /\ t \notin those /\ address[s.email] = s.user
           /\ \A s, t \in session' : s.link = t.link => s = t
  <1> DEFINE ended(s) == [s EXCEPT !.revoked = TRUE]
  <1>1. session' = (session \ those) \cup {ended(s) : s \in those}
    BY DEF Logins!Revoke
  <1>2. \A s \in session : /\ DOMAIN ended(s) = SessionFields /\ ended(s).link = s.link
                          /\ ended(s).revoked = TRUE
                           /\ ended(s).user = s.user /\ ended(s).email = s.email
    BY DEF LinksInv, SessionFields
  <1>3. \A s \in session : DOMAIN s = SessionFields /\ s.revoked \in BOOLEAN
                           /\ (s.revoked = FALSE => address[s.email] = s.user)
    BY DEF LinksInv
  <1>4. \A s, t \in session : s.link = t.link => s = t
    BY DEF LinksInv
  <1> HIDE DEF ended
  <1>5. ASSUME NEW s \in session'
        PROVE  \E t \in session :
                /\ s.link = t.link /\ DOMAIN s = SessionFields /\ s.revoked \in BOOLEAN
                /\ s.user = t.user /\ s.email = t.email
                /\ s.revoked = FALSE => s = t /\ t \notin those /\ address[s.email] = s.user
    <2>1. CASE s \in session \ those
      BY <2>1, <1>3
    <2>2. CASE s \notin session \ those
      <3>1. PICK t \in those : s = ended(t)
        BY <1>1, <2>2
      <3>2. QED
        BY <3>1, <1>2
    <2>3. QED
      BY <2>1, <2>2
  <1>6. ASSUME NEW s \in session', NEW t \in session', s.link = t.link PROVE s = t
    <2>1. PICK p \in session : p.link = s.link /\ s = IF p \in those THEN ended(p) ELSE p
      BY <1>1, <1>2
    <2>2. PICK q \in session : q.link = t.link /\ t = IF q \in those THEN ended(q) ELSE q
      BY <1>1, <1>2
    <2>3. p = q
      BY <2>1, <2>2, <1>4, <1>6
    <2>4. QED
      BY <2>1, <2>2, <2>3
  <1>7. QED
    BY <1>5, <1>6

\* A change of a user moves addresses of that user only, and ends all of its links and sessions.
LEMMA UserChanges ==
    ASSUME LinksInv, NEW u \in User, Logins!EndsAll(u), asker' = asker,
           address' \in [Address -> User \cup {None}],
           \A a \in Address : address'[a] # address[a] => address[a] \in {u, None}
    PROVE  LinksInv'
  <1>1. /\ link' = [n \in Logins!Link |->
                  IF n \in Logins!Unused(u) THEN [link[n] EXCEPT !.state = "used"] ELSE link[n]]
        /\ Logins!Revoke({s \in session : s.user = u})
    BY DEF Logins!EndsAll
  <1>2. AskerTypes'
    BY DEF LinksInv, AskerTypes
  <1>3. ASSUME NEW n \in Logins!Link
        PROVE /\ DOMAIN link'[n] = LinkFields /\ link'[n].state \in {"none", "unused", "used", "gone"}
              /\ link'[n].state = "unused" =>
                    /\ link[n].state = "unused" /\ link'[n].user = link[n].user
                    /\ link'[n].email = link[n].email /\ address'[link[n].email] = link[n].user
              /\ link[n].state \in {"used", "gone"} => link'[n].state \in {"used", "gone"}
    <2>0. /\ DOMAIN link[n] = LinkFields /\ link[n].state \in {"none", "unused", "used", "gone"}
          /\ link[n].state = "unused" =>
                 link[n].user \in User /\ link[n].email \in Address /\ address[link[n].email] = link[n].user
      BY DEF LinksInv
    <2>1. CASE n \in Logins!Unused(u)
      <3>1. link'[n] = [link[n] EXCEPT !.state = "used"]
        BY <1>1, <2>1
      <3>2. QED
        BY <3>1, <2>0, <2>1 DEF LinkFields, Logins!Unused
    <2>2. CASE n \notin Logins!Unused(u)
      <3>1. link'[n] = link[n]
        BY <1>1, <2>2
      <3>2. link[n].state = "unused" => link[n].user # u
        BY <2>2 DEF Logins!Unused
      <3>3. QED
        BY <3>1, <3>2, <2>0, ServicesAssumption
    <2>3. QED
      BY <2>1, <2>2
  <1>4. /\ \A s \in session' : \E t \in session :
                /\ s.link = t.link /\ DOMAIN s = SessionFields /\ s.revoked \in BOOLEAN
                /\ s.user = t.user /\ s.email = t.email
                /\ s.revoked = FALSE => s = t /\ t \notin {x \in session : x.user = u}
                                       /\ address[s.email] = s.user
        /\ \A s, t \in session' : s.link = t.link => s = t
    BY <1>1, RevokedSessions
  <1>5. \A s \in session' : \E t \in session :
              /\ s.link = t.link /\ DOMAIN s = SessionFields /\ s.revoked \in BOOLEAN
              /\ s.user = t.user /\ s.email = t.email
              /\ s.revoked = FALSE => address'[s.email] = s.user
    <2>1. \A t \in session : t.user \in User /\ t.email \in Address
      BY DEF LinksInv
    <2>2. QED
      BY <1>4, <2>1, ServicesAssumption
  <1>6. QED
    BY <1>1, <1>2, <1>3, <1>4, <1>5, LinksSettle

\* A step of a request, of a link or of a session that leaves the addresses alone.
LEMMA LinksMove ==
    ASSUME LinksInv, AskerTypes', address' = address, session' = session,
           DOMAIN link' = Logins!Link,
           \A n \in Logins!Link :
              \/ link'[n] = link[n]
              \/ /\ DOMAIN link'[n] = LinkFields /\ link'[n].user = link[n].user
                 /\ link'[n].email = link[n].email
                 /\ \/ link'[n].state = link[n].state
                    \/ link[n].state \in {"unused", "used"} /\ link'[n].state \in {"used", "gone"}
    PROVE  LinksInv'
  <1>1. ASSUME NEW n \in Logins!Link
        PROVE /\ DOMAIN link'[n] = LinkFields /\ link'[n].state \in {"none", "unused", "used", "gone"}
              /\ link'[n].state = "unused" =>
                    /\ link[n].state = "unused" /\ link'[n].user = link[n].user
                    /\ link'[n].email = link[n].email /\ address'[link[n].email] = link[n].user
              /\ link[n].state \in {"used", "gone"} => link'[n].state \in {"used", "gone"}
    <2>1. /\ DOMAIN link[n] = LinkFields /\ link[n].state \in {"none", "unused", "used", "gone"}
          /\ link[n].state = "unused" =>
                 link[n].user \in User /\ link[n].email \in Address /\ address[link[n].email] = link[n].user
      BY DEF LinksInv
    <2>2. QED
      BY <2>1
  <1>2. \A s \in session' : \E t \in session :
              /\ s.link = t.link /\ DOMAIN s = SessionFields /\ s.revoked \in BOOLEAN
              /\ s.user = t.user /\ s.email = t.email
              /\ s.revoked = FALSE => address'[s.email] = s.user
    BY DEF LinksInv
  <1>3. QED
    BY <1>1, <1>2, LinksSettle DEF LinksInv

LEMMA LinkIssued ==
    ASSUME LinksInv, NEW r \in Asker, Logins!Issue(r)
    PROVE  LinksInv'
  <1> DEFINE u == asker[r].user
             a == asker[r].email
  <1>1. /\ asker[r].pc = "issue" /\ Logins!Resolves(a, u)
        /\ UNCHANGED <<user, address, session, edits>>
    BY DEF Logins!Issue, Logins!MayIssue
  <1>2. PICK n \in Logins!Link :
          /\ link[n].state = "none"
          /\ link' = [m \in Logins!Link |->
                IF m = n THEN [Logins!NoLink EXCEPT !.state = "unused", !.user = u,
                                  !.version = user[u].version, !.email = a]
                ELSE IF m \in Logins!Unused(u) THEN [link[m] EXCEPT !.state = "used"] ELSE link[m]]
          /\ asker' = [asker EXCEPT ![r] = [pc |-> "mail", link |-> n]]
    BY DEF Logins!Issue
  <1>3. a \in Address /\ u \in User /\ address[a] = u
    BY <1>1 DEF LinksInv, AskerTypes, Logins!Idle, Logins!Resolves
  <1>4. AskerTypes'
    BY <1>2 DEF LinksInv, AskerTypes
  <1>5. /\ DOMAIN link'[n] = LinkFields /\ link'[n].state = "unused"
        /\ link'[n].user = u /\ link'[n].email = a
    BY <1>2 DEF Logins!NoLink, LinkFields
  <1>6. ASSUME NEW m \in Logins!Link, m # n
        PROVE  /\ DOMAIN link'[m] = LinkFields /\ link'[m].user = link[m].user
               /\ link'[m].email = link[m].email
               /\ \/ link'[m].state = "used" /\ link[m].state = "unused"
                  \/ link'[m].state = link[m].state /\ (link[m].state = "unused" => link[m].user # u)
    <2>1. DOMAIN link[m] = LinkFields
      BY DEF LinksInv
    <2>2. CASE m \in Logins!Unused(u)
      <3>1. link'[m] = [link[m] EXCEPT !.state = "used"] /\ link[m].state = "unused"
        BY <1>2, <1>6, <2>2 DEF Logins!Unused
      <3>2. QED
        BY <2>1, <3>1 DEF LinkFields
    <2>3. CASE m \notin Logins!Unused(u)
      BY <1>2, <1>6, <2>1, <2>3 DEF Logins!Unused
    <2>4. QED
      BY <2>2, <2>3
  <1> HIDE DEF u, a
  <1>7. \A m \in Logins!Link :
          /\ DOMAIN link'[m] = LinkFields /\ link'[m].state \in {"none", "unused", "used", "gone"}
          /\ link'[m].state = "unused" =>
                 /\ link'[m].user \in User /\ link'[m].email \in Address
                 /\ address'[link'[m].email] = link'[m].user
    BY <1>1, <1>3, <1>5, <1>6 DEF LinksInv
  <1>8. \A k, m \in Logins!Link :
          link'[k].state = "unused" /\ link'[m].state = "unused" /\ link'[k].user = link'[m].user => k = m
    <2>1. \A m \in Logins!Link : m # n /\ link'[m].state = "unused" =>
             link[m].state = "unused" /\ link'[m].user = link[m].user /\ link[m].user # u
      BY <1>6
    <2>2. QED
      BY <2>1, <1>5 DEF LinksInv
  <1>9. \A s \in session :
          /\ DOMAIN s = SessionFields /\ s.link \in Logins!Link /\ link'[s.link].state \in {"used", "gone"}
          /\ s.user \in User /\ s.email \in Address
          /\ s.revoked \in BOOLEAN /\ (s.revoked = FALSE => address[s.email] = s.user)
    <2>1. \A m \in Logins!Link : link[m].state \in {"used", "gone"} => link'[m].state = link[m].state
      BY <1>2, <1>6
    <2>2. QED
      BY <2>1 DEF LinksInv
  <1>10. QED
    BY <1>1, <1>2, <1>4, <1>7, <1>8, <1>9 DEF LinksInv

LEMMA LinkOpened ==
    ASSUME LinksInv, NEW n \in Logins!Link, Logins!Verify(n)
    PROVE  LinksInv'
  <1> DEFINE new == [login |-> Logins!Cardinality(session) + 1, link |-> n, user |-> link[n].user,
                     version |-> link[n].version, email |-> link[n].email, revoked |-> FALSE]
  <1>1. /\ link[n].state = "unused" /\ link' = [link EXCEPT ![n].state = "used"]
        /\ session' = session \cup {new} /\ UNCHANGED <<address, asker>>
    BY DEF Logins!Verify, Logins!Acceptable
  <1>2. /\ DOMAIN new = SessionFields /\ new.link = n /\ new.revoked = FALSE
        /\ new.user = link[n].user /\ new.email = link[n].email
    BY DEF SessionFields
  <1> HIDE DEF new
  <1>3. /\ DOMAIN link' = Logins!Link /\ DOMAIN link'[n] = LinkFields /\ link'[n].state = "used"
        /\ \A m \in Logins!Link : m # n => link'[m] = link[m]
    BY <1>1 DEF LinksInv, LinkFields
  <1>4. link[n].user \in User /\ link[n].email \in Address /\ address[link[n].email] = link[n].user
    BY <1>1 DEF LinksInv
  <1>5. \A s \in session : s.link # n
    BY <1>1 DEF LinksInv
  <1>6. \A m \in Logins!Link :
          /\ DOMAIN link'[m] = LinkFields /\ link'[m].state \in {"none", "unused", "used", "gone"}
          /\ link'[m].state = "unused" =>
                 /\ link'[m].user \in User /\ link'[m].email \in Address
                 /\ address'[link'[m].email] = link'[m].user
    BY <1>1, <1>3 DEF LinksInv
  <1>7. \A k, m \in Logins!Link :
          link'[k].state = "unused" /\ link'[m].state = "unused" /\ link'[k].user = link'[m].user => k = m
    BY <1>3 DEF LinksInv
  <1>8. ASSUME NEW s \in session'
        PROVE  /\ DOMAIN s = SessionFields /\ s.link \in Logins!Link
               /\ link'[s.link].state \in {"used", "gone"}
               /\ s.user \in User /\ s.email \in Address
               /\ s.revoked \in BOOLEAN /\ (s.revoked = FALSE => address'[s.email] = s.user)
    <2>1. CASE s = new
      BY <2>1, <1>1, <1>2, <1>3, <1>4
    <2>2. CASE s \in session
      <3>1. link'[s.link] = link[s.link]
        BY <2>2, <1>3, <1>5 DEF LinksInv
      <3>2. QED
        BY <2>2, <3>1, <1>1 DEF LinksInv
    <2>3. QED
      BY <2>1, <2>2, <1>1
  <1>9. \A s, t \in session' : s.link = t.link => s = t
    BY <1>1, <1>2, <1>5 DEF LinksInv
  <1>10. AskerTypes'
    BY <1>1 DEF LinksInv, AskerTypes
  <1>11. QED
    BY <1>1, <1>3, <1>6, <1>7, <1>8, <1>9, <1>10 DEF LinksInv

LEMMA LinksStep ==
    ASSUME LinksInv, Logins!Next
    PROVE  LinksInv'
  <1>t. /\ DOMAIN link = Logins!Link /\ \A n \in Logins!Link : DOMAIN link[n] = LinkFields
        /\ AskerTypes /\ address \in [Address -> User \cup {None}]
    BY DEF LinksInv
  <1>a. ASSUME AskerTypes, UNCHANGED asker PROVE AskerTypes'
    BY <1>a DEF AskerTypes
  <1>1. ASSUME NEW r \in Asker, Logins!Lookup(r) PROVE LinksInv'
    <2>1. PICK a \in Address, u \in User :
           asker' = [asker EXCEPT ![r] = [pc |-> "issue", email |-> a, user |-> u]]
      BY <1>1 DEF Logins!Lookup
    <2>2. AskerTypes'
      BY <2>1, <1>t DEF AskerTypes
    <2>3. UNCHANGED <<address, link, session>>
      BY <1>1 DEF Logins!Lookup
    <2>4. QED
      BY <2>2, <2>3, <1>t, LinksMove
  <1>2. ASSUME NEW r \in Asker, Logins!IssueRefused(r) PROVE LinksInv'
    <2>1. AskerTypes'
      BY <1>2, <1>t DEF AskerTypes, Logins!IssueRefused
    <2>2. UNCHANGED <<address, link, session>>
      BY <1>2 DEF Logins!IssueRefused
    <2>3. QED
      BY <2>1, <2>2, <1>t, LinksMove
  <1>3. ASSUME NEW r \in Asker, Logins!Mail(r) PROVE LinksInv'
    <2>1. PICK taken \in BOOLEAN, answered \in BOOLEAN :
            /\ link' = [link EXCEPT ![asker[r].link].mailed = taken]
            /\ asker' = [asker EXCEPT ![r] =
                 IF answered THEN Logins!Idle ELSE [pc |-> "burn", link |-> asker[r].link]]
      BY <1>3 DEF Logins!Mail
    <2>2. asker[r].link \in Logins!Link /\ UNCHANGED <<address, session>>
      BY <1>3, <1>t DEF AskerTypes, Logins!Mail, Logins!Idle
    <2>3. AskerTypes'
      BY <2>1, <2>2, <1>t DEF AskerTypes
    <2>4. \A n \in Logins!Link :
              \/ link'[n] = link[n]
              \/ /\ DOMAIN link'[n] = LinkFields /\ link'[n].user = link[n].user
                 /\ link'[n].email = link[n].email /\ link'[n].state = link[n].state
      BY <2>1, <2>2, <1>t DEF LinkFields
    <2>5. DOMAIN link' = Logins!Link
      BY <2>1, <1>t
    <2>6. QED
      BY <2>2, <2>3, <2>4, <2>5, LinksMove
  <1>4. ASSUME NEW r \in Asker, Logins!Burn(r) PROVE LinksInv'
    <2>1. /\ link' = [link EXCEPT ![asker[r].link].state = IF @ = "unused" THEN "used" ELSE @]
          /\ asker' = [asker EXCEPT ![r] = Logins!Idle] /\ UNCHANGED <<address, session>>
      BY <1>4 DEF Logins!Burn
    <2>2. asker[r].link \in Logins!Link
      BY <1>4, <1>t DEF AskerTypes, Logins!Burn, Logins!Idle
    <2>3. AskerTypes'
      BY <2>1, <1>t DEF AskerTypes
    <2>4. \A n \in Logins!Link :
              \/ link'[n] = link[n]
              \/ /\ DOMAIN link'[n] = LinkFields /\ link'[n].user = link[n].user
                 /\ link'[n].email = link[n].email
                 /\ \/ link'[n].state = link[n].state
                    \/ link[n].state = "unused" /\ link'[n].state = "used"
      BY <2>1, <2>2, <1>t DEF LinkFields
    <2>5. DOMAIN link' = Logins!Link
      BY <2>1, <1>t
    <2>6. QED
      BY <2>1, <2>3, <2>4, <2>5, LinksMove
  <1>5. ASSUME NEW n \in Logins!Link, Logins!Expires(n) PROVE LinksInv'
    <2>1. link' = [link EXCEPT ![n].expired = TRUE] /\ UNCHANGED <<address, session, asker>>
      BY <1>5 DEF Logins!Expires
    <2>2. \A m \in Logins!Link :
              \/ link'[m] = link[m]
              \/ /\ DOMAIN link'[m] = LinkFields /\ link'[m].user = link[m].user
                 /\ link'[m].email = link[m].email /\ link'[m].state = link[m].state
      BY <2>1, <1>t DEF LinkFields
    <2>3. DOMAIN link' = Logins!Link
      BY <2>1, <1>t
    <2>4. QED
      BY <2>1, <2>2, <2>3, <1>t, <1>a, LinksMove
  <1>6. CASE Logins!Cleanup
    <2>1. /\ link' = [n \in Logins!Link |->
                  IF n \in Logins!Spent THEN [link[n] EXCEPT !.state = "gone"] ELSE link[n]]
          /\ UNCHANGED <<address, session, asker>>
      BY <1>6 DEF Logins!Cleanup
    <2>2. \A n \in Logins!Spent : n \in Logins!Link /\ link[n].state \in {"unused", "used"}
      BY DEF Logins!Spent
    <2>3. \A n \in Logins!Link :
              \/ link'[n] = link[n]
              \/ /\ DOMAIN link'[n] = LinkFields /\ link'[n].user = link[n].user
                 /\ link'[n].email = link[n].email
                 /\ link[n].state \in {"unused", "used"} /\ link'[n].state = "gone"
      BY <2>1, <2>2, <1>t DEF LinkFields
    <2>4. QED
      BY <2>1, <2>3, <1>t, <1>a, LinksMove
  <1>7. CASE Logins!Logout
    <2>1. PICK s \in session : Logins!Revoke({s})
      BY <1>7 DEF Logins!Logout
    <2>2. UNCHANGED <<address, link, asker>>
      BY <1>7 DEF Logins!Logout
    <2>3. /\ \A x \in session' : \E t \in session :
                /\ x.link = t.link /\ DOMAIN x = SessionFields /\ x.revoked \in BOOLEAN
                /\ x.user = t.user /\ x.email = t.email
                /\ x.revoked = FALSE => x = t /\ t \notin {s} /\ address[x.email] = x.user
          /\ \A x, t \in session' : x.link = t.link => x = t
      BY <2>1, RevokedSessions
    <2>4. \A n \in Logins!Link :
              /\ DOMAIN link[n] = LinkFields /\ link[n].state \in {"none", "unused", "used", "gone"}
              /\ link[n].state = "unused" => address[link[n].email] = link[n].user
      BY DEF LinksInv
    <2>5. QED
      BY <2>2, <2>3, <2>4, <1>t, <1>a, LinksSettle
  <1>8. ASSUME NEW u \in User,
               Logins!Switch(u) \/ Logins!AddEmail(u) \/ Logins!RemoveEmail(u) \/ Logins!SetPrimaryEmail(u)
        PROVE  LinksInv'
    <2>1. Logins!EndsAll(u) /\ asker' = asker
      BY <1>8 DEF Logins!Switch, Logins!AddEmail, Logins!RemoveEmail, Logins!SetPrimaryEmail
    <2>2. \/ address' = address
          \/ \E a \in Address : \E v \in {u, None} :
                 address[a] \in {u, None} /\ address' = [address EXCEPT ![a] = v]
      BY <1>8 DEF Logins!Switch, Logins!AddEmail, Logins!RemoveEmail, Logins!SetPrimaryEmail
    <2>3. /\ address' \in [Address -> User \cup {None}]
          /\ \A a \in Address : address'[a] # address[a] => address[a] \in {u, None}
      BY <2>2, <1>t
    <2>4. QED
      BY <2>1, <2>3, UserChanges
  <1>9. QED
    BY <1>1, <1>2, <1>3, <1>4, <1>5, <1>6, <1>7, <1>8, LinkIssued, LinkOpened DEF Logins!Next

LEMMA LinksPromise == LinksInv => Logins!LoginsFollowOwners
  <1> SUFFICES ASSUME LinksInv PROVE Logins!LoginsFollowOwners
    OBVIOUS
  <1>1. \A s \in session : Logins!Accepted(s) => address[s.email] = s.user
    BY DEF LinksInv, Logins!Accepted
  <1>2. \A m, n \in Logins!Link :
          Logins!Acceptable(m) /\ Logins!Acceptable(n) /\ link[m].user = link[n].user => m = n
    BY DEF LinksInv, Logins!Acceptable
  <1>3. QED
    BY <1>1, <1>2 DEF LinksInv, Logins!LoginsFollowOwners

--------------------------------------------------------------------------------
(* UploadAdmission.  What a counter grants is never more than what it has  *)
(* counted; the files that were scanned are not the bad one; a waiter      *)
(* stands in the queue once, and while somebody waits every slot is taken. *)

UploadFields == {"pc", "channel", "bytes", "files", "bad", "scanned", "token"}

\* With files in the quarantine.
Handled == {"check", "scan", "waits", "signatures", "stream", "store", "drop", "lost"}

UploadFits(q) ==
    /\ DOMAIN q = UploadFields /\ q.channel \in {"public", "client", "staff"}
    /\ q.bytes \in Nat /\ q.files \in Nat /\ q.bad \in Nat /\ q.scanned \in Nat /\ q.bad <= q.files
    /\ q.pc \in {"challenge", "request", "bytes"} => q.channel \in {"public", "client"}
    /\ q.bad = 0 \/ q.scanned < q.bad
    /\ q.pc \in {"store", "stored"} => q.bad = 0 /\ q.scanned = q.files

UploadRows ==
    /\ DOMAIN upload = Upload /\ quarantine \subseteq Upload
    /\ \A u \in Upload :
          /\ UploadFits(upload[u]) /\ upload[u].token \subseteq spent
          /\ u \in quarantine => upload[u].pc \in Handled
    /\ \A u, v \in Upload : u # v => upload[u].token \cap upload[v].token = {}

QuotasKept ==
    /\ used \in [{"public", "client"} -> [requests : Nat, bytes : Nat]]
    /\ granted \in [{"public", "client"} -> [requests : Nat, bytes : Nat]]
    /\ \A c \in {"public", "client"} :
          /\ granted[c].requests <= used[c].requests /\ granted[c].requests <= RequestLimit
          /\ granted[c].bytes <= used[c].bytes /\ granted[c].bytes <= ByteLimit

OrphansFew == orphans \in SUBSET Upload /\ Cardinality(orphans) <= OrphanLimit

UploadsAt(f, pcs) == {u \in Upload : f[u].pc \in pcs}
Scans == {"signatures", "stream"}

ScanSlots ==
    /\ busy = Cardinality(UploadsAt(upload, Scans)) /\ busy <= MaxScans
    /\ waiters \in Seq(Upload) /\ Len(waiters) <= MaxQueued
    /\ waiters # << >> => busy = MaxScans
    /\ {waiters[i] : i \in 1 .. Len(waiters)} = UploadsAt(upload, {"waits"})
    /\ \A i, j \in 1 .. Len(waiters) : waiters[i] = waiters[j] => i = j

UploadsInv == UploadRows /\ QuotasKept /\ OrphansFew /\ ScanSlots

LEMMA UploadsAtFinite ==
    ASSUME NEW f, NEW pcs
    PROVE  IsFiniteSet(UploadsAt(f, pcs)) /\ Cardinality(UploadsAt(f, pcs)) \in Nat
  <1>1. UploadsAt(f, pcs) \in SUBSET Upload
    BY DEF UploadsAt
  <1>2. QED
    BY <1>1, ServicesAssumption, FS_Subset, FS_CardinalityType

LEMMA SameCountOfUploads == \A S : Uploads!Cardinality(S) = Cardinality(S)
  BY DEF Uploads!Cardinality, Cardinality

LEMMA UploadsInit == Uploads!Init => UploadsInv
  <1> SUFFICES ASSUME Uploads!Init PROVE UploadsInv
    OBVIOUS
  <1>1. /\ upload \in [Upload -> [pc: {"new"}, channel: {"public", "client", "staff"}, bytes: 1..2,
                                  files: 1..2, bad: 0..2, scanned: {0}, token: {{}}]]
        /\ \A u \in Upload : upload[u].bad <= upload[u].files
        /\ used = [c \in {"public", "client"} |-> [requests |-> 0, bytes |-> 0]] /\ granted = used
        /\ busy = 0 /\ waiters = << >> /\ spent = {} /\ quarantine = {} /\ orphans = {}
    BY DEF Uploads!Init, Uploads!NoUse, Uploads!Channel
  <1>2. UploadRows
    BY <1>1 DEF UploadRows, UploadFits, UploadFields
  <1>3. QuotasKept
    BY <1>1, ServicesAssumption DEF QuotasKept
  <1>4. OrphansFew
    BY <1>1, ServicesAssumption, FS_EmptySet DEF OrphansFew
  <1>5. UploadsAt(upload, Scans) = {} /\ UploadsAt(upload, {"waits"}) = {}
    BY <1>1 DEF UploadsAt, Scans
  <1>6. ScanSlots
    BY <1>1, <1>5, ServicesAssumption, FS_EmptySet DEF ScanSlots
  <1>7. QED
    BY <1>2, <1>3, <1>4, <1>6 DEF UploadsInv

\* A request goes on.
LEMMA UploadGoesOn ==
    ASSUME UploadRows, NEW u \in Upload, NEW p, upload' = [upload EXCEPT ![u].pc = p],
           p \in {"challenge", "request", "bytes"} => upload[u].channel \in {"public", "client"},
           p \in {"store", "stored"} => upload[u].pc = "store",
           spent \subseteq spent', quarantine' \subseteq quarantine \cup {u},
           u \in quarantine' => p \in Handled
    PROVE  UploadRows'
  <1>1. UploadFits(upload[u]) /\ DOMAIN upload = Upload
    BY DEF UploadRows
  <1>2. /\ DOMAIN upload' = Upload /\ upload'[u] = [upload[u] EXCEPT !.pc = p]
        /\ \A v \in Upload : v # u => upload'[v] = upload[v]
    BY <1>1
  <1>3. /\ UploadFits(upload'[u]) /\ upload'[u].pc = p /\ upload'[u].token = upload[u].token
    BY <1>1, <1>2 DEF UploadFits, UploadFields
  <1>4. \A v \in Upload : UploadFits(upload'[v]) /\ upload'[v].token = upload[v].token
    BY <1>2, <1>3 DEF UploadRows
  <1>5. \A v \in Upload : v \in quarantine' => upload'[v].pc \in Handled
    BY <1>2, <1>3 DEF UploadRows
  <1>6. QED
    BY <1>2, <1>4, <1>5 DEF UploadRows

\* Who gives a slot back, and who takes it over.
LEMMA UploadReleases ==
    ASSUME UploadsInv, NEW u \in Upload, upload[u].pc \in Scans, NEW p, NEW n, Uploads!Release(u, p, n)
    PROVE  /\ DOMAIN upload' = Upload
           /\ DOMAIN upload'[u] = UploadFields /\ upload'[u].pc = p /\ upload'[u].scanned = n
           /\ \A f \in UploadFields \ {"pc", "scanned"} : upload'[u][f] = upload[u][f]
           /\ \/ /\ waiters = << >> /\ waiters' = waiters /\ busy' = busy - 1
                 /\ \A v \in Upload : v # u => upload'[v] = upload[v]
              \/ /\ waiters # << >> /\ waiters' = Tail(waiters) /\ busy' = busy
                 /\ Head(waiters) \in Upload /\ upload[Head(waiters)].pc = "waits" /\ Head(waiters) # u
                 /\ upload'[Head(waiters)] = [upload[Head(waiters)] EXCEPT !.pc = "signatures"]
                 /\ \A v \in Upload : v \notin {u, Head(waiters)} => upload'[v] = upload[v]
  <1>1. DOMAIN upload = Upload /\ waiters \in Seq(Upload)
    BY DEF UploadsInv, UploadRows, ScanSlots
  <1>u. ASSUME upload'[u] = [upload[u] EXCEPT !.pc = p, !.scanned = n]
        PROVE  /\ DOMAIN upload'[u] = UploadFields /\ upload'[u].pc = p /\ upload'[u].scanned = n
               /\ \A f \in UploadFields \ {"pc", "scanned"} : upload'[u][f] = upload[u][f]
    <2>1. DOMAIN upload[u] = UploadFields
      BY DEF UploadsInv, UploadRows, UploadFits
    <2>2. QED
      BY <2>1, <1>u DEF UploadFields
  <1>2. CASE waiters = << >>
    <2>1. /\ upload'[u] = [upload[u] EXCEPT !.pc = p, !.scanned = n] /\ DOMAIN upload' = Upload
          /\ waiters' = waiters /\ busy' = busy - 1
          /\ \A v \in Upload : v # u => upload'[v] = upload[v]
      BY <1>1, <1>2 DEF Uploads!Release
    <2>2. QED
      BY <1>2, <2>1, <1>u
  <1>3. CASE waiters # << >>
    <2>1. waiters' = Tail(waiters) /\ busy' = busy
          /\ upload' = [upload EXCEPT ![u].pc = p, ![u].scanned = n, ![Head(waiters)].pc = "signatures"]
      BY <1>3 DEF Uploads!Release
    <2>2. Head(waiters) = waiters[1] /\ 1 \in 1 .. Len(waiters)
      BY <1>1, <1>3
    <2>3. Head(waiters) \in UploadsAt(upload, {"waits"})
      BY <2>2 DEF UploadsInv, ScanSlots
    <2>4. Head(waiters) \in Upload /\ upload[Head(waiters)].pc = "waits" /\ Head(waiters) # u
      BY <2>3 DEF UploadsAt, Scans
    <2> DEFINE h == Head(waiters)
    <2> HIDE DEF h
    <2>5. h \in Upload /\ h # u
      BY <2>4 DEF h
    <2>6. upload' = [upload EXCEPT ![u].pc = p, ![u].scanned = n, ![h].pc = "signatures"]
      BY <2>1 DEF h
    <2>7. /\ DOMAIN upload' = Upload /\ upload'[h] = [upload[h] EXCEPT !.pc = "signatures"]
          /\ upload'[u] = [upload[u] EXCEPT !.pc = p, !.scanned = n]
          /\ \A v \in Upload : v \notin {u, h} => upload'[v] = upload[v]
      BY <1>1, <2>5, <2>6
    <2>8. QED
      BY <1>3, <1>u, <2>1, <2>4, <2>7 DEF h
  <1>4. QED
    BY <1>2, <1>3

LEMMA ReleaseKeepsRows ==
    ASSUME UploadsInv, NEW u \in Upload, upload[u].pc \in Scans, NEW p \in {"drop", "store", "scan"},
           NEW n \in Nat, Uploads!Release(u, p, n), UNCHANGED <<spent, quarantine>>,
           upload[u].bad = 0 \/ n < upload[u].bad, p = "store" => n = upload[u].files
    PROVE  UploadRows'
  <1>1. UploadRows
    BY DEF UploadsInv
  <1>2. /\ DOMAIN upload' = Upload
        /\ DOMAIN upload'[u] = UploadFields /\ upload'[u].pc = p /\ upload'[u].scanned = n
        /\ \A f \in UploadFields \ {"pc", "scanned"} : upload'[u][f] = upload[u][f]
        /\ \A v \in Upload : v # u => \/ upload'[v] = upload[v]
                                      \/ upload'[v] = [upload[v] EXCEPT !.pc = "signatures"]
    <2>1. /\ DOMAIN upload' = Upload
          /\ DOMAIN upload'[u] = UploadFields /\ upload'[u].pc = p /\ upload'[u].scanned = n
          /\ \A f \in UploadFields \ {"pc", "scanned"} : upload'[u][f] = upload[u][f]
      BY UploadReleases
    <2>2. \/ \A v \in Upload : v # u => upload'[v] = upload[v]
          \/ /\ upload'[Head(waiters)] = [upload[Head(waiters)] EXCEPT !.pc = "signatures"]
             /\ \A v \in Upload : v \notin {u, Head(waiters)} => upload'[v] = upload[v]
      BY UploadReleases
    <2> DEFINE h == Head(waiters)
    <2>3. \/ \A v \in Upload : v # u => upload'[v] = upload[v]
          \/ /\ upload'[h] = [upload[h] EXCEPT !.pc = "signatures"]
             /\ \A v \in Upload : v \notin {u, h} => upload'[v] = upload[v]
      BY <2>2
    <2> HIDE DEF h
    <2>4. QED
      BY <2>1, <2>3
  <1>3. \A v \in Upload : UploadFits(upload[v])
    BY <1>1 DEF UploadRows
  <1>4. /\ UploadFits(upload'[u]) /\ upload'[u].pc \in Handled /\ upload'[u].token = upload[u].token
    <2>1. UploadFits(upload[u])
      BY <1>3
    <2>2. p = "store" => n = upload[u].files /\ upload[u].bad = 0
      BY <2>1 DEF UploadFits
    <2>3. QED
      BY <2>1, <1>2, <2>2 DEF UploadFits, UploadFields, Handled
  <1>5. ASSUME NEW v \in Upload, v # u
        PROVE  /\ UploadFits(upload'[v]) /\ upload'[v].token = upload[v].token
               /\ upload'[v].pc \in {upload[v].pc, "signatures"}
    <2>1. UploadFits(upload[v])
      BY <1>3
    <2>2. QED
      BY <2>1, <1>2, <1>5 DEF UploadFits, UploadFields
  <1>6. \A v \in Upload : UploadFits(upload'[v]) /\ upload'[v].token = upload[v].token
    BY <1>4, <1>5
  <1>7. \A v \in Upload : v \in quarantine' => upload'[v].pc \in Handled
    BY <1>1, <1>4, <1>5 DEF UploadRows, Handled
  <1>8. QED
    BY <1>1, <1>2, <1>6, <1>7 DEF UploadRows

LEMMA RowsStep ==
    ASSUME UploadsInv, Uploads!Next
    PROVE  UploadRows'
  <1>0. UploadRows
    BY DEF UploadsInv
  <1>1. CASE Uploads!EndWindow \/ Uploads!CacheEnds
    <2>1. UNCHANGED <<upload, spent, quarantine>>
      BY <1>1 DEF Uploads!EndWindow, Uploads!CacheEnds
    <2>2. QED
      BY <2>1, <1>0 DEF UploadRows
  <1>2. CASE Uploads!Crash
    <2>1. /\ upload' = [u \in Upload |-> IF upload[u].pc \in {"new", "stored", "refused"} THEN upload[u]
                                         ELSE [upload[u] EXCEPT !.pc = "lost"]]
          /\ UNCHANGED <<spent, quarantine>>
      BY <1>2 DEF Uploads!Crash
    <2>2. ASSUME NEW u \in Upload
          PROVE  /\ UploadFits(upload'[u]) /\ upload'[u].token = upload[u].token
                 /\ upload'[u].pc \in {upload[u].pc, "lost"}
      <3>1. UploadFits(upload[u])
        BY <1>0 DEF UploadRows
      <3>2. upload'[u] = upload[u] \/ upload'[u] = [upload[u] EXCEPT !.pc = "lost"]
        BY <2>1
      <3>3. QED
        BY <3>1, <3>2 DEF UploadFits, UploadFields
    <2>3. QED
      BY <2>1, <2>2, <1>0 DEF UploadRows, Handled
  <1>3. ASSUME NEW u \in Upload, Uploads!Arrive(u) PROVE UploadRows'
    <2>1. PICK p \in {"refused", "challenge", "request", "receive"} :
             /\ upload' = [upload EXCEPT ![u].pc = p]
             /\ p \in {"challenge", "request"} => upload[u].channel \in {"public", "client"}
      BY <1>3 DEF Uploads!Arrive, Uploads!To
    <2>2. upload[u].pc = "new" /\ UNCHANGED <<spent, quarantine>>
      BY <1>3 DEF Uploads!Arrive, Uploads!At
    <2>3. u \notin quarantine
      BY <2>2, <1>0 DEF UploadRows, Handled
    <2>4. QED
      BY <2>1, <2>2, <2>3, <1>0, UploadGoesOn
  <1>4. ASSUME NEW u \in Upload, Uploads!Verify(u) PROVE UploadRows'
    <2>1. upload[u].pc = "challenge" /\ quarantine' = quarantine
      BY <1>4 DEF Uploads!Verify, Uploads!At
    <2>2. u \notin quarantine
      BY <2>1, <1>0 DEF UploadRows, Handled
    <2>3. CASE upload' = [upload EXCEPT ![u].pc = "refused"] /\ spent \subseteq spent'
      BY <2>1, <2>2, <2>3, <1>0, UploadGoesOn
    <2>4. ASSUME NEW t \in Challenge, t \notin spent, spent' = spent \cup {t},
                 upload' = [upload EXCEPT ![u].pc = "request", ![u].token = {t}]
          PROVE  UploadRows'
      <3>1. UploadFits(upload[u]) /\ DOMAIN upload = Upload
        BY <1>0 DEF UploadRows
      <3>2. /\ DOMAIN upload' = Upload
            /\ upload'[u] = [upload[u] EXCEPT !.pc = "request", !.token = {t}]
            /\ \A v \in Upload : v # u => upload'[v] = upload[v]
        BY <3>1, <2>4
      <3>3. UploadFits(upload'[u]) /\ upload'[u].token = {t}
        BY <3>1, <3>2, <2>1 DEF UploadFits, UploadFields
      <3>4. \A v \in Upload : v # u => t \notin upload[v].token
        BY <2>4, <1>0 DEF UploadRows
      <3>5. QED
        BY <3>2, <3>3, <3>4, <2>1, <2>2, <2>4, <1>0 DEF UploadRows
    <2>5. QED
      BY <1>4, <2>3, <2>4 DEF Uploads!Verify, Uploads!To
  <1>5. ASSUME NEW u \in Upload, Uploads!Reserve(u) PROVE UploadRows'
    <2>1. upload[u].pc \in {"request", "bytes"} /\ UNCHANGED <<spent, quarantine>>
      BY <1>5 DEF Uploads!Reserve, Uploads!At
    <2>2. \E p \in {"refused", "bytes", "capacity"} : upload' = [upload EXCEPT ![u].pc = p]
      BY <1>5 DEF Uploads!Reserve, Uploads!Consume, Uploads!To
    <2>3. u \notin quarantine /\ upload[u].channel \in {"public", "client"}
      BY <2>1, <1>0 DEF UploadRows, Handled, UploadFits
    <2>4. QED
      BY <2>1, <2>2, <2>3, <1>0, UploadGoesOn
  <1>6. ASSUME NEW u \in Upload, Uploads!CheckCapacity(u) PROVE UploadRows'
    <2>1. upload[u].pc = "capacity" /\ UNCHANGED <<spent, quarantine>>
      BY <1>6 DEF Uploads!CheckCapacity, Uploads!At
    <2>2. \E p \in {"refused", "receive"} : upload' = [upload EXCEPT ![u].pc = p]
      BY <1>6 DEF Uploads!CheckCapacity, Uploads!To
    <2>3. u \notin quarantine
      BY <2>1, <1>0 DEF UploadRows, Handled
    <2>4. QED
      BY <2>1, <2>2, <2>3, <1>0, UploadGoesOn
  <1>7. ASSUME NEW u \in Upload, Uploads!Receive(u) PROVE UploadRows'
    <2>1. upload[u].pc = "receive" /\ spent' = spent
      BY <1>7 DEF Uploads!Receive, Uploads!At
    <2>2. u \notin quarantine
      BY <2>1, <1>0 DEF UploadRows, Handled
    <2>3. \/ upload' = [upload EXCEPT ![u].pc = "check"] /\ quarantine' = quarantine \cup {u}
          \/ upload' = [upload EXCEPT ![u].pc = "refused"] /\ quarantine' = quarantine
      BY <1>7 DEF Uploads!Receive, Uploads!To
    <2>4. QED
      BY <2>1, <2>2, <2>3, <1>0, UploadGoesOn DEF Handled
  <1>8. ASSUME NEW u \in Upload, Uploads!Check(u) \/ Uploads!Acquire(u) PROVE UploadRows'
    <2>1. UNCHANGED <<spent, quarantine>>
      BY <1>8 DEF Uploads!Check, Uploads!Acquire
    <2>2. \E p \in {"scan", "drop", "signatures", "waits"} : upload' = [upload EXCEPT ![u].pc = p]
      BY <1>8 DEF Uploads!Check, Uploads!Acquire, Uploads!To
    <2>3. QED
      BY <2>1, <2>2, <1>0, UploadGoesOn DEF Handled
  <1>9. ASSUME NEW u \in Upload, Uploads!CheckSignatures(u) PROVE UploadRows'
    <2>1. upload[u].pc = "signatures" /\ UNCHANGED <<spent, quarantine>>
      BY <1>9 DEF Uploads!CheckSignatures, Uploads!At
    <2>2. CASE upload' = [upload EXCEPT ![u].pc = "stream"]
      BY <2>1, <2>2, <1>0, UploadGoesOn DEF Handled
    <2>3. CASE Uploads!Release(u, "drop", upload[u].scanned)
      <3>1. UploadFits(upload[u])
        BY <1>0 DEF UploadRows
      <3>2. upload[u].scanned \in Nat /\ (upload[u].bad = 0 \/ upload[u].scanned < upload[u].bad)
        BY <3>1 DEF UploadFits
      <3>3. QED
        BY <2>1, <2>3, <3>2, ReleaseKeepsRows DEF Scans
    <2>4. QED
      BY <1>9, <2>2, <2>3 DEF Uploads!CheckSignatures, Uploads!To
  <1>10. ASSUME NEW u \in Upload, Uploads!Scan(u) PROVE UploadRows'
    <2>1. upload[u].pc = "stream" /\ UNCHANGED <<spent, quarantine>>
      BY <1>10 DEF Uploads!Scan, Uploads!At
    <2>2. UploadFits(upload[u])
      BY <1>0 DEF UploadRows
    <2>3. /\ upload[u].scanned \in Nat /\ upload[u].bad \in Nat
          /\ (upload[u].bad = 0 \/ upload[u].scanned < upload[u].bad)
      BY <2>2 DEF UploadFits
    <2>4. CASE Uploads!Release(u, "drop", upload[u].scanned)
      BY <2>1, <2>3, <2>4, ReleaseKeepsRows DEF Scans
    <2>5. CASE /\ upload[u].scanned + 1 # upload[u].bad
               /\ Uploads!Release(u, IF upload[u].scanned + 1 = upload[u].files THEN "store" ELSE "scan",
                                  upload[u].scanned + 1)
      <3>1. upload[u].bad = 0 \/ upload[u].scanned + 1 < upload[u].bad
        BY <2>3, <2>5
      <3>2. CASE upload[u].scanned + 1 = upload[u].files
        BY <2>1, <2>3, <2>5, <3>1, <3>2, ReleaseKeepsRows DEF Scans
      <3>3. CASE upload[u].scanned + 1 # upload[u].files
        BY <2>1, <2>3, <2>5, <3>1, <3>3, ReleaseKeepsRows DEF Scans
      <3>4. QED
        BY <3>2, <3>3
    <2>6. QED
      BY <1>10, <2>4, <2>5 DEF Uploads!Scan
  <1>11. ASSUME NEW u \in Upload, Uploads!Store(u) PROVE UploadRows'
    <2>1. upload[u].pc = "store" /\ spent' = spent
      BY <1>11 DEF Uploads!Store, Uploads!At
    <2>2. \/ upload' = [upload EXCEPT ![u].pc = "stored"] /\ quarantine' = quarantine \ {u}
          \/ upload' = [upload EXCEPT ![u].pc = "drop"] /\ quarantine' = quarantine
      BY <1>11 DEF Uploads!Store, Uploads!To
    <2>3. QED
      BY <2>1, <2>2, <1>0, UploadGoesOn DEF Handled
  <1>12. ASSUME NEW u \in Upload, Uploads!Drop(u) PROVE UploadRows'
    <2>1. /\ upload' = [upload EXCEPT ![u].pc = "refused"] /\ quarantine' = quarantine \ {u}
          /\ spent' = spent
      BY <1>12 DEF Uploads!Drop, Uploads!To
    <2>2. QED
      BY <2>1, <1>0, UploadGoesOn
  <1>13. ASSUME NEW u \in Upload, Uploads!Leave(u) PROVE UploadRows'
    <2>1. UNCHANGED <<upload, spent, quarantine>>
      BY <1>13 DEF Uploads!Leave
    <2>2. QED
      BY <2>1, <1>0 DEF UploadRows
  <1>14. QED
    BY <1>1, <1>2, <1>3, <1>4, <1>5, <1>6, <1>7, <1>8, <1>9, <1>10, <1>11, <1>12, <1>13
       DEF Uploads!Next

LEMMA QuotasStep ==
    ASSUME UploadsInv, Uploads!Next
    PROVE  QuotasKept'
  <1>0. QuotasKept
    BY DEF UploadsInv
  <1>u. ASSUME UNCHANGED <<used, granted>> PROVE QuotasKept'
    BY <1>0, <1>u DEF QuotasKept
  <1>1. CASE Uploads!EndWindow
    <2>1. PICK c \in {"public", "client"}, k \in {"requests", "bytes"} :
            used' = [used EXCEPT ![c][k] = 0] /\ granted' = [granted EXCEPT ![c][k] = 0]
      BY <1>1 DEF Uploads!EndWindow, Uploads!Channel
    <2>2. CASE k = "requests"
      <3>1. used' = [used EXCEPT ![c].requests = 0] /\ granted' = [granted EXCEPT ![c].requests = 0]
        BY <2>1, <2>2
      <3>2. QED
        BY <3>1, <1>0, ServicesAssumption DEF QuotasKept
    <2>3. CASE k = "bytes"
      <3>1. used' = [used EXCEPT ![c].bytes = 0] /\ granted' = [granted EXCEPT ![c].bytes = 0]
        BY <2>1, <2>3
      <3>2. QED
        BY <3>1, <1>0, ServicesAssumption DEF QuotasKept
    <2>4. QED
      BY <2>2, <2>3
  <1>2. ASSUME NEW u \in Upload, Uploads!Reserve(u) PROVE QuotasKept'
    <2> DEFINE c == upload[u].channel
               b == upload[u].bytes
    <2>1. upload[u].pc \in {"request", "bytes"}
      BY <1>2 DEF Uploads!Reserve, Uploads!At
    <2>2. c \in {"public", "client"} /\ b \in Nat
      BY <2>1 DEF UploadsInv, UploadRows, UploadFits
    <2>3. CASE UNCHANGED <<used, granted>>
      BY <2>3, <1>u
    <2>4. CASE /\ used' = [used EXCEPT ![c].requests = used[c].requests + 1]
               /\ \/ granted' = granted
                  \/ used[c].requests + 1 <= RequestLimit /\ granted' = [granted EXCEPT ![c].requests = @ + 1]
      <3> HIDE DEF c, b
      <3>1. QED
        BY <2>2, <2>4, <1>0, ServicesAssumption DEF QuotasKept
    <2>5. CASE /\ used' = [used EXCEPT ![c].bytes = used[c].bytes + b]
               /\ \/ granted' = granted
                  \/ used[c].bytes + b <= ByteLimit /\ granted' = [granted EXCEPT ![c].bytes = @ + b]
      <3> HIDE DEF c, b
      <3>1. QED
        BY <2>2, <2>5, <1>0, ServicesAssumption DEF QuotasKept
    <2>6. \/ Uploads!Consume(u, "requests", 1, RequestLimit, "bytes")
          \/ Uploads!Consume(u, "bytes", b, ByteLimit, "capacity")
          \/ UNCHANGED <<used, granted>>
      BY <1>2 DEF Uploads!Reserve
    <2>7. used[c].requests \in Nat /\ used[c].bytes \in Nat /\ RequestLimit \in Nat /\ ByteLimit \in Nat
      BY <2>2, <1>0, ServicesAssumption DEF QuotasKept
    <2>8. ASSUME Uploads!Consume(u, "requests", 1, RequestLimit, "bytes") PROVE QuotasKept'
      <3>1. /\ used' = [used EXCEPT ![c].requests = used[c].requests + 1]
            /\ \/ granted' = granted
               \/ ~(used[c].requests + 1 > RequestLimit) /\ granted' = [granted EXCEPT ![c].requests = @ + 1]
        BY <2>8 DEF Uploads!Consume
      <3>2. ~(used[c].requests + 1 > RequestLimit) => used[c].requests + 1 <= RequestLimit
        BY <2>7
      <3>3. QED
        BY <3>1, <3>2, <2>4
    <2>9. ASSUME Uploads!Consume(u, "bytes", b, ByteLimit, "capacity") PROVE QuotasKept'
      <3>1. /\ used' = [used EXCEPT ![c].bytes = used[c].bytes + b]
            /\ \/ granted' = granted
               \/ ~(used[c].bytes + b > ByteLimit) /\ granted' = [granted EXCEPT ![c].bytes = @ + b]
        BY <2>9 DEF Uploads!Consume
      <3>2. ~(used[c].bytes + b > ByteLimit) => used[c].bytes + b <= ByteLimit
        BY <2>2, <2>7
      <3>3. QED
        BY <3>1, <3>2, <2>5
    <2>10. QED
      BY <2>3, <2>6, <2>8, <2>9
  <1>3. CASE ~Uploads!EndWindow /\ \A u \in Upload : ~Uploads!Reserve(u)
    <2>1. UNCHANGED <<used, granted>>
      BY <1>3 DEF Uploads!Next, Uploads!CacheEnds, Uploads!Crash, Uploads!Arrive, Uploads!Verify,
           Uploads!CheckCapacity, Uploads!Receive, Uploads!Check, Uploads!Acquire,
           Uploads!CheckSignatures, Uploads!Scan, Uploads!Store, Uploads!Drop, Uploads!Leave
    <2>2. QED
      BY <2>1, <1>u
  <1>4. QED
    BY <1>1, <1>2, <1>3

LEMMA OrphansStep ==
    ASSUME UploadsInv, Uploads!Next
    PROVE  OrphansFew'
  <1>0. /\ orphans \in SUBSET Upload /\ IsFiniteSet(orphans) /\ Cardinality(orphans) \in Nat
        /\ Cardinality(orphans) <= OrphanLimit /\ OrphanLimit \in Nat
    BY ServicesAssumption, FS_Subset, FS_CardinalityType DEF UploadsInv, OrphansFew
  <1>1. ASSUME NEW u \in Upload, Uploads!Store(u) PROVE OrphansFew'
    <2>1. CASE orphans' = orphans
      BY <1>0, <2>1 DEF OrphansFew
    <2>2. CASE Uploads!HasRoom /\ orphans' = orphans \cup {u}
      <3>1. Cardinality(orphans) < OrphanLimit
        BY <2>2, SameCountOfUploads DEF Uploads!HasRoom
      <3>2. Cardinality(orphans \cup {u}) <= Cardinality(orphans) + 1
        BY <1>0, FS_AddElement
      <3>3. Cardinality(orphans \cup {u}) \in Nat
        BY <1>0, FS_AddElement, FS_CardinalityType
      <3>4. QED
        BY <1>0, <2>2, <3>1, <3>2, <3>3 DEF OrphansFew
    <2>3. QED
      BY <1>1, <2>1, <2>2 DEF Uploads!Store
  <1>2. ASSUME NEW u \in Upload, Uploads!Leave(u) PROVE OrphansFew'
    <2>1. orphans' = orphans \ {u} /\ u \in orphans
      BY <1>2 DEF Uploads!Leave
    <2>2. Cardinality(orphans \ {u}) = Cardinality(orphans) - 1
      BY <1>0, <2>1, FS_RemoveElement
    <2>3. QED
      BY <1>0, <2>1, <2>2 DEF OrphansFew
  <1>3. CASE \A u \in Upload : ~Uploads!Store(u) /\ ~Uploads!Leave(u)
    <2>1. orphans' = orphans
      BY <1>3 DEF Uploads!Next, Uploads!EndWindow, Uploads!CacheEnds, Uploads!Crash, Uploads!Arrive,
           Uploads!Verify, Uploads!Reserve, Uploads!CheckCapacity, Uploads!Receive, Uploads!Check,
           Uploads!Acquire, Uploads!CheckSignatures, Uploads!Scan, Uploads!Drop
    <2>2. QED
      BY <1>0, <2>1 DEF OrphansFew
  <1>4. QED
    BY <1>1, <1>2, <1>3

\* Nobody takes a slot, gives one back or joins the queue.
LEMMA SlotsStay ==
    ASSUME ScanSlots, UNCHANGED <<busy, waiters>>,
           \A v \in Upload : \/ upload'[v].pc = upload[v].pc
                             \/ upload[v].pc \in Scans /\ upload'[v].pc \in Scans
                             \/ {upload[v].pc, upload'[v].pc} \cap (Scans \cup {"waits"}) = {}
    PROVE  ScanSlots'
  <1>1. UploadsAt(upload', Scans) = UploadsAt(upload, Scans)
    BY DEF UploadsAt, Scans
  <1>2. UploadsAt(upload', {"waits"}) = UploadsAt(upload, {"waits"})
    BY DEF UploadsAt, Scans
  <1>3. QED
    BY <1>1, <1>2 DEF ScanSlots

LEMMA SlotReleased ==
    ASSUME UploadsInv, NEW u \in Upload, upload[u].pc \in Scans, NEW p \in {"drop", "store", "scan"},
           NEW n, Uploads!Release(u, p, n)
    PROVE  ScanSlots'
  <1>0. ScanSlots /\ UploadRows
    BY DEF UploadsInv
  <1>1. IsFiniteSet(UploadsAt(upload, Scans)) /\ Cardinality(UploadsAt(upload, Scans)) \in Nat
        /\ u \in UploadsAt(upload, Scans) /\ MaxScans \in Nat
    <2>1. u \in UploadsAt(upload, Scans)
      BY DEF UploadsAt
    <2>2. QED
      BY <2>1, UploadsAtFinite, ServicesAssumption
  <1>2. Cardinality(UploadsAt(upload, Scans) \ {u}) = Cardinality(UploadsAt(upload, Scans)) - 1
    BY <1>1, FS_RemoveElement
  <1>3. upload'[u].pc = p
    BY UploadReleases
  <1>4. CASE waiters = << >>
    <2>1. waiters' = waiters /\ busy' = busy - 1 /\ \A v \in Upload : v # u => upload'[v] = upload[v]
      BY <1>4, UploadReleases
    <2>2. UploadsAt(upload', Scans) = UploadsAt(upload, Scans) \ {u}
      BY <2>1, <1>3 DEF UploadsAt, Scans
    <2>3. UploadsAt(upload', {"waits"}) = UploadsAt(upload, {"waits"})
      BY <2>1, <1>3 DEF UploadsAt, Scans
    <2>4. QED
      BY <1>0, <1>1, <1>2, <1>4, <2>1, <2>2, <2>3 DEF ScanSlots
  <1>5. CASE waiters # << >>
    <2> DEFINE h == Head(waiters)
    <2>1. /\ waiters' = Tail(waiters) /\ busy' = busy /\ h \in Upload /\ upload[h].pc = "waits" /\ h # u
          /\ upload'[h] = [upload[h] EXCEPT !.pc = "signatures"]
          /\ \A v \in Upload : v \notin {u, h} => upload'[v] = upload[v]
      BY <1>5, UploadReleases
    <2>2. h = waiters[1] /\ waiters \in Seq(Upload)
      BY <1>0, <1>5 DEF ScanSlots
    <2> HIDE DEF h
    <2>3. upload'[h].pc = "signatures"
      <3>1. DOMAIN upload[h] = UploadFields
        BY <1>0, <2>1 DEF UploadRows, UploadFits
      <3>2. QED
        BY <2>1, <3>1 DEF UploadFields
    <2>4. UploadsAt(upload', Scans) = (UploadsAt(upload, Scans) \ {u}) \cup {h}
      BY <2>1, <2>3, <1>3 DEF UploadsAt, Scans
    <2>5. UploadsAt(upload', {"waits"}) = UploadsAt(upload, {"waits"}) \ {h}
      BY <2>1, <2>3, <1>3 DEF UploadsAt, Scans
    <2>6. Cardinality(UploadsAt(upload', Scans)) = Cardinality(UploadsAt(upload, Scans))
      <3> DEFINE S == UploadsAt(upload, Scans) \ {u}
      <3>1. IsFiniteSet(S) /\ h \notin S
        BY <1>1, <2>1, FS_RemoveElement DEF UploadsAt, Scans
      <3>2. Cardinality(S \cup {h}) = Cardinality(S) + 1
        BY <3>1, FS_AddElement
      <3>3. QED
        BY <3>2, <2>4, <1>1, <1>2
    <2>7. waiters' \in Seq(Upload) /\ Len(waiters') = Len(waiters) - 1 /\ Len(waiters) \in Nat
          /\ \A i \in 1 .. Len(waiters') : waiters'[i] = waiters[i + 1]
      BY <1>5, <2>1, <2>2
    <2>8. \A i, j \in 1 .. Len(waiters) : waiters[i] = waiters[j] => i = j
      BY <1>0 DEF ScanSlots
    <2>9. {waiters'[i] : i \in 1 .. Len(waiters')} = UploadsAt(upload', {"waits"})
      <3>1. {waiters[i] : i \in 1 .. Len(waiters)} = UploadsAt(upload, {"waits"})
        BY <1>0 DEF ScanSlots
      <3>2. ASSUME NEW i \in 1 .. Len(waiters') PROVE waiters'[i] \in UploadsAt(upload', {"waits"})
        BY <3>1, <2>2, <2>5, <2>7, <2>8
      <3>3. ASSUME NEW v \in UploadsAt(upload', {"waits"}) PROVE \E i \in 1 .. Len(waiters') : waiters'[i] = v
        <4>1. PICK i \in 1 .. Len(waiters) : waiters[i] = v
          BY <3>1, <2>5
        <4>2. i # 1
          BY <4>1, <2>2, <2>5
        <4>3. i - 1 \in 1 .. Len(waiters') /\ waiters'[i - 1] = waiters[(i - 1) + 1]
          BY <4>1, <4>2, <2>7
        <4>4. QED
          BY <4>1, <4>3
      <3>4. QED
        BY <3>2, <3>3
    <2>10. \A i, j \in 1 .. Len(waiters') : waiters'[i] = waiters'[j] => i = j
      BY <2>7, <2>8
    <2>11. Len(waiters') <= MaxQueued /\ busy' = MaxScans
      BY <1>0, <1>5, <2>1, <2>7, ServicesAssumption DEF ScanSlots
    <2>12. busy' = Cardinality(UploadsAt(upload', Scans))
      BY <1>0, <2>1, <2>6 DEF ScanSlots
    <2>13. QED
      BY <1>1, <2>7, <2>9, <2>10, <2>11, <2>12 DEF ScanSlots
  <1>6. QED
    BY <1>4, <1>5

LEMMA SlotAcquired ==
    ASSUME UploadsInv, NEW u \in Upload, Uploads!Acquire(u)
    PROVE  ScanSlots'
  <1>0. ScanSlots /\ UploadRows /\ upload[u].pc = "scan"
    BY DEF UploadsInv, Uploads!Acquire, Uploads!At
  <1>1. DOMAIN upload = Upload /\ DOMAIN upload[u] = UploadFields
    BY <1>0 DEF UploadRows, UploadFits
  <1>2. \A p : upload' = [upload EXCEPT ![u].pc = p] =>
              upload'[u].pc = p /\ \A v \in Upload : v # u => upload'[v] = upload[v]
    BY <1>1 DEF UploadFields
  <1>3. /\ IsFiniteSet(UploadsAt(upload, Scans)) /\ Cardinality(UploadsAt(upload, Scans)) \in Nat
        /\ u \notin UploadsAt(upload, Scans) /\ u \notin UploadsAt(upload, {"waits"})
        /\ MaxScans \in Nat /\ MaxQueued \in Nat
    <2>1. IsFiniteSet(UploadsAt(upload, Scans)) /\ Cardinality(UploadsAt(upload, Scans)) \in Nat
      BY UploadsAtFinite
    <2>2. u \notin UploadsAt(upload, Scans) /\ u \notin UploadsAt(upload, {"waits"})
      BY <1>0 DEF UploadsAt, Scans
    <2>3. MaxScans \in Nat /\ MaxQueued \in Nat
      BY ServicesAssumption
    <2>4. QED
      BY <2>1, <2>2, <2>3
  <1>4. CASE busy < MaxScans
    <2>1. busy' = busy + 1 /\ waiters' = waiters /\ upload' = [upload EXCEPT ![u].pc = "signatures"]
      BY <1>4 DEF Uploads!Acquire, Uploads!To
    <2>2. UploadsAt(upload', Scans) = UploadsAt(upload, Scans) \cup {u}
      BY <2>1, <1>2 DEF UploadsAt, Scans
    <2>3. UploadsAt(upload', {"waits"}) = UploadsAt(upload, {"waits"})
      BY <2>1, <1>0, <1>2 DEF UploadsAt
    <2>4. Cardinality(UploadsAt(upload, Scans) \cup {u}) = Cardinality(UploadsAt(upload, Scans)) + 1
      BY <1>3, FS_AddElement
    <2>5. waiters = << >> /\ busy' <= MaxScans
      BY <1>0, <1>3, <1>4, <2>1 DEF ScanSlots
    <2>6. busy' = Cardinality(UploadsAt(upload', Scans))
      BY <1>0, <2>1, <2>2, <2>4 DEF ScanSlots
    <2>7. /\ waiters' \in Seq(Upload) /\ Len(waiters') <= MaxQueued
          /\ {waiters'[i] : i \in 1 .. Len(waiters')} = UploadsAt(upload', {"waits"})
          /\ \A i, j \in 1 .. Len(waiters') : waiters'[i] = waiters'[j] => i = j
      BY <1>0, <2>1, <2>3 DEF ScanSlots
    <2>8. waiters' = << >>
      BY <2>1, <2>5
    <2>9. QED
      BY <2>5, <2>6, <2>7, <2>8 DEF ScanSlots
  <1>5. CASE ~(busy < MaxScans) /\ Len(waiters) < MaxQueued
    <2>1. waiters' = Append(waiters, u) /\ busy' = busy /\ upload' = [upload EXCEPT ![u].pc = "waits"]
      BY <1>5 DEF Uploads!Acquire, Uploads!To
    <2>2. UploadsAt(upload', Scans) = UploadsAt(upload, Scans)
      BY <2>1, <1>0, <1>2 DEF UploadsAt, Scans
    <2>3. UploadsAt(upload', {"waits"}) = UploadsAt(upload, {"waits"}) \cup {u}
      BY <2>1, <1>2 DEF UploadsAt
    <2>4. busy' = MaxScans /\ busy' = Cardinality(UploadsAt(upload', Scans))
      BY <1>0, <1>3, <1>5, <2>1, <2>2 DEF ScanSlots
    <2>5. waiters \in Seq(Upload)
      BY <1>0 DEF ScanSlots
    <2>6. /\ waiters' \in Seq(Upload) /\ Len(waiters') = Len(waiters) + 1 /\ Len(waiters) \in Nat
          /\ waiters'[Len(waiters) + 1] = u
          /\ \A i \in 1 .. Len(waiters) : waiters'[i] = waiters[i]
      BY <2>1, <2>5
    <2>7. {waiters[i] : i \in 1 .. Len(waiters)} = UploadsAt(upload, {"waits"})
      BY <1>0 DEF ScanSlots
    <2>8. {waiters'[i] : i \in 1 .. Len(waiters')} = {waiters[i] : i \in 1 .. Len(waiters)} \cup {u}
      <3>1. \A i \in 1 .. Len(waiters') : i \in 1 .. Len(waiters) \/ i = Len(waiters) + 1
        BY <2>6
      <3>2. \A i \in 1 .. Len(waiters) : i \in 1 .. Len(waiters')
        BY <2>6
      <3>3. Len(waiters) + 1 \in 1 .. Len(waiters')
        BY <2>6
      <3>4. QED
        BY <3>1, <3>2, <3>3, <2>6
    <2>9. \A i, j \in 1 .. Len(waiters') : waiters'[i] = waiters'[j] => i = j
      <3>1. \A i \in 1 .. Len(waiters) : waiters[i] # u
        BY <2>7, <1>3
      <3>2. \A i \in 1 .. Len(waiters') : i \in 1 .. Len(waiters) \/ i = Len(waiters) + 1
        BY <2>6
      <3>3. \A i, j \in 1 .. Len(waiters) : waiters[i] = waiters[j] => i = j
        BY <1>0 DEF ScanSlots
      <3>4. QED
        BY <3>1, <3>2, <3>3, <2>6
    <2>10. Len(waiters') <= MaxQueued
      BY <1>3, <1>5, <2>6
    <2>11. QED
      BY <1>3, <2>3, <2>4, <2>6, <2>7, <2>8, <2>9, <2>10 DEF ScanSlots
  <1>6. CASE ~(busy < MaxScans) /\ ~(Len(waiters) < MaxQueued)
    <2>1. UNCHANGED <<busy, waiters>> /\ upload' = [upload EXCEPT ![u].pc = "drop"]
      BY <1>6 DEF Uploads!Acquire, Uploads!To
    <2>2. \A v \in Upload : \/ upload'[v].pc = upload[v].pc
                            \/ {upload[v].pc, upload'[v].pc} \cap (Scans \cup {"waits"}) = {}
      BY <2>1, <1>0, <1>2 DEF Scans
    <2>3. QED
      BY <2>1, <2>2, <1>0, SlotsStay
  <1>7. QED
    BY <1>4, <1>5, <1>6

\* A request that neither scans nor waits goes on to where it does neither, or passes the signatures.
LEMMA SlotsPassed ==
    ASSUME UploadsInv, UNCHANGED <<busy, waiters>>, NEW u \in Upload, NEW p,
           \/ upload' = [upload EXCEPT ![u].pc = p]
           \/ \E t : upload' = [upload EXCEPT ![u].pc = p, ![u].token = t],
           \/ upload[u].pc \in Scans /\ p \in Scans
           \/ {upload[u].pc, p} \cap (Scans \cup {"waits"}) = {}
    PROVE  ScanSlots'
  <1>1. ScanSlots /\ DOMAIN upload = Upload /\ DOMAIN upload[u] = UploadFields
    BY DEF UploadsInv, UploadRows, UploadFits
  <1>2. upload'[u].pc = p /\ \A v \in Upload : v # u => upload'[v] = upload[v]
    BY <1>1 DEF UploadFields
  <1>3. QED
    BY <1>1, <1>2, SlotsStay

LEMMA SlotsStep ==
    ASSUME UploadsInv, Uploads!Next
    PROVE  ScanSlots'
  <1>0. ScanSlots /\ UploadRows
    BY DEF UploadsInv
  <1>1. CASE Uploads!EndWindow \/ Uploads!CacheEnds \/ \E u \in Upload : Uploads!Leave(u)
    <2>1. UNCHANGED <<upload, busy, waiters>>
      BY <1>1 DEF Uploads!EndWindow, Uploads!CacheEnds, Uploads!Leave
    <2>2. QED
      BY <2>1, <1>0, SlotsStay
  <1>2. CASE Uploads!Crash
    <2>1. /\ upload' = [u \in Upload |-> IF upload[u].pc \in {"new", "stored", "refused"} THEN upload[u]
                                         ELSE [upload[u] EXCEPT !.pc = "lost"]]
          /\ busy' = 0 /\ waiters' = << >>
      BY <1>2 DEF Uploads!Crash
    <2>2. ASSUME NEW u \in Upload PROVE upload'[u].pc \in {"new", "stored", "refused", "lost"}
      <3>1. DOMAIN upload[u] = UploadFields
        BY <1>0 DEF UploadRows, UploadFits
      <3>2. QED
        BY <2>1, <3>1 DEF UploadFields
    <2>3. UploadsAt(upload', Scans) = {} /\ UploadsAt(upload', {"waits"}) = {}
      BY <2>2 DEF UploadsAt, Scans
    <2>4. /\ waiters' \in Seq(Upload) /\ Len(waiters') = 0 /\ 1 .. Len(waiters') = {}
          /\ MaxQueued \in Nat /\ MaxScans \in Nat
      BY <2>1, ServicesAssumption
    <2>5. Cardinality(UploadsAt(upload', Scans)) = 0
      BY <2>3, FS_EmptySet
    <2>6. waiters' = << >> /\ Len(waiters') <= MaxQueued /\ busy' = 0 /\ busy' <= MaxScans
      BY <2>1, <2>4
    <2>7. QED
      BY <2>3, <2>4, <2>5, <2>6 DEF ScanSlots
  <1>3. ASSUME NEW u \in Upload,
               \/ Uploads!Arrive(u) \/ Uploads!Reserve(u) \/ Uploads!CheckCapacity(u)
               \/ Uploads!Receive(u) \/ Uploads!Check(u) \/ Uploads!Store(u) \/ Uploads!Drop(u)
        PROVE  ScanSlots'
    <2>1. UNCHANGED <<busy, waiters>>
      BY <1>3 DEF Uploads!Arrive, Uploads!Reserve, Uploads!CheckCapacity, Uploads!Receive,
           Uploads!Check, Uploads!Store, Uploads!Drop
    <2>2. upload[u].pc \in {"new", "request", "bytes", "capacity", "receive", "check", "store", "drop"}
      BY <1>3 DEF Uploads!Arrive, Uploads!Reserve, Uploads!CheckCapacity, Uploads!Receive,
           Uploads!Check, Uploads!Store, Uploads!Drop, Uploads!At
    <2>3. PICK p \in {"refused", "challenge", "request", "receive", "bytes", "capacity", "check",
                      "drop", "scan", "stored"} : upload' = [upload EXCEPT ![u].pc = p]
      BY <1>3 DEF Uploads!Arrive, Uploads!Reserve, Uploads!CheckCapacity, Uploads!Receive,
           Uploads!Check, Uploads!Store, Uploads!Drop, Uploads!To, Uploads!Consume
    <2>4. {upload[u].pc, p} \cap (Scans \cup {"waits"}) = {}
      BY <2>2 DEF Scans
    <2>5. QED
      BY <2>1, <2>3, <2>4, SlotsPassed
  <1>4. ASSUME NEW u \in Upload, Uploads!Verify(u) PROVE ScanSlots'
    <2>1. upload[u].pc = "challenge" /\ UNCHANGED <<busy, waiters>>
      BY <1>4 DEF Uploads!Verify, Uploads!At
    <2>2. \/ upload' = [upload EXCEPT ![u].pc = "refused"]
          \/ \E t : upload' = [upload EXCEPT ![u].pc = "request", ![u].token = t]
      BY <1>4 DEF Uploads!Verify, Uploads!To
    <2>3. QED
      BY <2>1, <2>2, SlotsPassed DEF Scans
  <1>5. ASSUME NEW u \in Upload, Uploads!CheckSignatures(u) PROVE ScanSlots'
    <2>1. upload[u].pc = "signatures"
      BY <1>5 DEF Uploads!CheckSignatures, Uploads!At
    <2>2. CASE upload' = [upload EXCEPT ![u].pc = "stream"] /\ UNCHANGED <<busy, waiters>>
      BY <2>1, <2>2, SlotsPassed DEF Scans
    <2>3. CASE Uploads!Release(u, "drop", upload[u].scanned)
      BY <2>1, <2>3, SlotReleased DEF Scans
    <2>4. QED
      BY <1>5, <2>2, <2>3 DEF Uploads!CheckSignatures, Uploads!To
  <1>6. ASSUME NEW u \in Upload, Uploads!Scan(u) PROVE ScanSlots'
    <2>1. upload[u].pc = "stream"
      BY <1>6 DEF Uploads!Scan, Uploads!At
    <2>2. PICK p \in {"drop", "store", "scan"}, n \in {upload[u].scanned, upload[u].scanned + 1} :
             Uploads!Release(u, p, n)
      BY <1>6 DEF Uploads!Scan
    <2>3. QED
      BY <2>1, <2>2, SlotReleased DEF Scans
  <1>7. QED
    BY <1>1, <1>2, <1>3, <1>4, <1>5, <1>6, SlotAcquired DEF Uploads!Next

LEMMA UploadsPromise == UploadsInv => Uploads!UploadsAreHeld
  <1> SUFFICES ASSUME UploadsInv PROVE Uploads!UploadsAreHeld
    OBVIOUS
  <1>1. Uploads!SlotsInv
    <2>1. Uploads!Scanning = UploadsAt(upload, Scans)
      BY DEF Uploads!Scanning, UploadsAt, Scans
    <2>2. {u \in Upload : upload[u].pc = "waits"} = UploadsAt(upload, {"waits"})
      BY DEF UploadsAt
    <2>3. waiters \in Seq(Upload) => DOMAIN waiters = 1 .. Len(waiters)
      OBVIOUS
    <2>4. QED
      BY <2>1, <2>2, <2>3, SameCountOfUploads DEF UploadsInv, ScanSlots, Uploads!SlotsInv
  <1>2. Uploads!QuotaInv
    BY DEF UploadsInv, UploadRows, QuotasKept, Uploads!QuotaInv, Uploads!Channel
  <1>3. Uploads!QuarantineInv
    BY SameCountOfUploads DEF UploadsInv, UploadRows, UploadFits, OrphansFew, Handled, Uploads!QuarantineInv
  <1>4. QED
    BY <1>1, <1>2, <1>3 DEF Uploads!UploadsAreHeld

--------------------------------------------------------------------------------
(* CaptureGate.  What was captured still lies in a queue that is retired,  *)
(* and it is the only delivery of it: a queue is retired while it is       *)
(* empty, and from then on only a capture may use it, once.                *)

DeliveryState == {"ABSENT", "ACCEPTED", "PROCESSING", "PROCESSED", "QUARANTINED", "CAPTURED"}

QueueRow == [there : BOOLEAN, on : BOOLEAN, retired : BOOLEAN, gen : Nat]
DeliveryRow == [state : DeliveryState, queue : Queue \cup {None}, promoted : BOOLEAN, whole : BOOLEAN,
                by : Pod \cup {None}]
CaptureStage == [queue : Queue \cup {None}, of : Pod \cup {None}, capture : BOOLEAN]
CaptureWork == {Capture!Idle} \cup [at : {"arming"}, queue : Queue, gen : Nat]
               \cup [at : {"fetched"}, queue : Queue, gen : Nat, whole : BOOLEAN, staged : BOOLEAN]
               \cup [at : {"due", "ran"}, delivery : Delivery]

CaptureTypes ==
    /\ queue \in [Queue -> QueueRow] /\ row \in [Delivery -> DeliveryRow]
    /\ stages \subseteq CaptureStage /\ mode \in [Pod -> Capture!Modes] /\ work \in [Pod -> CaptureWork]
    /\ ran \in [Delivery -> SUBSET Capture!Modes] /\ origin \in [Delivery -> Queue \cup {None}]

\* A delivery that was captured, and one that was not.
Inert(d) ==
    /\ queue[origin[d]].retired /\ row[d].queue = origin[d]
    /\ ~row[d].promoted => ran[d] = {} /\ row[d].state = (IF row[d].whole THEN "CAPTURED" ELSE "QUARANTINED")
    /\ row[d].promoted => row[d].whole
    /\ ran[d] \subseteq {[is |-> "canary", queue |-> origin[d], delivery |-> d]}

Ordinary(d) == ~row[d].promoted /\ ran[d] \subseteq {[is |-> "normal"]} /\ row[d].state # "CAPTURED"

DeliveryFits(d) ==
    /\ row[d].state = "ABSENT" => row[d].queue = None /\ origin[d] = None /\ ran[d] = {}
    /\ row[d].by # None => row[d].state = "PROCESSING"
    /\ IF origin[d] = None THEN Ordinary(d) ELSE Inert(d)

QueueFits(q) ==
    queue[q].retired =>
        /\ queue[q].there
        /\ \A s \in stages : s.queue = q => s.capture
        /\ \A d, e \in Delivery : row[d].queue = q /\ row[e].queue = q =>
               d = e /\ origin[d] = q /\ ~queue[q].on

CaptureInv ==
    /\ CaptureTypes
    /\ \A d \in Delivery : DeliveryFits(d)
    /\ \A q \in Queue : QueueFits(q)

LEMMA CaptureInit == Capture!Init => CaptureInv
  <1> SUFFICES ASSUME Capture!Init PROVE CaptureInv
    OBVIOUS
  <1>1. /\ \E qs \in SUBSET Queue :
              queue = [q \in Queue |-> [there |-> q \in qs, on |-> TRUE, retired |-> FALSE, gen |-> 0]]
        /\ row = [d \in Delivery |-> Capture!NoRow] /\ stages = {}
        /\ mode \in [Pod -> {[is |-> "closed"], [is |-> "normal"]}]
        /\ work = [p \in Pod |-> Capture!Idle] /\ ran = [d \in Delivery |-> {}]
        /\ origin = [d \in Delivery |-> None]
    BY DEF Capture!Init
  <1>2. queue \in [Queue -> QueueRow] /\ \A q \in Queue : ~queue[q].retired
    BY <1>1 DEF QueueRow
  <1>3. CaptureTypes
    BY <1>1, <1>2 DEF CaptureTypes, DeliveryRow, DeliveryState, Capture!NoRow, Capture!Modes, CaptureWork
  <1>4. \A d \in Delivery : DeliveryFits(d)
    BY <1>1 DEF DeliveryFits, Ordinary, Capture!NoRow
  <1>5. QED
    BY <1>2, <1>3, <1>4 DEF CaptureInv, QueueFits

\* A process reads or writes what is only its own, or bytes that are only reserved.
LEMMA CaptureReads ==
    ASSUME CaptureInv, UNCHANGED <<queue, row, ran, origin>>,
           mode' \in [Pod -> Capture!Modes], work' \in [Pod -> CaptureWork], stages' \subseteq CaptureStage,
           \A s \in stages' : (\E t \in stages : s.queue = t.queue /\ s.capture = t.capture)
                              \/ s.queue = None \/ s.capture \/ ~queue[s.queue].retired
    PROVE  CaptureInv'
  <1>1. CaptureTypes'
    BY DEF CaptureInv, CaptureTypes
  <1>2. ASSUME NEW d \in Delivery PROVE DeliveryFits(d)'
    BY DEF CaptureInv, DeliveryFits, Ordinary, Inert
  <1>3. ASSUME NEW q \in Queue PROVE QueueFits(q)'
    BY ServicesAssumption DEF CaptureInv, QueueFits
  <1>4. QED
    BY <1>1, <1>2, <1>3 DEF CaptureInv

\* One delivery goes on, in its queue.
LEMMA CaptureGoesOn ==
    ASSUME CaptureInv, UNCHANGED <<queue, stages, mode, origin>>, work' \in [Pod -> CaptureWork],
           NEW d \in Delivery, NEW r \in DeliveryRow, NEW R \in SUBSET Capture!Modes,
           row' = [row EXCEPT ![d] = r],
           ran' = [ran EXCEPT ![d] = R], r.queue = row[d].queue,
           DeliveryFits(d)'
    PROVE  CaptureInv'
  <1>1. CaptureTypes'
    BY DEF CaptureInv, CaptureTypes
  <1>2. row'[d] = r /\ \A e \in Delivery : e # d => row'[e] = row[e] /\ ran'[e] = ran[e]
    BY DEF CaptureInv, CaptureTypes
  <1>3. ASSUME NEW e \in Delivery PROVE DeliveryFits(e)'
    <2>1. CASE e = d
      BY <2>1
    <2>2. CASE e # d
      BY <1>2, <2>2 DEF CaptureInv, DeliveryFits, Ordinary, Inert
    <2>3. QED
      BY <2>1, <2>2
  <1>4. ASSUME NEW q \in Queue PROVE QueueFits(q)'
    <2>1. \A e \in Delivery : row'[e].queue = row[e].queue
      BY <1>2
    <2>2. QED
      BY <2>1 DEF CaptureInv, QueueFits
  <1>5. QED
    BY <1>1, <1>3, <1>4 DEF CaptureInv

\* What a process does with the row it works on: it claims, settles, replays or promotes.
LEMMA CaptureRuns ==
    ASSUME CaptureInv, NEW p \in Pod, Capture!Claim(p)
    PROVE  CaptureInv'
  <1>0. PICK d : d = work[p].delivery
    OBVIOUS
  <1>1. work[p].at = "due" /\ UNCHANGED <<queue, stages, mode, origin>>
    BY DEF Capture!Claim
  <1>2. /\ d \in Delivery /\ work \in [Pod -> CaptureWork] /\ row[d] \in DeliveryRow
        /\ mode[p] \in Capture!Modes /\ DeliveryFits(d) /\ ran \in [Delivery -> SUBSET Capture!Modes]
        /\ row \in [Delivery -> DeliveryRow]
    BY <1>0, <1>1 DEF CaptureInv, CaptureTypes, CaptureWork, Capture!Idle
  <1>3. CASE ~(Capture!Matches(p, d) /\ Capture!Due(d))
    <2>1. work' = [work EXCEPT ![p] = Capture!Idle] /\ UNCHANGED <<row, ran>>
      BY <1>0, <1>3 DEF Capture!Claim, Capture!Does
    <2>2. work' \in [Pod -> CaptureWork]
      BY <2>1, <1>2 DEF CaptureWork
    <2>3. QED
      BY <1>1, <2>1, <2>2, CaptureReads DEF CaptureInv, CaptureTypes
  <1>4. CASE Capture!Matches(p, d) /\ Capture!Due(d)
    <2> DEFINE r == [row[d] EXCEPT !.state = "PROCESSING", !.by = p]
               R == ran[d] \cup {mode[p]}
    <2>1. /\ row' = [row EXCEPT ![d] = r] /\ ran' = [ran EXCEPT ![d] = R]
          /\ work' = [work EXCEPT ![p] = [work[p] EXCEPT !.at = "ran"]]
      BY <1>0, <1>2, <1>4 DEF Capture!Claim, Capture!Does
    <2>2. work' \in [Pod -> CaptureWork]
      <3>1. [work[p] EXCEPT !.at = "ran"] \in CaptureWork
        BY <1>1, <1>2 DEF CaptureWork, Capture!Idle
      <3>2. QED
        BY <2>1, <3>1, <1>2
    <2>3. /\ r \in DeliveryRow /\ r.state = "PROCESSING" /\ r.queue = row[d].queue
          /\ r.promoted = row[d].promoted /\ r.whole = row[d].whole
      BY <1>2 DEF DeliveryRow, DeliveryState
    <2>4. row'[d] = r /\ ran'[d] = R /\ origin'[d] = origin[d]
      BY <1>1, <1>2, <2>1
    <2>5. row[d].state \in {"ACCEPTED", "PROCESSING"}
      BY <1>4 DEF Capture!Due
    <2>6. DeliveryFits(d)'
      <3>1. CASE origin[d] = None
        <4>1. ~row[d].promoted /\ ran[d] \subseteq {[is |-> "normal"]}
          BY <1>2, <3>1 DEF DeliveryFits, Ordinary
        <4>2. mode[p] = [is |-> "normal"]
          BY <1>2, <1>4, <4>1 DEF Capture!Matches, Capture!Modes
        <4>3. Ordinary(d)'
          BY <2>3, <2>4, <4>1, <4>2 DEF Ordinary
        <4>4. QED
          BY <2>3, <2>4, <3>1, <4>3 DEF DeliveryFits
      <3>2. CASE origin[d] # None
        <4>1. Inert(d)
          BY <1>2, <3>2 DEF DeliveryFits
        <4>2. origin[d] \in Queue /\ row[d].queue = origin[d] /\ queue[origin[d]].retired
          BY <3>2, <4>1, <1>2 DEF Inert, CaptureInv, CaptureTypes
        <4>3. /\ mode[p].is = "canary" /\ mode[p].delivery = d /\ mode[p].queue = row[d].queue
              /\ row[d].promoted
          BY <1>4, <4>2, <3>2 DEF Capture!Matches, Capture!Retired
        <4>4. mode[p] = [is |-> "canary", queue |-> origin[d], delivery |-> d]
          BY <1>2, <4>2, <4>3 DEF Capture!Modes
        <4>5. Inert(d)'
          BY <1>1, <2>3, <2>4, <4>1, <4>3, <4>4 DEF Inert
        <4>6. QED
          BY <2>3, <2>4, <3>2, <4>5 DEF DeliveryFits
      <3>3. QED
        BY <3>1, <3>2
    <2>7. R \in SUBSET Capture!Modes
      BY <1>2
    <2> HIDE DEF r, R
    <2>8. QED
      BY <1>1, <1>2, <2>1, <2>2, <2>3, <2>6, <2>7, CaptureGoesOn
  <1>5. QED
    BY <1>3, <1>4

LEMMA CaptureSettles ==
    ASSUME CaptureInv, NEW p \in Pod, Capture!Settle(p)
    PROVE  CaptureInv'
  <1>0. PICK d : d = work[p].delivery
    OBVIOUS
  <1>1. work[p].at = "ran" /\ UNCHANGED <<queue, stages, mode, ran, origin>>
    BY DEF Capture!Settle
  <1>2. /\ d \in Delivery /\ work \in [Pod -> CaptureWork] /\ row[d] \in DeliveryRow
        /\ DeliveryFits(d) /\ ran \in [Delivery -> SUBSET Capture!Modes] /\ row \in [Delivery -> DeliveryRow]
    BY <1>0, <1>1 DEF CaptureInv, CaptureTypes, CaptureWork, Capture!Idle
  <1>3. work' = [work EXCEPT ![p] = Capture!Idle]
    BY DEF Capture!Settle, Capture!Does
  <1>4. work' \in [Pod -> CaptureWork]
    BY <1>2, <1>3 DEF CaptureWork
  <1>5. PICK end \in {"PROCESSED", "ACCEPTED", "QUARANTINED"} :
          row' = IF row[d].by = p THEN [row EXCEPT ![d].state = end, ![d].by = None] ELSE row
    BY <1>0 DEF Capture!Settle
  <1>6. CASE row[d].by # p
    BY <1>1, <1>4, <1>5, <1>6, CaptureReads DEF CaptureInv, CaptureTypes
  <1>7. CASE row[d].by = p
    <2> DEFINE r == [row[d] EXCEPT !.state = end, !.by = None]
    <2>1. row' = [row EXCEPT ![d] = r] /\ ran' = [ran EXCEPT ![d] = ran[d]]
      BY <1>1, <1>2, <1>5, <1>7
    <2>2. /\ r \in DeliveryRow /\ r.state = end /\ r.queue = row[d].queue /\ r.by = None
          /\ r.promoted = row[d].promoted /\ r.whole = row[d].whole
      BY <1>2 DEF DeliveryRow, DeliveryState
    <2>3. row'[d] = r
      BY <1>2, <2>1
    <2>4. row[d].state = "PROCESSING"
      BY <1>2, <1>7, ServicesAssumption DEF DeliveryFits
    <2>5. DeliveryFits(d)'
      <3>1. CASE origin[d] = None
        BY <1>1, <1>2, <2>2, <2>3, <3>1 DEF DeliveryFits, Ordinary
      <3>2. CASE origin[d] # None
        <4>1. Inert(d) /\ row[d].promoted
          BY <1>2, <2>4, <3>2 DEF DeliveryFits, Inert
        <4>2. Inert(d)'
          BY <1>1, <2>2, <2>3, <4>1 DEF Inert
        <4>3. QED
          BY <1>1, <2>2, <2>3, <3>2, <4>2 DEF DeliveryFits
      <3>3. QED
        BY <3>1, <3>2
    <2> HIDE DEF r
    <2>6. QED
      BY <1>1, <1>2, <1>4, <2>1, <2>2, <2>5, CaptureGoesOn
  <1>8. QED
    BY <1>6, <1>7

LEMMA CaptureReplays ==
    ASSUME CaptureInv, NEW p \in Pod, NEW d \in Delivery,
           Capture!Replay(p, d) \/ Capture!Promote(p, d) \/ Capture!LeaseEnds(d)
    PROVE  CaptureInv'
  <1>1. /\ row \in [Delivery -> DeliveryRow] /\ row[d] \in DeliveryRow /\ DeliveryFits(d)
        /\ ran \in [Delivery -> SUBSET Capture!Modes]
        /\ work \in [Pod -> CaptureWork] /\ origin \in [Delivery -> Queue \cup {None}]
    BY DEF CaptureInv, CaptureTypes
  <1>2. UNCHANGED <<queue, stages, mode, work, ran, origin>>
    BY DEF Capture!Replay, Capture!Promote, Capture!LeaseEnds
  <1>3. CASE Capture!Replay(p, d)
    <2> DEFINE r == [row[d] EXCEPT !.state = "ACCEPTED"]
    <2>1. /\ row' = [row EXCEPT ![d] = r] /\ ran' = [ran EXCEPT ![d] = ran[d]]
          /\ row[d].state = "QUARANTINED" /\ row[d].whole /\ ~Capture!Retired(row[d].queue)
      BY <1>1, <1>2, <1>3 DEF Capture!Replay
    <2>2. /\ r \in DeliveryRow /\ r.state = "ACCEPTED" /\ r.queue = row[d].queue /\ r.by = row[d].by
          /\ r.promoted = row[d].promoted /\ r.whole = row[d].whole
      BY <1>1 DEF DeliveryRow, DeliveryState
    <2>3. row'[d] = r
      BY <1>1, <2>1
    <2>4. row[d].by = None
      BY <1>1, <2>1 DEF DeliveryFits
    <2>5. origin[d] = None
      BY <1>1, <2>1 DEF DeliveryFits, Inert, Capture!Retired
    <2>6. DeliveryFits(d)'
      BY <1>1, <1>2, <2>2, <2>3, <2>4, <2>5 DEF DeliveryFits, Ordinary
    <2> HIDE DEF r
    <2>7. QED
      BY <1>1, <1>2, <2>1, <2>2, <2>6, CaptureGoesOn
  <1>4. CASE Capture!Promote(p, d)
    <2> DEFINE r == [row[d] EXCEPT !.state = "ACCEPTED", !.promoted = TRUE]
    <2>1. /\ row' = [row EXCEPT ![d] = r] /\ ran' = [ran EXCEPT ![d] = ran[d]]
          /\ row[d].state = "CAPTURED" /\ row[d].whole
      BY <1>1, <1>2, <1>4 DEF Capture!Promote
    <2>2. /\ r \in DeliveryRow /\ r.state = "ACCEPTED" /\ r.queue = row[d].queue /\ r.by = row[d].by
          /\ r.promoted = TRUE /\ r.whole = row[d].whole
      BY <1>1 DEF DeliveryRow, DeliveryState
    <2>3. row'[d] = r
      BY <1>1, <2>1
    <2>4. row[d].by = None
      BY <1>1, <2>1 DEF DeliveryFits
    <2>5. origin[d] # None /\ Inert(d)
      BY <1>1, <2>1 DEF DeliveryFits, Ordinary
    <2>6. DeliveryFits(d)'
      BY <1>1, <1>2, <2>1, <2>2, <2>3, <2>4, <2>5 DEF DeliveryFits, Inert
    <2> HIDE DEF r
    <2>7. QED
      BY <1>1, <1>2, <2>1, <2>2, <2>6, CaptureGoesOn
  <1>5. CASE Capture!LeaseEnds(d)
    <2> DEFINE r == [row[d] EXCEPT !.by = None]
    <2>1. row' = [row EXCEPT ![d] = r] /\ ran' = [ran EXCEPT ![d] = ran[d]]
      BY <1>1, <1>2, <1>5 DEF Capture!LeaseEnds
    <2>2. /\ r \in DeliveryRow /\ r.state = row[d].state /\ r.queue = row[d].queue /\ r.by = None
          /\ r.promoted = row[d].promoted /\ r.whole = row[d].whole
      BY <1>1 DEF DeliveryRow
    <2>3. row'[d] = r
      BY <1>1, <2>1
    <2>4. DeliveryFits(d)'
      BY <1>1, <1>2, <2>2, <2>3 DEF DeliveryFits, Inert, Ordinary
    <2> HIDE DEF r
    <2>5. QED
      BY <1>1, <1>2, <2>1, <2>2, <2>4, CaptureGoesOn
  <1>6. QED
    BY <1>3, <1>4, <1>5

\* Steps that only read, reserve or give up, and a process that starts anew.
LEMMA CaptureReadsStep ==
    ASSUME CaptureInv, NEW p \in Pod,
           \/ Capture!ArmReads(p) \/ Capture!Fetch(p) \/ Capture!Reserve(p) \/ Capture!GivesUp(p)
           \/ Capture!Reap(p) \/ Capture!Select(p) \/ Capture!Restart(p)
    PROVE  CaptureInv'
  <1>1. UNCHANGED <<queue, row, ran, origin>>
    BY DEF Capture!ArmReads, Capture!Fetch, Capture!Reserve, Capture!GivesUp, Capture!Reap,
       Capture!Select, Capture!Restart
  <1>t. /\ queue \in [Queue -> QueueRow] /\ stages \subseteq CaptureStage
        /\ mode \in [Pod -> Capture!Modes] /\ work \in [Pod -> CaptureWork]
    BY DEF CaptureInv, CaptureTypes
  <1>w. ASSUME NEW w \in CaptureWork, Capture!Does(p, w) PROVE work' \in [Pod -> CaptureWork]
    BY <1>t, <1>w DEF Capture!Does
  <1>i. Capture!Idle \in CaptureWork
    BY DEF CaptureWork
  <1>2. ASSUME stages' \subseteq stages, mode' = mode, work' \in [Pod -> CaptureWork] PROVE CaptureInv'
    BY <1>1, <1>2, <1>t, CaptureReads
  <1>3. CASE Capture!ArmReads(p)
    <2>1. PICK q \in Queue : Capture!Does(p, [at |-> "arming", queue |-> q, gen |-> queue[q].gen])
      BY <1>3 DEF Capture!ArmReads
    <2>2. queue[q].gen \in Nat
      BY <1>t DEF QueueRow
    <2>3. [at |-> "arming", queue |-> q, gen |-> queue[q].gen] \in CaptureWork
      BY <2>2 DEF CaptureWork
    <2>4. UNCHANGED <<stages, mode>>
      BY <1>3 DEF Capture!ArmReads
    <2>5. QED
      BY <2>1, <2>3, <2>4, <1>w, <1>2
  <1>4. CASE Capture!Fetch(p)
    <2>1. PICK q \in Queue, whole \in BOOLEAN :
            Capture!Does(p,
                [at |-> "fetched", queue |-> q, gen |-> queue[q].gen, whole |-> whole, staged |-> FALSE])
      BY <1>4 DEF Capture!Fetch
    <2>2. queue[q].gen \in Nat
      BY <1>t DEF QueueRow
    <2>3. [at |-> "fetched", queue |-> q, gen |-> queue[q].gen, whole |-> whole, staged |-> FALSE]
              \in CaptureWork
      BY <2>2 DEF CaptureWork
    <2>4. UNCHANGED <<stages, mode>>
      BY <1>4 DEF Capture!Fetch
    <2>5. QED
      BY <2>1, <2>3, <2>4, <1>w, <1>2
  <1>5. CASE Capture!Reserve(p)
    <2>1. work[p].at = "fetched" /\ mode' = mode
      BY <1>5 DEF Capture!Reserve
    <2>2. work[p].queue \in Queue /\ [work[p] EXCEPT !.staged = TRUE] \in CaptureWork
      <3>1. work[p] \in [at : {"fetched"}, queue : Queue, gen : Nat, whole : BOOLEAN, staged : BOOLEAN]
        BY <2>1, <1>t DEF CaptureWork, Capture!Idle
      <3>2. [work[p] EXCEPT !.staged = TRUE]
              \in [at : {"fetched"}, queue : Queue, gen : Nat, whole : BOOLEAN, staged : BOOLEAN]
        BY <3>1
      <3>3. QED
        BY <3>1, <3>2 DEF CaptureWork
    <2>3. CASE stages' = stages /\ Capture!Does(p, Capture!Idle)
      BY <2>1, <2>3, <1>i, <1>w, <1>2
    <2>4. CASE /\ queue[work[p].queue].retired = Capture!Captures(p)
               /\ stages' = stages \cup {Capture!Stage(p)}
               /\ Capture!Does(p, [work[p] EXCEPT !.staged = TRUE])
      <3> DEFINE s == Capture!Stage(p)
      <3>1. /\ s.queue = work[p].queue /\ s.capture = queue[work[p].queue].retired
            /\ s = [queue |-> work[p].queue, of |-> p, capture |-> queue[work[p].queue].retired]
        BY <2>4 DEF Capture!Stage
      <3>2. queue[work[p].queue].retired \in BOOLEAN
        BY <2>2, <1>t DEF QueueRow
      <3>3. s \in CaptureStage
        BY <3>1, <3>2, <2>2 DEF CaptureStage
      <3>4. s.capture \/ ~queue[s.queue].retired
        BY <3>1
      <3>5. work' \in [Pod -> CaptureWork]
        BY <2>2, <2>4, <1>w
      <3>6. stages' = stages \cup {s}
        BY <2>4
      <3> HIDE DEF s
      <3>7. QED
        BY <1>1, <2>1, <3>3, <3>4, <3>5, <3>6, <1>t, CaptureReads
    <2>5. QED
      BY <1>5, <2>3, <2>4 DEF Capture!Reserve
  <1>6. CASE Capture!GivesUp(p)
    <2>1. stages' \subseteq stages /\ mode' = mode /\ Capture!Does(p, Capture!Idle)
      BY <1>6 DEF Capture!GivesUp, Capture!Gone
    <2>2. QED
      BY <2>1, <1>i, <1>w, <1>2
  <1>7. CASE Capture!Reap(p)
    <2>1. stages' \subseteq stages /\ UNCHANGED <<mode, work>>
      BY <1>7 DEF Capture!Reap, Capture!Gone
    <2>2. QED
      BY <2>1, <1>t, <1>2
  <1>8. CASE Capture!Select(p)
    <2>1. PICK d \in Delivery : Capture!Does(p, [at |-> "due", delivery |-> d])
      BY <1>8 DEF Capture!Select
    <2>2. [at |-> "due", delivery |-> d] \in CaptureWork
      BY DEF CaptureWork
    <2>3. UNCHANGED <<stages, mode>>
      BY <1>8 DEF Capture!Select
    <2>4. QED
      BY <2>1, <2>2, <2>3, <1>w, <1>2
  <1>9. CASE Capture!Restart(p)
    <2>1. PICK m \in Capture!Modes : mode' = [mode EXCEPT ![p] = m]
      BY <1>9 DEF Capture!Restart
    <2>2. /\ Capture!Does(p, Capture!Idle)
          /\ stages' = {[s EXCEPT !.of = IF @ = p THEN None ELSE @] : s \in stages}
      BY <1>9 DEF Capture!Restart
    <2>3. mode' \in [Pod -> Capture!Modes] /\ work' \in [Pod -> CaptureWork]
      BY <2>1, <2>2, <1>t, <1>i, <1>w
    <2>4. ASSUME NEW s \in stages'
          PROVE  s \in CaptureStage /\ \E t \in stages : s.queue = t.queue /\ s.capture = t.capture
      <3>1. PICK t \in stages : s = [t EXCEPT !.of = IF @ = p THEN None ELSE @]
        BY <2>2
      <3>2. t \in CaptureStage
        BY <1>t
      <3>3. QED
        BY <3>1, <3>2 DEF CaptureStage
    <2>5. QED
      BY <1>1, <2>3, <2>4, CaptureReads
  <1>10. QED
    BY <1>3, <1>4, <1>5, <1>6, <1>7, <1>8, <1>9

LEMMA CaptureArms ==
    ASSUME CaptureInv, NEW p \in Pod, Capture!Arm(p)
    PROVE  CaptureInv'
  <1>0. PICK q : q = work[p].queue
    OBVIOUS
  <1>t. /\ queue \in [Queue -> QueueRow] /\ work \in [Pod -> CaptureWork] /\ q \in Queue
        /\ origin \in [Delivery -> Queue \cup {None}]
    BY <1>0 DEF CaptureInv, CaptureTypes, CaptureWork, Capture!Idle, Capture!Arm
  <1>1. UNCHANGED <<row, stages, mode, ran, origin>> /\ work' = [work EXCEPT ![p] = Capture!Idle]
    BY DEF Capture!Arm, Capture!Does
  <1>2. work' \in [Pod -> CaptureWork]
    BY <1>1, <1>t DEF CaptureWork
  <1>3. CASE queue' = queue
    BY <1>1, <1>2, <1>3, CaptureReads DEF CaptureInv, CaptureTypes
  <1>4. CASE Capture!On(q) /\ Capture!Fresh(q) /\ queue' = [queue EXCEPT ![q].retired = TRUE]
    <2>1. /\ queue' \in [Queue -> QueueRow] /\ queue'[q].retired /\ queue'[q].there
          /\ \A x \in Queue : x # q => queue'[x] = queue[x]
      BY <1>t, <1>4 DEF QueueRow, Capture!On
    <2>2. /\ \A d \in Delivery : row[d].queue # q
          /\ \A s \in stages : s.queue # q
      BY <1>4 DEF Capture!Fresh
    <2>3. CaptureTypes'
      BY <1>1, <1>2, <2>1 DEF CaptureInv, CaptureTypes
    <2>4. ASSUME NEW x \in Queue PROVE QueueFits(x)'
      <3>1. CASE x = q
        BY <1>1, <2>1, <2>2, <3>1 DEF QueueFits
      <3>2. CASE x # q
        BY <1>1, <2>1, <3>2 DEF QueueFits, CaptureInv
      <3>3. QED
        BY <3>1, <3>2
    <2>5. ASSUME NEW d \in Delivery PROVE DeliveryFits(d)'
      <3>1. origin[d] # None /\ queue[origin[d]].retired => queue'[origin[d]].retired
        BY <1>t, <2>1
      <3>2. QED
        BY <1>1, <3>1 DEF CaptureInv, DeliveryFits, Ordinary, Inert
    <2>6. QED
      BY <2>3, <2>4, <2>5 DEF CaptureInv
  <1>5. QED
    BY <1>0, <1>3, <1>4 DEF Capture!Arm

\* An operator switches a queue or deletes it.
LEMMA CaptureEdits ==
    ASSUME CaptureInv, NEW q \in Queue, Capture!Update(q) \/ Capture!Delete(q)
    PROVE  CaptureInv'
  <1>t. CaptureTypes /\ \A x \in Queue : QueueFits(x)
    BY DEF CaptureInv
  <1>1. CASE Capture!Update(q)
    <2>1. PICK on \in BOOLEAN :
            /\ queue[q].retired => ~on
            /\ queue' = [queue EXCEPT ![q].on = on, ![q].gen = @ + 1]
      BY <1>1 DEF Capture!Update
    <2>2. UNCHANGED <<row, stages, mode, work, ran, origin>>
      BY <1>1 DEF Capture!Update
    <2>3. /\ queue' \in [Queue -> QueueRow] /\ queue'[q].on = on
          /\ queue'[q].retired = queue[q].retired /\ queue'[q].there = queue[q].there
          /\ \A x \in Queue : x # q => queue'[x] = queue[x]
      BY <1>t, <2>1 DEF CaptureTypes, QueueRow
    <2>4. CaptureTypes'
      BY <1>t, <2>2, <2>3 DEF CaptureTypes
    <2>5. ASSUME NEW x \in Queue PROVE QueueFits(x)'
      BY <1>t, <2>1, <2>2, <2>3 DEF QueueFits
    <2>6. ASSUME NEW d \in Delivery PROVE DeliveryFits(d)'
      <3>1. origin[d] # None => queue'[origin[d]].retired = queue[origin[d]].retired
        BY <1>t, <2>3 DEF CaptureTypes
      <3>2. QED
        BY <2>2, <3>1 DEF CaptureInv, DeliveryFits, Ordinary, Inert
    <2>7. QED
      BY <2>4, <2>5, <2>6 DEF CaptureInv
  <1>2. CASE Capture!Delete(q)
    <2>1. /\ ~queue[q].retired /\ queue' = [queue EXCEPT ![q].there = FALSE]
          /\ row' = [d \in Delivery |-> IF row[d].queue = q THEN [row[d] EXCEPT !.queue = None] ELSE row[d]]
          /\ stages' = {[s EXCEPT !.queue = IF @ = q THEN None ELSE @] : s \in stages}
          /\ UNCHANGED <<mode, work, ran, origin>>
      BY <1>2 DEF Capture!Delete
    <2>2. /\ queue' \in [Queue -> QueueRow] /\ queue'[q].retired = queue[q].retired
          /\ \A x \in Queue : x # q => queue'[x] = queue[x]
      BY <1>t, <2>1 DEF CaptureTypes, QueueRow
    <2>3. ASSUME NEW d \in Delivery
          PROVE  /\ row'[d] \in DeliveryRow /\ row'[d].state = row[d].state
                 /\ row'[d].promoted = row[d].promoted /\ row'[d].whole = row[d].whole
                 /\ row'[d].by = row[d].by
                 /\ row'[d].queue = IF row[d].queue = q THEN None ELSE row[d].queue
      BY <1>t, <2>1 DEF CaptureTypes, DeliveryRow
    <2>4. ASSUME NEW s \in stages'
          PROVE  /\ s \in CaptureStage
                 /\ \E t \in stages : s.capture = t.capture /\ s.queue = IF t.queue = q THEN None ELSE t.queue
      <3>1. PICK t \in stages : s = [t EXCEPT !.queue = IF @ = q THEN None ELSE @]
        BY <2>1
      <3>2. t \in CaptureStage
        BY <1>t DEF CaptureTypes
      <3>3. QED
        BY <3>1, <3>2 DEF CaptureStage
    <2>5. CaptureTypes'
      BY <1>t, <2>1, <2>2, <2>3, <2>4 DEF CaptureTypes
    <2>6. ASSUME NEW x \in Queue PROVE QueueFits(x)'
      <3>1. CASE x = q
        BY <2>1, <2>2, <3>1 DEF QueueFits
      <3>2. CASE x # q
        <4>1. \A d \in Delivery : row'[d].queue = x => row[d].queue = x
          BY <2>3, ServicesAssumption
        <4>2. ASSUME NEW s \in stages', s.queue = x
              PROVE  \E t \in stages : t.queue = x /\ t.capture = s.capture
          BY <2>4, <4>2, ServicesAssumption
        <4>3. queue'[x] = queue[x] /\ QueueFits(x)
          BY <1>t, <2>2, <3>2
        <4>4. QED
          BY <2>1, <4>1, <4>2, <4>3 DEF QueueFits
      <3>3. QED
        BY <3>1, <3>2
    <2>7. ASSUME NEW d \in Delivery PROVE DeliveryFits(d)'
      <3>1. DeliveryFits(d) /\ origin'[d] = origin[d] /\ ran'[d] = ran[d] /\ origin[d] \in Queue \cup {None}
        BY <1>t, <2>1 DEF CaptureInv, CaptureTypes
      <3>2. CASE origin[d] = None
        BY <2>3, <3>1, <3>2 DEF DeliveryFits, Ordinary
      <3>3. CASE origin[d] # None
        <4>1. Inert(d)
          BY <3>1, <3>3 DEF DeliveryFits
        <4>2. row[d].queue # q
          BY <2>1, <4>1 DEF Inert
        <4>3. queue'[origin[d]].retired = queue[origin[d]].retired
          BY <2>2, <3>1, <3>3
        <4>4. Inert(d)'
          BY <2>3, <3>1, <4>1, <4>2, <4>3 DEF Inert
        <4>5. QED
          BY <2>3, <3>1, <3>3, <4>4 DEF DeliveryFits
      <3>4. QED
        BY <3>2, <3>3
    <2>8. QED
      BY <2>5, <2>6, <2>7 DEF CaptureInv
  <1>3. QED
    BY <1>1, <1>2

\* A queue takes a delivery: one that is retired takes its first and its last.
LEMMA CaptureAccepts ==
    ASSUME CaptureInv, NEW p \in Pod, Capture!Accept(p)
    PROVE  CaptureInv'
  <1>0. PICK q : q = work[p].queue
    OBVIOUS
  <1>1. work[p].at = "fetched" /\ Capture!Open(p) /\ UNCHANGED <<mode, ran>>
    BY DEF Capture!Accept
  <1>t. CaptureTypes
    BY DEF CaptureInv
  <1>2. q \in Queue /\ work[p].whole \in BOOLEAN /\ work \in [Pod -> CaptureWork]
    BY <1>0, <1>1, <1>t DEF CaptureTypes, CaptureWork, Capture!Idle
  <1>3. queue[q].there /\ queue[q].on /\ queue[q].retired = Capture!Captures(p)
    BY <1>0, <1>1 DEF Capture!Open, Capture!On
  <1>s. PICK end : end = IF ~work[p].whole THEN "QUARANTINED"
                         ELSE IF Capture!Captures(p) THEN "CAPTURED" ELSE "ACCEPTED"
    OBVIOUS
  <1>4. PICK d \in Delivery :
          /\ row[d].state = "ABSENT"
          /\ row' = [row EXCEPT ![d] = [@ EXCEPT !.state = end, !.queue = q, !.whole = work[p].whole]]
          /\ queue' = IF Capture!Captures(p) THEN [queue EXCEPT ![q].on = FALSE] ELSE queue
          /\ origin' = IF Capture!Captures(p) THEN [origin EXCEPT ![d] = q] ELSE origin
          /\ Capture!Gone(Capture!Stage(p))
          /\ Capture!Does(p, IF q \in Pipe THEN [at |-> "due", delivery |-> d] ELSE Capture!Idle)
    BY <1>0, <1>s DEF Capture!Accept
  <1>5. work' \in [Pod -> CaptureWork]
    BY <1>2, <1>4 DEF CaptureWork, Capture!Does
  <1>6. stages' \subseteq stages
    BY <1>4 DEF Capture!Gone
  <1>7. DeliveryFits(d) /\ row[d].queue = None /\ origin[d] = None /\ ran[d] = {}
        /\ ~row[d].promoted /\ row[d].by = None
    BY <1>4 DEF CaptureInv, DeliveryFits, Ordinary
  <1>8. /\ row'[d] \in DeliveryRow /\ row'[d].state = end /\ row'[d].queue = q
        /\ row'[d].whole = work[p].whole /\ ~row'[d].promoted /\ row'[d].by = None
        /\ \A e \in Delivery : e # d => row'[e] = row[e]
    <2>1. row[d] \in DeliveryRow /\ end \in DeliveryState
      BY <1>t, <1>s DEF CaptureTypes, DeliveryState
    <2>2. row'[d] = [row[d] EXCEPT !.state = end, !.queue = q, !.whole = work[p].whole]
      BY <1>t, <1>4 DEF CaptureTypes
    <2>3. QED
      BY <1>t, <1>2, <1>4, <1>7, <2>1, <2>2 DEF CaptureTypes, DeliveryRow
  <1>9. /\ queue' \in [Queue -> QueueRow] /\ (Capture!Captures(p) => ~queue'[q].on)
        /\ \A x \in Queue : queue'[x].retired = queue[x].retired /\ queue'[x].there = queue[x].there
                            /\ (x # q => queue'[x] = queue[x])
    <2>1. queue \in [Queue -> QueueRow]
      BY <1>t DEF CaptureTypes
    <2>2. CASE Capture!Captures(p)
      BY <1>2, <1>4, <2>1, <2>2 DEF QueueRow
    <2>3. CASE ~Capture!Captures(p)
      BY <1>4, <2>1, <2>3
    <2>4. QED
      BY <2>2, <2>3
  <1>10. /\ origin' \in [Delivery -> Queue \cup {None}]
         /\ origin'[d] = (IF Capture!Captures(p) THEN q ELSE None)
         /\ \A e \in Delivery : e # d => origin'[e] = origin[e]
    BY <1>t, <1>2, <1>4, <1>7 DEF CaptureTypes
  <1>11. CaptureTypes'
    BY <1>t, <1>1, <1>4, <1>5, <1>6, <1>8, <1>9, <1>10 DEF CaptureTypes
  <1>12. ASSUME NEW e \in Delivery PROVE DeliveryFits(e)'
    <2>1. CASE e # d
      <3>1. /\ row'[e] = row[e] /\ ran'[e] = ran[e] /\ origin'[e] = origin[e] /\ DeliveryFits(e)
            /\ origin[e] # None => origin[e] \in Queue /\ queue'[origin[e]].retired = queue[origin[e]].retired
        BY <1>t, <1>1, <1>8, <1>9, <1>10, <2>1 DEF CaptureInv, CaptureTypes
      <3>2. QED
        BY <3>1 DEF DeliveryFits, Ordinary, Inert
    <2>2. CASE e = d /\ Capture!Captures(p)
      <3>1. origin'[d] = q /\ q # None /\ queue'[q].retired /\ ran'[d] = {}
        BY <1>1, <1>2, <1>3, <1>7, <1>9, <1>10, <2>2, ServicesAssumption
      <3>2. row'[d].state = IF row'[d].whole THEN "CAPTURED" ELSE "QUARANTINED"
        BY <1>s, <1>2, <1>8, <2>2
      <3>3. Inert(d)'
        BY <3>1, <3>2, <1>8 DEF Inert
      <3>4. QED
        BY <2>2, <3>1, <3>2, <3>3, <1>8 DEF DeliveryFits
    <2>3. CASE e = d /\ ~Capture!Captures(p)
      <3>1. origin'[d] = None /\ ran'[d] = {} /\ row'[d].state \in {"QUARANTINED", "ACCEPTED"}
        BY <1>1, <1>s, <1>7, <1>8, <1>10, <2>3
      <3>2. QED
        BY <2>3, <3>1, <1>8 DEF DeliveryFits, Ordinary
    <2>4. QED
      BY <2>1, <2>2, <2>3
  <1>13. ASSUME NEW x \in Queue PROVE QueueFits(x)'
    <2>0. QueueFits(x)
      BY DEF CaptureInv
    <2>1. CASE x # q
      <3>1. /\ queue'[x] = queue[x]
            /\ \A e \in Delivery : row'[e].queue = x => row[e].queue = x /\ origin'[e] = origin[e]
        BY <1>8, <1>9, <1>10, <2>1
      <3>2. QED
        BY <2>0, <3>1, <1>6 DEF QueueFits
    <2>2. CASE x = q /\ Capture!Captures(p)
      <3>1. \A e \in Delivery : row[e].queue # q
        BY <2>0, <1>3, <2>2 DEF QueueFits
      <3>2. \A e \in Delivery : row'[e].queue = q => e = d
        BY <3>1, <1>8
      <3>3. queue'[q].there /\ \A s \in stages' : s.queue = q => s.capture
        BY <2>0, <1>2, <1>3, <1>6, <1>9, <2>2 DEF QueueFits
      <3>4. QED
        BY <2>2, <3>2, <3>3, <1>9, <1>10 DEF QueueFits
    <2>3. CASE x = q /\ ~Capture!Captures(p)
      BY <2>3, <1>2, <1>3, <1>9 DEF QueueFits
    <2>4. QED
      BY <2>1, <2>2, <2>3
  <1>14. QED
    BY <1>11, <1>12, <1>13 DEF CaptureInv

LEMMA CaptureStep ==
    ASSUME CaptureInv, Capture!Next
    PROVE  CaptureInv'
  <1>1. ASSUME NEW p \in Pod,
               \/ Capture!ArmReads(p) \/ Capture!Fetch(p) \/ Capture!Reserve(p) \/ Capture!GivesUp(p)
               \/ Capture!Reap(p) \/ Capture!Select(p) \/ Capture!Restart(p)
        PROVE  CaptureInv'
    BY <1>1, CaptureReadsStep
  <1>2. ASSUME NEW p \in Pod, Capture!Arm(p) \/ Capture!Accept(p) \/ Capture!Claim(p) \/ Capture!Settle(p)
        PROVE  CaptureInv'
    BY <1>2, CaptureArms, CaptureAccepts, CaptureRuns, CaptureSettles
  <1>3. ASSUME NEW p \in Pod, NEW d \in Delivery, Capture!Replay(p, d) \/ Capture!Promote(p, d)
        PROVE  CaptureInv'
    BY <1>3, CaptureReplays
  <1>4. ASSUME NEW d \in Delivery, Capture!LeaseEnds(d) PROVE CaptureInv'
    <2>1. CASE Pod = {}
      BY <1>4, <2>1 DEF CaptureInv, CaptureTypes, DeliveryRow, Capture!LeaseEnds
    <2>2. CASE Pod # {}
      BY <1>4, <2>2, CaptureReplays
    <2>3. QED
      BY <2>1, <2>2
  <1>5. ASSUME NEW q \in Queue, Capture!Update(q) \/ Capture!Delete(q) PROVE CaptureInv'
    BY <1>5, CaptureEdits
  <1>6. QED
    BY <1>1, <1>2, <1>3, <1>4, <1>5 DEF Capture!Next

LEMMA CapturePromise == CaptureInv => CaptureIsEvidence
  <1> SUFFICES ASSUME CaptureInv PROVE CaptureIsEvidence
    OBVIOUS
  <1>1. Capture!RetiredQueuesHoldEvidence
    BY DEF CaptureInv, QueueFits, Capture!RetiredQueuesHoldEvidence
  <1>2. Capture!CapturedMailIsInert
    BY DEF CaptureInv, DeliveryFits, Inert, Capture!CapturedMailIsInert
  <1>3. \A d \in Delivery : origin[d] = None => ~row[d].promoted /\ ran[d] \subseteq {[is |-> "normal"]}
    BY DEF CaptureInv, DeliveryFits, Ordinary
  <1>4. QED
    BY <1>1, <1>2, <1>3 DEF CaptureIsEvidence, Capture!CaptureIsEvidence

--------------------------------------------------------------------------------
(* ReportSchedules.  The next fire is later than any that has been taken,  *)
(* and what was compiled was compiled with rights.                         *)

ReportRow == [on : BOOLEAN, next : Nat, gen : Nat]

\* The definition of Owner, for the departments there are.
ReportOwner == [able : BOOLEAN, scope : SUBSET Dept]

ScanFits(s) ==
    /\ s.pc \in {"resolve", "compile", "commit"} =>
          s.row \in ReportRow /\ s.row.on = TRUE /\ s.now \in Nat /\ s.row.next <= s.now
    /\ s.pc = "compile" \/ (s.pc = "commit" /\ s.ok = TRUE) =>
          s.rights \in ReportOwner /\ s.rights.able = TRUE
    /\ s.pc = "compile" =>
          DOMAIN s = {"pc", "row", "report", "now", "rights", "off", "scope", "ok", "moved"}
    /\ s.pc = "commit" /\ s.ok = TRUE => s.scope = s.rights.scope \/ s.moved = TRUE

\* The owner is the one that was resolved, or has moved since.
Fresh(s) == s.pc = "compile" => s.rights = owner \/ s.moved = TRUE

ReportsInv ==
    /\ clock \in Nat /\ schedule \in ReportRow /\ owner \in ReportOwner
    /\ DOMAIN scan = Pod
    /\ \A p \in Pod : ScanFits(scan[p]) /\ (scan[p].pc # "idle" => scan[p].now <= clock)
    /\ \A p \in Pod : Fresh(scan[p])
    /\ \A p \in Pod : scan[p].pc \in {"idle", "resolve", "compile", "commit"}
    /\ \A r \in runs : r.fire \in Nat /\ r.fire < schedule.next /\ r.fire <= clock

LEMMA ReportsInit == Reports!Init => ReportsInv
  <1> SUFFICES ASSUME Reports!Init PROVE ReportsInv
    OBVIOUS
  <1>1. \A p \in Pod : scan[p] = [pc |-> "idle"]
    BY DEF Reports!Init, Reports!Idle
  <1>2. QED
    BY <1>1 DEF Reports!Init, ReportsInv, ScanFits, Fresh, ReportRow, ReportOwner

\* A pod takes a step with what it has read.
LEMMA ReportsMove ==
    ASSUME ReportsInv, UNCHANGED <<clock, schedule, owner, runs>>, NEW p \in Pod, NEW s, Reports!Takes(p, s),
           ScanFits(s), Fresh(s), s.pc \in {"idle", "resolve", "compile", "commit"},
           s.pc # "idle" => s.now <= clock
    PROVE  ReportsInv'
  <1>1. /\ DOMAIN scan' = Pod /\ scan'[p] = s /\ \A x \in Pod : x # p => scan'[x] = scan[x]
    BY DEF ReportsInv, Reports!Takes
  <1>2. \A x \in Pod : ScanFits(scan'[x]) /\ (scan'[x].pc # "idle" => scan'[x].now <= clock)
                       /\ scan'[x].pc \in {"idle", "resolve", "compile", "commit"}
    BY <1>1 DEF ReportsInv
  <1>3. \A x \in Pod : Fresh(scan[x])'
    BY <1>1 DEF ReportsInv, Fresh
  <1>4. QED
    BY <1>1, <1>2, <1>3 DEF ReportsInv

LEMMA ReportsStep ==
    ASSUME ReportsInv, Reports!Next
    PROVE  ReportsInv'
  <1>t. /\ clock \in Nat /\ schedule \in ReportRow /\ owner \in ReportOwner
        /\ schedule.next \in Nat /\ schedule.gen \in Nat
        /\ \A p \in Pod : ScanFits(scan[p]) /\ (scan[p].pc # "idle" => scan[p].now <= clock)
        /\ \A p \in Pod : Fresh(scan[p])
        /\ \A r \in runs : r.fire \in Nat /\ r.fire < schedule.next /\ r.fire <= clock
    BY DEF ReportsInv, ReportRow
  <1>i. ScanFits(Reports!Idle) /\ Fresh(Reports!Idle) /\ Reports!Idle.pc = "idle"
    BY DEF ScanFits, Fresh, Reports!Idle
  <1>1. CASE Reports!FireComes
    <2>1. clock' = clock + 1 /\ UNCHANGED <<schedule, owner, scan, runs>>
      BY <1>1 DEF Reports!FireComes
    <2>2. \A p \in Pod : scan'[p].pc # "idle" => scan'[p].now <= clock'
      <3>1. \A p \in Pod : scan[p].pc # "idle" => scan[p].now \in Nat
        BY DEF ReportsInv, ScanFits
      <3>2. QED
        BY <1>t, <2>1, <3>1
    <2>3. clock' \in Nat /\ \A r \in runs' : r.fire <= clock'
      BY <1>t, <2>1
    <2>4. QED
      BY <2>1, <2>2, <2>3 DEF ReportsInv, Fresh
  <1>2. CASE Reports!EditSchedule
    <2>1. PICK on \in BOOLEAN, next \in {schedule.next, clock + 1} :
             schedule' = [on |-> on, next |-> next, gen |-> schedule.gen + 1]
      BY <1>2 DEF Reports!EditSchedule
    <2>2. UNCHANGED <<clock, owner, scan, runs>>
      BY <1>2 DEF Reports!EditSchedule
    <2>3. schedule' \in ReportRow /\ schedule'.next \in {schedule.next, clock + 1}
      BY <1>t, <2>1 DEF ReportRow
    <2>4. \A r \in runs : r.fire < schedule'.next
      BY <1>t, <2>3
    <2>5. QED
      BY <2>2, <2>3, <2>4 DEF ReportsInv, Fresh
  <1>3. CASE Reports!EditReport
    BY <1>3 DEF Reports!EditReport, ReportsInv, Fresh
  <1>4. CASE Reports!EditOwner
    <2>1. /\ owner' \in ReportOwner /\ UNCHANGED <<clock, schedule, runs>>
          /\ DOMAIN scan' = Pod
          /\ \A p \in Pod : scan'[p] = IF scan[p].pc = "compile" THEN [scan[p] EXCEPT !.moved = TRUE] ELSE scan[p]
      BY <1>4 DEF Reports!EditOwner, Reports!Owner, ReportOwner
    <2>2. ASSUME NEW p \in Pod
          PROVE  /\ ScanFits(scan'[p]) /\ scan'[p].pc = scan[p].pc
                 /\ scan'[p].pc # "idle" => scan'[p].now <= clock
                 /\ scan'[p].pc = "compile" => scan'[p].moved = TRUE
      <3>1. CASE scan[p].pc = "compile"
        <4> DEFINE s == [scan[p] EXCEPT !.moved = TRUE]
        <4>1. DOMAIN scan[p] = {"pc", "row", "report", "now", "rights", "off", "scope", "ok", "moved"}
          BY <1>t, <3>1 DEF ScanFits
        <4>2. /\ DOMAIN s = DOMAIN scan[p] /\ s.pc = "compile" /\ s.row = scan[p].row /\ s.now = scan[p].now
              /\ s.rights = scan[p].rights /\ s.moved = TRUE
          BY <3>1, <4>1
        <4>3. scan'[p] = s
          BY <2>1, <3>1
        <4> HIDE DEF s
        <4>4. ScanFits(s) /\ s.now <= clock
          BY <1>t, <3>1, <4>1, <4>2 DEF ScanFits
        <4>5. QED
          BY <3>1, <4>2, <4>3, <4>4
      <3>2. CASE scan[p].pc # "compile"
        BY <1>t, <2>1, <3>2
      <3>3. QED
        BY <3>1, <3>2
    <2>3. \A p \in Pod : Fresh(scan[p])'
      BY <2>2 DEF Fresh
    <2>4. \A p \in Pod : scan'[p].pc \in {"idle", "resolve", "compile", "commit"}
      BY <2>2 DEF ReportsInv
    <2>5. QED
      BY <1>t, <2>1, <2>2, <2>3, <2>4 DEF ReportsInv
  <1>5. ASSUME NEW p \in Pod, Reports!Read(p) PROVE ReportsInv'
    <2> DEFINE s == [pc |-> "resolve", row |-> schedule, report |-> report, now |-> clock]
    <2>1. /\ schedule.on /\ schedule.next <= clock /\ Reports!Takes(p, s)
          /\ UNCHANGED <<clock, schedule, owner, runs>>
      BY <1>5 DEF Reports!Read
    <2>2. schedule.on = TRUE
      BY <1>t, <2>1 DEF ReportRow
    <2>3. ScanFits(s) /\ Fresh(s) /\ s.pc = "resolve" /\ s.now = clock
      BY <1>t, <2>1, <2>2 DEF ScanFits, Fresh
    <2> HIDE DEF s
    <2>4. QED
      BY <1>t, <2>1, <2>3, ReportsMove
  <1>6. ASSUME NEW p \in Pod, Reports!Resolve(p) PROVE ReportsInv'
    <2>1. scan[p].pc = "resolve" /\ UNCHANGED <<clock, schedule, owner, runs>>
      BY <1>6 DEF Reports!Resolve
    <2>2. PICK parsed \in BOOLEAN :
            Reports!Takes(p, [pc     |-> IF parsed /\ owner.able THEN "compile" ELSE "commit",
                  row    |-> scan[p].row, report |-> scan[p].report, now |-> scan[p].now,
                  rights |-> IF parsed /\ owner.able THEN owner ELSE None,
                  off    |-> parsed /\ ~owner.able,
                  scope  |-> None, ok |-> FALSE, moved |-> FALSE])
      BY <1>6 DEF Reports!Resolve
    <2> DEFINE s == [pc     |-> IF parsed /\ owner.able THEN "compile" ELSE "commit",
                  row    |-> scan[p].row, report |-> scan[p].report, now |-> scan[p].now,
                  rights |-> IF parsed /\ owner.able THEN owner ELSE None,
                  off    |-> parsed /\ ~owner.able,
                  scope  |-> None, ok |-> FALSE, moved |-> FALSE]
    <2>3. scan[p].row \in ReportRow /\ scan[p].row.on = TRUE /\ scan[p].now \in Nat
          /\ scan[p].row.next <= scan[p].now /\ scan[p].now <= clock
      BY <1>t, <2>1 DEF ScanFits
    <2>4. s.pc \in {"compile", "commit"} /\ s.row = scan[p].row /\ s.now = scan[p].now /\ s.ok = FALSE
          /\ DOMAIN s = {"pc", "row", "report", "now", "rights", "off", "scope", "ok", "moved"}
      OBVIOUS
    <2>5. s.pc = "compile" => s.rights = owner /\ owner.able = TRUE
      BY <1>t DEF ReportOwner
    <2> HIDE DEF s
    <2>6. ScanFits(s) /\ Fresh(s)
      BY <1>t, <2>3, <2>4, <2>5 DEF ScanFits, Fresh
    <2>7. Reports!Takes(p, s)
      BY <2>2 DEF s
    <2>8. QED
      BY <2>1, <2>3, <2>4, <2>6, <2>7, ReportsMove
  <1>7. ASSUME NEW p \in Pod, Reports!Compile(p) PROVE ReportsInv'
    <2>1. scan[p].pc = "compile" /\ UNCHANGED <<clock, schedule, owner, runs>>
      BY <1>7 DEF Reports!Compile
    <2>2. PICK ok \in BOOLEAN : Reports!Takes(p, [scan[p] EXCEPT !.pc = "commit", !.scope = owner.scope, !.ok = ok])
      BY <1>7 DEF Reports!Compile
    <2> DEFINE s == [scan[p] EXCEPT !.pc = "commit", !.scope = owner.scope, !.ok = ok]
    <2>3. ScanFits(scan[p]) /\ scan[p].now <= clock /\ (scan[p].rights = owner \/ scan[p].moved = TRUE)
      BY <1>t, <2>1 DEF Fresh
    <2>4. /\ s.pc = "commit" /\ s.row = scan[p].row /\ s.now = scan[p].now /\ s.rights = scan[p].rights
          /\ s.scope = owner.scope /\ s.moved = scan[p].moved
      BY <2>1, <2>3 DEF ScanFits
    <2>5. Reports!Takes(p, s)
      BY <2>2
    <2> HIDE DEF s
    <2>6. ScanFits(s) /\ Fresh(s)
      BY <2>1, <2>3, <2>4 DEF ScanFits, Fresh
    <2>7. QED
      BY <2>1, <2>3, <2>4, <2>5, <2>6, ReportsMove
  <1>8. ASSUME NEW p \in Pod, Reports!Commit(p) PROVE ReportsInv'
    <2> DEFINE s == scan[p]
    <2>1. s.pc = "commit" /\ Reports!Takes(p, Reports!Idle) /\ UNCHANGED <<clock, report, owner>>
      BY <1>8 DEF Reports!Commit
    <2>2. /\ s.row \in ReportRow /\ s.now \in Nat /\ s.row.next <= s.now /\ s.now <= clock
          /\ s.row.next \in Nat
      BY <1>t, <2>1 DEF ScanFits, ReportRow
    <2>3. CASE UNCHANGED <<schedule, runs, mail>>
      BY <1>i, <2>1, <2>3, ReportsMove
    <2>4. CASE /\ Reports!SameRights(s) /\ Reports!Unchanged(s)
               /\ schedule' = [schedule EXCEPT !.next = s.now + 1, !.on = ~s.off]
      <3>1. schedule = s.row
        BY <2>4 DEF Reports!Unchanged
      <3>2. runs' = runs \cup {[fire |-> s.row.next, by |-> p, config |-> <<s.row.gen, s.report>>,
                                rights |-> s.rights, scope |-> s.scope, moved |-> s.moved]}
        BY <1>8, <2>4 DEF Reports!Commit
      <3>3. \A r \in runs' : r.fire \in Nat /\ r.fire <= s.row.next /\ r.fire <= clock
        <4>1. \A r \in runs : r.fire \in Nat /\ r.fire < schedule.next
          BY <1>i DEF ReportsInv
        <4>2. PICK run : run.fire = s.row.next /\ runs' = runs \cup {run}
          BY <3>2
        <4>3. clock \in Nat
          BY <1>t
        <4> HIDE DEF s
        <4>4. ASSUME NEW r \in runs PROVE r.fire \in Nat /\ r.fire <= s.row.next /\ r.fire <= clock
          <5>1. r.fire \in Nat /\ r.fire < s.row.next
            BY <3>1, <4>1
          <5>2. QED
            BY <2>2, <4>3, <5>1
        <4>5. run.fire \in Nat /\ run.fire <= s.row.next /\ run.fire <= clock
          BY <2>2, <4>2, <4>3
        <4>6. QED
          BY <4>2, <4>4, <4>5
      <3>4. schedule' \in ReportRow /\ schedule'.next = s.now + 1
        <4>1. PICK on : on = (~s.off) /\ on \in BOOLEAN
          OBVIOUS
        <4>2. schedule' = [schedule EXCEPT !.next = s.now + 1, !.on = on]
          BY <2>4, <4>1
        <4>3. s.now + 1 \in Nat
          BY <2>2
        <4>4. schedule \in ReportRow
          BY <1>t
        <4> HIDE DEF s
        <4>5. QED
          BY <4>1, <4>2, <4>3, <4>4 DEF ReportRow
      <3>5. \A r \in runs' : r.fire < schedule'.next
        BY <2>2, <3>3, <3>4
      <3>6. /\ DOMAIN scan' = Pod /\ scan'[p] = Reports!Idle
            /\ \A x \in Pod : x # p => scan'[x] = scan[x]
        BY <2>1 DEF ReportsInv, Reports!Takes
      <3>7. \A x \in Pod : ScanFits(scan'[x]) /\ (scan'[x].pc # "idle" => scan'[x].now <= clock')
                           /\ scan'[x].pc \in {"idle", "resolve", "compile", "commit"}
        BY <1>i, <2>1, <3>6 DEF ReportsInv
      <3>8. \A x \in Pod : Fresh(scan[x])'
        BY <1>t, <1>i, <2>1, <3>6 DEF Fresh
      <3>9. QED
        BY <1>t, <2>1, <3>3, <3>4, <3>5, <3>6, <3>7, <3>8 DEF ReportsInv
    <2>5. QED
      BY <1>8, <2>3, <2>4 DEF Reports!Commit
  <1>9. ASSUME NEW p \in Pod, Reports!GivesUp(p) PROVE ReportsInv'
    <2>1. Reports!Takes(p, Reports!Idle) /\ UNCHANGED <<clock, schedule, owner, runs>>
      BY <1>9 DEF Reports!GivesUp
    <2>2. QED
      BY <1>i, <2>1, ReportsMove
  <1>10. QED
    BY <1>1, <1>2, <1>3, <1>4, <1>5, <1>6, <1>7, <1>8, <1>9 DEF Reports!Next

\* A step that makes a run or a mail is a commit of what is still configured.
LEMMA ReportFires ==
    ASSUME ReportsInv, Reports!Next
    PROVE  /\ \A r \in runs' \ runs : \A q \in runs : q.fire # r.fire
           /\ \A m \in mail' \ mail :
                /\ m.config = <<schedule.gen, report>> /\ schedule.on
                /\ owner.able /\ m.rights = owner
                /\ m.scope = owner.scope \/ m.moved
  <1>1. CASE UNCHANGED <<runs, mail>>
    BY <1>1
  <1>2. ASSUME NEW p \in Pod, Reports!Commit(p), ~UNCHANGED <<runs, mail>>
        PROVE  /\ \A r \in runs' \ runs : \A q \in runs : q.fire # r.fire
               /\ \A m \in mail' \ mail :
                    /\ m.config = <<schedule.gen, report>> /\ schedule.on
                    /\ owner.able /\ m.rights = owner
                    /\ m.scope = owner.scope \/ m.moved
    <2> DEFINE s == scan[p]
               run == [fire |-> s.row.next, by |-> p, config |-> <<s.row.gen, s.report>>,
                       rights |-> s.rights, scope |-> s.scope, moved |-> s.moved]
    <2>1. /\ s.pc = "commit" /\ Reports!SameRights(s) /\ Reports!Unchanged(s)
          /\ runs' = runs \cup {run} /\ mail' = IF s.ok THEN mail \cup {run} ELSE mail
      BY <1>2 DEF Reports!Commit
    <2>2. schedule = s.row /\ report = s.report /\ s.rights \in {None, owner}
      BY <2>1 DEF Reports!Unchanged, Reports!SameRights
    <2>3. schedule.on = TRUE
      BY <2>1, <2>2 DEF ReportsInv, ScanFits
    <2>4. \A q \in runs : q.fire # schedule.next
      BY DEF ReportsInv, ReportRow
    <2>5. ASSUME s.ok PROVE owner.able /\ s.rights = owner /\ (s.scope = owner.scope \/ s.moved)
      <3>1. s.ok = TRUE => /\ s.rights \in ReportOwner /\ s.rights.able = TRUE
                           /\ s.scope = s.rights.scope \/ s.moved = TRUE
        BY <2>1 DEF ReportsInv, ScanFits
      <3>2. QED
        BY <3>1, <2>2, <2>5, ServicesAssumption DEF ReportOwner
    <2>6. run.fire = schedule.next /\ run.config = <<schedule.gen, report>> /\ run.rights = s.rights
          /\ run.scope = s.scope /\ run.moved = s.moved
      BY <2>2
    <2> HIDE DEF s, run
    <2>7. QED
      BY <2>1, <2>3, <2>4, <2>5, <2>6
  <1>3. UNCHANGED <<runs, mail>> \/ \E p \in Pod : Reports!Commit(p)
    BY DEF Reports!Next, Reports!FireComes, Reports!EditSchedule, Reports!EditReport, Reports!EditOwner,
       Reports!Read, Reports!Resolve, Reports!Compile, Reports!GivesUp
  <1>4. QED
    BY <1>1, <1>2, <1>3

--------------------------------------------------------------------------------
(* Deployment: the script is an automaton, and the invariant says of each of  *)
(* its places what the release, the queues and the copies are like there.     *)

Releases == {"none", "old", "new"}
Running == {"edges", "quiesce", "drain"}
Resting == {"look", "dump", "archive", "redis", "keep", "copy", "rehearse"}
Crossing == {"migrate", "convert", "up"}
Proving == {"gates", "resume", "summary"}
ScriptFields == {"at", "saved", "seen", "quiesced", "forward", "audited", "proved", "shaken"}

DeployTypes ==
    /\ release \in Releases /\ schema \in Releases
    /\ cipher \in BOOLEAN /\ paused \in BOOLEAN /\ active \in BOOLEAN
    /\ DOMAIN data = Deploy!Stores
    /\ DOMAIN script = ScriptFields /\ DOMAIN script.saved = Deploy!Stores
    /\ script.quiesced \in BOOLEAN /\ script.forward \in BOOLEAN /\ script.audited \in BOOLEAN
    /\ script.proved \in BOOLEAN /\ script.shaken \in BOOLEAN

\* Which release a place of the script is about, and which of its flags are up.
Places ==
    /\ script.at \in Running \cup {"stop"} \cup Resting \cup {"convert"} \cup Deploy!Undo => release = "old"
    /\ script.at \in {"boundary", "migrate", "up"} => release \in {"none", "old"}
    /\ script.at = "private" => release = "none"
    /\ script.at \in Proving => release = "new"
    /\ script.at \in Running \cup {"stop", "boundary"} \cup Resting \cup Deploy!Undo => script.forward = FALSE
    /\ script.at \in {"private"} \cup Crossing \cup Proving \cup Deploy!Freeze => script.forward = TRUE
    /\ script.at = "boundary" /\ script.quiesced = TRUE => release = "old"
    /\ script.at \in Deploy!Steps \cup {"freeze pause"} => script.proved = FALSE
    /\ script.at = "resume" => script.audited = TRUE

\* Nobody works on a release that is being replaced, and nothing runs of one that is
\* not there yet.
Quiet ==
    /\ script.at \in Running \cup Proving => Deploy!App \subseteq up
    /\ release = "old" /\ script.at \in {"stop", "boundary"} \cup Resting \cup Crossing =>
           paused = TRUE /\ active = FALSE
    /\ release = "old" /\ script.at \in {"boundary"} \cup Resting \cup Crossing => "api" \notin up
    /\ release = "none" => "api" \notin up /\ active = FALSE /\ script.saved = Deploy!Nothing
    /\ release = "new" => "redis" \in up
    /\ release = "new" => script.saved = Deploy!Nothing \/ paused = TRUE \/ script.audited = TRUE
    /\ Deploy!NoJobIsCut

\* What has been copied is what there is.
Copies ==
    /\ release = "old" => schema # "none"
    /\ release = "old" =>
           /\ script.at \in {"archive", "redis", "keep", "copy", "rehearse", "boundary"} \cup Crossing =>
                  script.saved["db"] = data["db"]
           /\ script.at \in {"redis", "keep", "copy", "rehearse", "boundary"} \cup Crossing =>
                  script.saved["files"] = data["files"]
           /\ script.at \in {"copy", "rehearse", "boundary"} \cup Crossing =>
                  script.saved["redis"] = data["redis"]
           /\ script.at \in {"rehearse", "boundary"} \cup Crossing => named = data["redis"]
    /\ release = "old" /\ (schema = "new" \/ cipher = TRUE) =>
           /\ script.at \in {"convert", "up", "failed", "dead"} \cup Deploy!Freeze
           /\ "api" \notin up /\ named = data["redis"]
           /\ \A s \in Deploy!Stores : script.saved[s] = data[s]

\* Where the two handlers are on their way.
Handlers ==
    /\ script.at \in {"undo resume", "undo api", "undo web"} => "redis" \in up
    /\ script.at \in {"undo api", "undo web"} => paused = FALSE
    /\ script.at = "undo web" => "api" \in up
    /\ script.at = "freeze stop" /\ script.proved = TRUE => paused = TRUE
    /\ script.at \in {"freeze again", "freeze edges"} /\ script.shaken = FALSE => "api" \notin up
    /\ script.at = "freeze edges" /\ script.shaken = FALSE /\ release = "new" => paused = TRUE
    /\ Deploy!FailureComesBack /\ Deploy!FailureStaysDown

ScriptInv == DeployTypes /\ Places /\ Quiet /\ Copies /\ Handlers

\* Of the script only its place changes.
OnlyGoes(x) ==
    /\ script'.at = x /\ DOMAIN script' = ScriptFields
    /\ script'.saved = script.saved /\ script'.quiesced = script.quiesced
    /\ script'.forward = script.forward /\ script'.audited = script.audited
    /\ script'.proved = script.proved /\ script'.shaken = script.shaken

LEMMA ScriptGoes ==
    ASSUME DeployTypes, NEW x, Deploy!Goes(x)
    PROVE  OnlyGoes(x)
  BY DEF DeployTypes, ScriptFields, Deploy!Goes, OnlyGoes

LEMMA ScriptInitially ==
    ASSUME Deploy!Init
    PROVE  ScriptInv
  <1> USE DEF Deploy!Init, Deploy!Fresh, Deploy!Stores
  <1>1. script.at = "failed" /\ ~script.quiesced /\ ~script.forward
    OBVIOUS
  <1>2. DeployTypes
    BY DEF DeployTypes, Releases, ScriptFields, Deploy!Nothing
  <1>3. Places
    BY <1>1 DEF Places, Running, Resting, Crossing, Proving, Deploy!Undo, Deploy!Freeze, Deploy!Steps
  <1>4. Quiet
    BY <1>1 DEF Quiet, Running, Resting, Crossing, Proving, Deploy!NoJobIsCut, Deploy!Ended, Deploy!At
  <1>5. Copies
    BY <1>1 DEF Copies, Crossing
  <1>6. Handlers
    BY <1>1 DEF Handlers, Deploy!FailureComesBack, Deploy!FailureStaysDown, Deploy!At
  <1>7. QED
    BY <1>2, <1>3, <1>4, <1>5, <1>6 DEF ScriptInv

\* A step of the application leaves the types alone.
LEMMA ScriptTypesStay ==
    ASSUME DeployTypes, UNCHANGED <<release, schema, cipher, paused, script>>,
           DOMAIN data' = Deploy!Stores, active' \in BOOLEAN
    PROVE  DeployTypes'
  <1>1. release' \in Releases /\ schema' \in Releases
    BY DEF DeployTypes
  <1>2. cipher' \in BOOLEAN /\ paused' \in BOOLEAN
    BY DEF DeployTypes
  <1>3. DOMAIN script' = ScriptFields /\ DOMAIN script'.saved = Deploy!Stores
    BY DEF DeployTypes
  <1>4. /\ script'.quiesced \in BOOLEAN /\ script'.forward \in BOOLEAN /\ script'.audited \in BOOLEAN
        /\ script'.proved \in BOOLEAN /\ script'.shaken \in BOOLEAN
    BY DEF DeployTypes
  <1>5. QED
    BY <1>1, <1>2, <1>3, <1>4 DEF DeployTypes

LEMMA ScriptStep ==
    ASSUME ScriptInv, [Deploy!Next]_deployVars
    PROVE  ScriptInv'
  <1> USE DEF ScriptInv, DeployTypes, Places, Quiet, Copies, Handlers, Releases, Running, Resting, Crossing,
              Proving, Deploy!At, Deploy!App, Deploy!Stores, Deploy!Steps, Deploy!Undo, Deploy!Freeze,
              Deploy!Ended, Deploy!Starts, Deploy!Stops, Deploy!Host, Deploy!NoJobIsCut,
              Deploy!FailureComesBack, Deploy!FailureStaysDown
  <1>1. ASSUME NEW s \in Deploy!Stores, Deploy!Works(s) PROVE ScriptInv'
    <2>1. DeployTypes'
      <3>1. UNCHANGED <<release, schema, cipher, paused, active, script>>
        BY <1>1 DEF Deploy!Works
      <3>2. DOMAIN data' = Deploy!Stores
        BY <1>1 DEF Deploy!Works
      <3>3. QED
        BY <3>1, <3>2, ScriptTypesStay
    <2>2. Places'
      BY <1>1 DEF Deploy!Works
    <2>3. Quiet'
      BY <1>1 DEF Deploy!Works
    <2>4. Copies'
      BY <1>1 DEF Deploy!Works
    <2>5. Handlers'
      BY <1>1 DEF Deploy!Works
    <2>6. QED
      BY <2>1, <2>2, <2>3, <2>4, <2>5
  <1>2. ASSUME Deploy!TakesJob PROVE ScriptInv'
    <2>1. DeployTypes'
      <3>1. UNCHANGED <<release, schema, cipher, paused, data, script>> /\ active' = TRUE
        BY <1>2 DEF Deploy!TakesJob
      <3>2. DOMAIN data' = Deploy!Stores
        BY <3>1
      <3>3. QED
        BY <3>1, <3>2, ScriptTypesStay
    <2>2. Places'
      BY <1>2 DEF Deploy!TakesJob
    <2>3. Quiet'
      BY <1>2 DEF Deploy!TakesJob
    <2>4. Copies'
      BY <1>2 DEF Deploy!TakesJob
    <2>5. Handlers'
      BY <1>2 DEF Deploy!TakesJob
    <2>6. QED
      BY <2>1, <2>2, <2>3, <2>4, <2>5
  <1>3. ASSUME Deploy!EndsJob PROVE ScriptInv'
    <2>1. DeployTypes'
      <3>1. UNCHANGED <<release, schema, cipher, paused, data, script>> /\ active' = FALSE
        BY <1>3 DEF Deploy!EndsJob
      <3>2. DOMAIN data' = Deploy!Stores
        BY <3>1
      <3>3. QED
        BY <3>1, <3>2, ScriptTypesStay
    <2>2. Places'
      BY <1>3 DEF Deploy!EndsJob
    <2>3. Quiet'
      BY <1>3 DEF Deploy!EndsJob
    <2>4. Copies'
      BY <1>3 DEF Deploy!EndsJob
    <2>5. Handlers'
      BY <1>3 DEF Deploy!EndsJob
    <2>6. QED
      BY <2>1, <2>2, <2>3, <2>4, <2>5
  <1>4. ASSUME Deploy!Begin PROVE ScriptInv'
    BY <1>4 DEF Deploy!Begin, Deploy!Fresh, Deploy!Nothing, ScriptFields
  <1>5. ASSUME Deploy!StopEdges PROVE ScriptInv'
    <2>1. OnlyGoes("quiesce")
      BY <1>5, ScriptGoes DEF Deploy!StopEdges
    <2>2. QED
      BY <1>5, <2>1 DEF Deploy!StopEdges, OnlyGoes
  <1>6. ASSUME Deploy!Quiesce PROVE ScriptInv'
    BY <1>6 DEF Deploy!Quiesce, ScriptFields
  <1>7. ASSUME Deploy!Drain PROVE ScriptInv'
    <2>1. OnlyGoes(IF active THEN "drain" ELSE "stop")
      BY <1>7, ScriptGoes DEF Deploy!Drain
    <2>2. QED
      BY <1>7, <2>1 DEF Deploy!Drain, OnlyGoes
  <1>8. ASSUME Deploy!StopOld PROVE ScriptInv'
    <2>1. OnlyGoes("look")
      BY <1>8, ScriptGoes DEF Deploy!StopOld
    <2>2. QED
      BY <1>8, <2>1 DEF Deploy!StopOld, OnlyGoes
  <1>9. ASSUME Deploy!Look PROVE ScriptInv'
    BY <1>9 DEF Deploy!Look, ScriptFields
  <1>10. ASSUME Deploy!Dump PROVE ScriptInv'
    BY <1>10 DEF Deploy!Dump, Deploy!Save, ScriptFields
  <1>11. ASSUME Deploy!Archive PROVE ScriptInv'
    BY <1>11 DEF Deploy!Archive, Deploy!Save, ScriptFields
  <1>12. ASSUME Deploy!StopRedis PROVE ScriptInv'
    <2>1. OnlyGoes("keep")
      BY <1>12, ScriptGoes DEF Deploy!StopRedis
    <2>2. QED
      BY <1>12, <2>1 DEF Deploy!StopRedis, OnlyGoes
  <1>13. ASSUME Deploy!Keep PROVE ScriptInv'
    BY <1>13 DEF Deploy!Keep, Deploy!Save, ScriptFields
  <1>14. ASSUME Deploy!Copy PROVE ScriptInv'
    <2>1. OnlyGoes("rehearse")
      BY <1>14, ScriptGoes DEF Deploy!Copy
    <2>2. QED
      BY <1>14, <2>1 DEF Deploy!Copy, OnlyGoes
  <1>15. ASSUME Deploy!Rehearse PROVE ScriptInv'
    <2>1. OnlyGoes("boundary")
      BY <1>15, ScriptGoes DEF Deploy!Rehearse
    <2>2. QED
      BY <1>15, <2>1 DEF Deploy!Rehearse, OnlyGoes
  <1>16. ASSUME Deploy!Boundary PROVE ScriptInv'
    BY <1>16 DEF Deploy!Boundary, ScriptFields
  <1>17. ASSUME Deploy!StartPrivate PROVE ScriptInv'
    <2>1. OnlyGoes("migrate")
      BY <1>17, ScriptGoes DEF Deploy!StartPrivate
    <2>2. QED
      BY <1>17, <2>1 DEF Deploy!StartPrivate, OnlyGoes
  <1>18. ASSUME Deploy!Migrate PROVE ScriptInv'
    <2>1. OnlyGoes(IF release = "none" THEN "up" ELSE "convert")
      BY <1>18, ScriptGoes DEF Deploy!Migrate
    <2>2. QED
      BY <1>18, <2>1 DEF Deploy!Migrate, OnlyGoes
  <1>19. ASSUME Deploy!Convert PROVE ScriptInv'
    <2>1. OnlyGoes("up")
      BY <1>19, ScriptGoes DEF Deploy!Convert
    <2>2. QED
      BY <1>19, <2>1 DEF Deploy!Convert, OnlyGoes
  <1>20. ASSUME Deploy!Up PROVE ScriptInv'
    <2>1. OnlyGoes("gates")
      BY <1>20, ScriptGoes DEF Deploy!Up
    <2>2. QED
      BY <1>20, <2>1 DEF Deploy!Up, OnlyGoes
  <1>21. ASSUME Deploy!Gates PROVE ScriptInv'
    BY <1>21 DEF Deploy!Gates, ScriptFields
  <1>22. ASSUME Deploy!Resume PROVE ScriptInv'
    <2>1. OnlyGoes("summary")
      BY <1>22, ScriptGoes DEF Deploy!Resume
    <2>2. QED
      BY <1>22, <2>1 DEF Deploy!Resume, OnlyGoes
  <1>23. ASSUME Deploy!Finish PROVE ScriptInv'
    <2>1. OnlyGoes("done")
      BY <1>23, ScriptGoes DEF Deploy!Finish
    <2>2. QED
      BY <1>23, <2>1 DEF Deploy!Finish, OnlyGoes
  <1>24. ASSUME Deploy!Fails PROVE ScriptInv'
    <2>1. OnlyGoes(Deploy!Handler)
      BY <1>24, ScriptGoes DEF Deploy!Fails
    <2>2. DeployTypes'
      BY <1>24, <2>1 DEF Deploy!Fails, OnlyGoes, Deploy!Handler
    <2>3. Places'
      BY <1>24, <2>1 DEF Deploy!Fails, OnlyGoes, Deploy!Handler
    <2>4. Quiet'
      BY <1>24, <2>1 DEF Deploy!Fails, OnlyGoes, Deploy!Handler
    <2>5. Copies'
      BY <1>24, <2>1 DEF Deploy!Fails, OnlyGoes, Deploy!Handler
    <2>6. Handlers'
      BY <1>24, <2>1 DEF Deploy!Fails, OnlyGoes, Deploy!Handler
    <2>7. QED
      BY <2>2, <2>3, <2>4, <2>5, <2>6
  <1>25. ASSUME Deploy!Refuses PROVE ScriptInv'
    <2>1. OnlyGoes(Deploy!Handler)
      BY <1>25, ScriptGoes DEF Deploy!Refuses
    <2>2. QED
      BY <1>25, <2>1 DEF Deploy!Refuses, OnlyGoes, Deploy!Handler
  <1>26. ASSUME Deploy!Dies PROVE ScriptInv'
    <2>1. OnlyGoes("dead")
      BY <1>26, ScriptGoes DEF Deploy!Dies
    <2>2. DeployTypes'
      BY <1>26, <2>1 DEF Deploy!Dies, OnlyGoes
    <2>3. Places'
      BY <1>26, <2>1 DEF Deploy!Dies, OnlyGoes
    <2>4. Quiet'
      BY <1>26, <2>1 DEF Deploy!Dies, OnlyGoes
    <2>5. Copies'
      BY <1>26, <2>1 DEF Deploy!Dies, OnlyGoes
    <2>6. Handlers'
      BY <1>26, <2>1 DEF Deploy!Dies, OnlyGoes
    <2>7. QED
      BY <2>2, <2>3, <2>4, <2>5, <2>6
  <1>27. ASSUME Deploy!UndoRedis PROVE ScriptInv'
    <2>1. OnlyGoes("undo resume")
      BY <1>27, ScriptGoes DEF Deploy!UndoRedis
    <2>2. QED
      BY <1>27, <2>1 DEF Deploy!UndoRedis, OnlyGoes
  <1>28. ASSUME Deploy!UndoResume PROVE ScriptInv'
    <2>1. OnlyGoes("undo api")
      BY <1>28, ScriptGoes DEF Deploy!UndoResume
    <2>2. QED
      BY <1>28, <2>1 DEF Deploy!UndoResume, OnlyGoes
  <1>29. ASSUME Deploy!UndoStart("api", "undo api", "undo web") PROVE ScriptInv'
    <2>1. OnlyGoes("undo web")
      BY <1>29, ScriptGoes DEF Deploy!UndoStart
    <2>2. QED
      BY <1>29, <2>1 DEF Deploy!UndoStart, OnlyGoes
  <1>30. ASSUME Deploy!UndoStart("web", "undo web", "failed") PROVE ScriptInv'
    <2>1. OnlyGoes("failed")
      BY <1>30, ScriptGoes DEF Deploy!UndoStart
    <2>2. QED
      BY <1>30, <2>1 DEF Deploy!UndoStart, OnlyGoes
  <1>31. ASSUME Deploy!UndoFails PROVE ScriptInv'
    BY <1>31 DEF Deploy!UndoFails, ScriptFields
  <1>32. ASSUME Deploy!FreezePause PROVE ScriptInv'
    <2>1. /\ script.at = "freeze pause"
          /\ UNCHANGED <<up, release, schema, cipher, data, active, named, moved, breaks, deployments>>
      BY <1>32 DEF Deploy!FreezePause
    <2>2. CASE OnlyGoes("freeze stop") /\ (paused' = TRUE \/ UNCHANGED paused)
      <3>1. DeployTypes'
        BY <2>1, <2>2 DEF OnlyGoes
      <3>2. Places'
        BY <2>1, <2>2 DEF OnlyGoes
      <3>3. Quiet'
        BY <2>1, <2>2 DEF OnlyGoes
      <3>4. Copies'
        BY <2>1, <2>2 DEF OnlyGoes
      <3>5. Handlers'
        BY <2>1, <2>2 DEF OnlyGoes
      <3>6. QED
        BY <3>1, <3>2, <3>3, <3>4, <3>5
    <2>3. CASE script' = [script EXCEPT !.at = "freeze stop", !.proved = TRUE] /\ paused' = TRUE
      <3>1. /\ script'.at = "freeze stop" /\ DOMAIN script' = ScriptFields
            /\ script'.saved = script.saved /\ script'.quiesced = script.quiesced
            /\ script'.forward = script.forward /\ script'.audited = script.audited
            /\ script'.proved = TRUE /\ script'.shaken = script.shaken
        BY <2>3 DEF ScriptFields
      <3>2. QED
        BY <2>1, <2>3, <3>1
    <2>4. QED
      BY <1>32, <2>2, <2>3, ScriptGoes DEF Deploy!FreezePause
  <1>33. ASSUME Deploy!FreezeStop PROVE ScriptInv'
    <2>1. OnlyGoes(IF script.proved THEN "freeze edges" ELSE "freeze again")
      BY <1>33, ScriptGoes DEF Deploy!FreezeStop
    <2>2. DeployTypes'
      BY <1>33, <2>1 DEF Deploy!FreezeStop, OnlyGoes
    <2>3. Places'
      BY <1>33, <2>1 DEF Deploy!FreezeStop, OnlyGoes
    <2>4. Quiet'
      BY <1>33, <2>1 DEF Deploy!FreezeStop, OnlyGoes
    <2>5. Copies'
      BY <1>33, <2>1 DEF Deploy!FreezeStop, OnlyGoes
    <2>6. Handlers'
      BY <1>33, <2>1 DEF Deploy!FreezeStop, OnlyGoes
    <2>7. QED
      BY <2>2, <2>3, <2>4, <2>5, <2>6
  <1>34. ASSUME Deploy!FreezeAgain PROVE ScriptInv'
    <2>1. OnlyGoes("freeze edges")
      BY <1>34, ScriptGoes DEF Deploy!FreezeAgain
    <2>2. QED
      BY <1>34, <2>1 DEF Deploy!FreezeAgain, OnlyGoes
  <1>35. ASSUME Deploy!FreezeEdges PROVE ScriptInv'
    <2>1. OnlyGoes("failed")
      BY <1>35, ScriptGoes DEF Deploy!FreezeEdges
    <2>2. DeployTypes'
      BY <1>35, <2>1 DEF Deploy!FreezeEdges, OnlyGoes
    <2>3. Places'
      BY <1>35, <2>1 DEF Deploy!FreezeEdges, OnlyGoes
    <2>4. Quiet'
      BY <1>35, <2>1 DEF Deploy!FreezeEdges, OnlyGoes
    <2>5. Copies'
      BY <1>35, <2>1 DEF Deploy!FreezeEdges, OnlyGoes
    <2>6. Handlers'
      BY <1>35, <2>1 DEF Deploy!FreezeEdges, OnlyGoes
    <2>7. QED
      BY <2>2, <2>3, <2>4, <2>5, <2>6
  <1>36. ASSUME Deploy!FreezeSkips PROVE ScriptInv'
    <2>1. /\ script.at \in Deploy!Freeze
          /\ UNCHANGED <<up, release, schema, cipher, data, paused, active, named, moved, deployments>>
      BY <1>36 DEF Deploy!FreezeSkips
    <2>2. /\ script'.at = CASE script.at = "freeze pause" -> "freeze stop"
                             [] script.at = "freeze stop" -> "freeze again"
                             [] script.at = "freeze again" -> "freeze edges" [] OTHER -> "failed"
          /\ DOMAIN script' = ScriptFields
          /\ script'.saved = script.saved /\ script'.quiesced = script.quiesced
          /\ script'.forward = script.forward /\ script'.audited = script.audited
          /\ script'.proved = script.proved /\ script'.shaken = TRUE
      BY <1>36 DEF Deploy!FreezeSkips, ScriptFields
    <2>3. DeployTypes'
      BY <2>1, <2>2
    <2>4. Places'
      BY <2>1, <2>2
    <2>5. Quiet'
      BY <2>1, <2>2
    <2>6. Copies'
      BY <2>1, <2>2
    <2>7. Handlers'
      BY <2>1, <2>2
    <2>8. QED
      BY <2>3, <2>4, <2>5, <2>6, <2>7
  <1>37. ASSUME UNCHANGED deployVars PROVE ScriptInv'
    <2>1. DeployTypes'
      <3>1. /\ release' = release /\ schema' = schema /\ cipher' = cipher /\ paused' = paused
            /\ active' = active /\ data' = data /\ script' = script
        BY <1>37 DEF deployVars
      <3>2. release' \in Releases /\ schema' \in Releases
        BY <3>1
      <3>3. cipher' \in BOOLEAN /\ paused' \in BOOLEAN /\ active' \in BOOLEAN
        BY <3>1
      <3>4. DOMAIN data' = Deploy!Stores
        BY <3>1
      <3>5. DOMAIN script' = ScriptFields /\ DOMAIN script'.saved = Deploy!Stores
        BY <3>1
      <3>6. /\ script'.quiesced \in BOOLEAN /\ script'.forward \in BOOLEAN /\ script'.audited \in BOOLEAN
            /\ script'.proved \in BOOLEAN /\ script'.shaken \in BOOLEAN
        BY <3>1
      <3>7. QED
        BY <3>2, <3>3, <3>4, <3>5, <3>6
    <2>2. Places'
      BY <1>37 DEF deployVars
    <2>3. Quiet'
      BY <1>37 DEF deployVars
    <2>4. Copies'
      BY <1>37 DEF deployVars
    <2>5. Handlers'
      BY <1>37 DEF deployVars
    <2>6. QED
      BY <2>1, <2>2, <2>3, <2>4, <2>5
  <1> QED
    BY <1>1, <1>2, <1>3, <1>4, <1>5, <1>6, <1>7, <1>8, <1>9, <1>10, <1>11, <1>12,
       <1>13, <1>14, <1>15, <1>16, <1>17, <1>18, <1>19, <1>20, <1>21, <1>22, <1>23, <1>24,
       <1>25, <1>26, <1>27, <1>28, <1>29, <1>30, <1>31, <1>32, <1>33, <1>34, <1>35, <1>36,
       <1>37 DEF Deploy!Next

LEMMA ScriptPromise == ScriptInv => Deploy!DeploymentInv
  <1> SUFFICES ASSUME ScriptInv PROVE Deploy!DeploymentInv
    OBVIOUS
  <1>1. Deploy!OldNeverMeetsNew /\ Deploy!TripletIsExact
    BY DEF ScriptInv, DeployTypes, Copies, Releases, Deploy!OldNeverMeetsNew, Deploy!TripletIsExact
  <1>2. Deploy!OnlyAuditedWorks /\ Deploy!NoJobIsCut
    BY DEF ScriptInv, DeployTypes, Quiet, Deploy!OnlyAuditedWorks
  <1>3. QED
    BY <1>1, <1>2 DEF ScriptInv, Handlers, Deploy!DeploymentInv

--------------------------------------------------------------------------------
(* MailRouting.  A row carries what its acceptance froze, so that          *)
(* whichever copy or retry settles the route reads the same snapshot; a    *)
(* claim is taken once, with the route that its winner was due; and the    *)
(* permits are those of the mails that are being parsed.                   *)

LetterFields == {"from", "to", "via", "id", "text", "machine", "cites", "hits"}
RowFields == {"pc", "snapshot", "home", "dept", "ticket"}
Routed == {"owner", "filter", "thread", "reply", "rules"}
Own == Routed \cup {"create", "processed"}

RouteTypes ==
    /\ config \in [Mailbox -> Configs] /\ seen \in [Delivered -> [Mailbox -> Configs]]
    /\ DOMAIN letter = Delivered
    /\ \A m \in Delivered :
          letter[m].via \in Mailbox /\ letter[m].to \subseteq Mailbox /\ letter[m].id \in 0 .. 2
    /\ DOMAIN state = Delivered /\ \A m \in Delivered : DOMAIN state[m] = RowFields
    /\ DOMAIN claim = Routing!Ids
    /\ people \subseteq known

\* What the row of a mail has, as of its acceptance.
FrozenAt(m) ==
    {[id |-> q, dept |-> seen[m][q].dept, priority |-> seen[m][q].priority] : q \in {r \in Mailbox : seen[m][r].on}}

RowFits(m) ==
    /\ state[m].pc # "absent" =>
          /\ state[m].snapshot = FrozenAt(m) /\ state[m].home = seen[m][letter[m].via].dept
          /\ seen[m][letter[m].via].on
    /\ state[m].pc \in Own /\ letter[m].id # 0 => claim[letter[m].id].winner = m
    /\ state[m].pc \in Routed => state[m].dept = Routing!Due(m)
    /\ state[m].pc = "reply" => letter[m].from \in known
    /\ state[m].pc # "processed" => state[m].ticket = -1
    /\ state[m].ticket = Routing!OldTicket => letter[m].from \in known

\* A claim names a mail that was accepted, and its route.
ClaimFits(i) ==
    claim[i].winner # -1 =>
        /\ claim[i].winner \in Delivered /\ state[claim[i].winner].pc # "absent"
        /\ claim[i].dept = Routing!Due(claim[i].winner)

MailsAt(f, pc) == {m \in Delivered : f[m].pc = pc}

Permits ==
    /\ parsers = Cardinality(MailsAt(state, "parsing")) /\ parsers <= MaxParsers
    /\ queued \in Seq(Delivered) /\ (queued # << >> => parsers = MaxParsers)
    /\ {queued[i] : i \in 1 .. Len(queued)} = MailsAt(state, "waiting")
    /\ \A i, j \in 1 .. Len(queued) : queued[i] = queued[j] => i = j

RoutesInv ==
    /\ RouteTypes
    /\ \A m \in Delivered : RowFits(m)
    /\ \A i \in Routing!Ids : ClaimFits(i)
    /\ Permits

--------------------------------------------------------------------------------
LEMMA SameCountOfMails == \A S : Routing!Cardinality(S) = Cardinality(S)
  BY DEF Routing!Cardinality, Cardinality

\* A set of natural numbers has a least one.
LEMMA LeastOf ==
    ASSUME NEW S, S \subseteq Nat, S # {}
    PROVE  \E x \in S : \A y \in S : x <= y
  <1> DEFINE R == {p \in Nat \X Nat : p[1] < p[2]}
  <1>1. IsWellFoundedOn(R, Nat)
    BY NatLessThanWellFounded, Zenon DEF OpToRel
  <1>2. \A x, y \in S : x \in Nat /\ y \in Nat /\ (<<y, x>> \notin R => x <= y)
    OBVIOUS
  <1>3. \E x \in S : \A y \in S : <<y, x>> \notin R
    <2> HIDE DEF R
    <2> QED
      BY <1>1, WFMin
  <1> HIDE DEF R
  <1> QED
    BY <1>2, <1>3

\* Among queues there is one first by priority and id.
First(S, f, q) ==
    /\ q \in S
    /\ \A r \in S : q = r \/ f[q].priority < f[r].priority \/ (f[q].priority = f[r].priority /\ q < r)

LEMMA FirstExists ==
    ASSUME NEW f \in [Mailbox -> Configs], NEW S, S \subseteq Mailbox, S # {}
    PROVE  \E q \in S : First(S, f, q)
  <1> DEFINE P == {f[q].priority : q \in S}
  <1>0. \A q \in S : f[q].priority \in Nat /\ q \in Nat
    BY ServicesAssumption DEF Configs
  <1>1. P \subseteq Nat /\ P # {}
    BY <1>0
  <1>2. PICK p \in P : \A y \in P : p <= y
    <2> HIDE DEF P
    <2> QED
      BY <1>1, LeastOf
  <1> DEFINE T == {q \in S : f[q].priority = p}
  <1>3. T \subseteq Nat /\ T # {}
    BY <1>0
  <1>4. PICK q \in T : \A y \in T : q <= y
    <2> HIDE DEF T
    <2> QED
      BY <1>3, LeastOf
  <1>5. ASSUME NEW r \in S
        PROVE  q = r \/ f[q].priority < f[r].priority \/ (f[q].priority = f[r].priority /\ q < r)
    <2>1. f[q].priority = p /\ f[r].priority \in P /\ p <= f[r].priority /\ q \in Nat /\ r \in Nat
          /\ p \in Nat /\ f[r].priority \in Nat
      BY <1>0, <1>1, <1>2, <1>3
    <2>2. CASE f[r].priority = p
      <3>1. q <= r
        BY <1>4, <2>2
      <3> QED
        BY <2>1, <2>2, <3>1
    <2>3. CASE f[r].priority # p
      BY <2>1, <2>3
    <2> QED
      BY <2>2, <2>3
  <1> QED
    BY <1>4, <1>5 DEF First

LEMMA FirstIsOne ==
    ASSUME NEW f \in [Mailbox -> Configs], NEW S, S \subseteq Mailbox, NEW q, NEW r, First(S, f, q), First(S, f, r)
    PROVE  q = r
  <1>0. \A x \in S : f[x].priority \in Nat /\ x \in Nat
    BY ServicesAssumption DEF Configs
  <1>1. q \in S /\ r \in S
    BY DEF First
  <1> QED
    BY <1>0, <1>1 DEF First

\* Where a letter is due under a configuration.
DueOf(f, l) ==
    LET addressed == {q \in l.to \cup {l.via} : f[q].on}
        first == CHOOSE q \in addressed : \A r \in addressed :
                   \/ q = r \/ f[q].priority < f[r].priority
                   \/ f[q].priority = f[r].priority /\ q < r
    IN  IF f[first].dept # 0 THEN f[first].dept ELSE f[l.via].dept

LEMMA DueIsOf ==
    ASSUME NEW m
    PROVE  Routing!Due(m) = DueOf(seen[m], letter[m]) /\ Routing!Due(m)' = DueOf(seen'[m], letter'[m])
  BY DEF Routing!Due, Routing!Recipients, DueOf

LEMMA DueOfFirst ==
    ASSUME NEW f \in [Mailbox -> Configs], NEW l, l.to \subseteq Mailbox, l.via \in Mailbox, NEW q,
           First({r \in l.to \cup {l.via} : f[r].on}, f, q)
    PROVE  DueOf(f, l) = IF f[q].dept # 0 THEN f[q].dept ELSE f[l.via].dept
  <1> DEFINE S == {r \in l.to \cup {l.via} : f[r].on}
             P(x) == \A r \in S : \/ x = r \/ f[x].priority < f[r].priority
                                  \/ f[x].priority = f[r].priority /\ x < r
             c == CHOOSE x \in S : P(x)
  <1>1. c \in S /\ P(c)
    <2>1. q \in S /\ P(q)
      BY DEF First
    <2> HIDE DEF S, P
    <2> QED
      BY <2>1
  <1>2. S \subseteq Mailbox
    OBVIOUS
  <1>3. DueOf(f, l) = IF f[c].dept # 0 THEN f[c].dept ELSE f[l.via].dept
    BY DEF DueOf
  <1>4. First(S, f, q)
    OBVIOUS
  <1> HIDE DEF c, S
  <1>5. First(S, f, c)
    BY <1>1 DEF First
  <1>6. c = q
    BY <1>2, <1>4, <1>5, FirstIsOne
  <1> QED
    BY <1>3, <1>6

\* The route of a frozen row is the one that it is due.
LEMMA RouteIsDue ==
    ASSUME RouteTypes, NEW m \in Delivered, RowFits(m), state[m].pc # "absent"
    PROVE  Routing!Route(m) = Routing!Due(m)
  <1> DEFINE f == seen[m]
             l == letter[m]
             S == {r \in l.to \cup {l.via} : f[r].on}
             e(q) == [id |-> q, dept |-> f[q].dept, priority |-> f[q].priority]
             A == {x \in state[m].snapshot : x.id \in l.to \cup {l.via}}
  <1>1. f \in [Mailbox -> Configs] /\ l.to \subseteq Mailbox /\ l.via \in Mailbox
    BY DEF RouteTypes
  <1>2. state[m].snapshot = {e(q) : q \in {r \in Mailbox : f[r].on}} /\ f[l.via].on
        /\ state[m].home = f[l.via].dept
    BY DEF RowFits, FrozenAt
  <1>3. S \subseteq Mailbox /\ S # {}
    BY <1>1, <1>2
  <1>4. PICK q \in S : First(S, f, q)
    <2> HIDE DEF S, f
    <2> QED
      BY <1>1, <1>3, FirstExists DEF First
  <1>5. \A x : x \in A <=> \E r \in S : x = e(r)
    BY <1>1, <1>2
  <1>6. e(q) \in A /\ \A r \in S : e(q) = e(r) \/ Routing!Before(e(q), e(r))
    <2>1. e(q) \in A
      BY <1>5
    <2>2. \A r \in S : q = r \/ f[q].priority < f[r].priority \/ (f[q].priority = f[r].priority /\ q < r)
      BY <1>4 DEF First
    <2> HIDE DEF A, S, f
    <2> QED
      BY <2>1, <2>2 DEF Routing!Before
  <1>7. \A r \in S : (\A t \in S : e(r) = e(t) \/ Routing!Before(e(r), e(t))) => First(S, f, r)
    <2> HIDE DEF S, f
    <2> QED
      BY DEF First, Routing!Before
  <1> DEFINE first == CHOOSE x \in A : \A y \in A : x = y \/ Routing!Before(x, y)
  <1>8. Routing!Route(m) = IF A # {} /\ first.dept # 0 THEN first.dept ELSE state[m].home
    BY DEF Routing!Route, Routing!Recipients
  <1>9. first \in A /\ \A y \in A : first = y \/ Routing!Before(first, y)
    <2>1. \A y \in A : e(q) = y \/ Routing!Before(e(q), y)
      BY <1>5, <1>6
    <2> HIDE DEF A, e
    <2> QED
      BY <1>6, <2>1
  <1> HIDE DEF first, A
  <1>10. PICK r \in S : first = e(r)
    BY <1>5, <1>9
  <1>11. \A t \in S : e(t) \in A
    BY <1>5
  <1>12. First(S, f, r)
    BY <1>7, <1>9, <1>10, <1>11
  <1>13. r = q
    <2> HIDE DEF S, f
    <2> QED
      BY <1>1, <1>3, <1>4, <1>12, FirstIsOne
  <1>14. Routing!Due(m) = IF f[q].dept # 0 THEN f[q].dept ELSE f[l.via].dept
    <2>1. DueOf(f, l) = IF f[q].dept # 0 THEN f[q].dept ELSE f[l.via].dept
      BY <1>1, <1>4, DueOfFirst
    <2> QED
      BY <2>1, DueIsOf
  <1>15. first.dept = f[q].dept
    BY <1>10, <1>13
  <1> QED
    BY <1>2, <1>6, <1>8, <1>14, <1>15

LEMMA DueStays ==
    ASSUME NEW m, seen'[m] = seen[m], letter' = letter
    PROVE  Routing!Due(m)' = Routing!Due(m)
  <1>1. Routing!Due(m)' = DueOf(seen'[m], letter'[m])
    BY DueIsOf
  <1> QED
    BY <1>1, DueIsOf

\* What a row relies on stays while the rest moves on: its claim is taken once.
LEMMA RowStays ==
    ASSUME RouteTypes, NEW m \in Delivered, RowFits(m), state'[m] = state[m], seen'[m] = seen[m],
           letter' = letter, known \subseteq known',
           \A i \in Routing!Ids : claim[i].winner # -1 => claim'[i] = claim[i]
    PROVE  RowFits(m)'
  <1>1. Routing!Due(m)' = Routing!Due(m)
    BY DueStays
  <1>2. letter[m].id # 0 => letter[m].id \in Routing!Ids
    BY DEF RouteTypes, Routing!Ids
  <1>3. m # -1
    BY ServicesAssumption
  <1>4. FrozenAt(m)' = FrozenAt(m)
    BY DEF FrozenAt
  <1> QED
    BY <1>1, <1>2, <1>3, <1>4 DEF RowFits, Routing!OldTicket

LEMMA ClaimStays ==
    ASSUME NEW i \in Routing!Ids, ClaimFits(i), claim'[i] = claim[i], letter' = letter,
           \A n \in Delivered : state[n].pc # "absent" => state'[n].pc # "absent" /\ seen'[n] = seen[n]
    PROVE  ClaimFits(i)'
  <1>1. CASE claim[i].winner = -1
    BY <1>1 DEF ClaimFits
  <1>2. CASE claim[i].winner # -1
    <2>1. PICK w : w = claim[i].winner
      OBVIOUS
    <2>2. w \in Delivered /\ state[w].pc # "absent" /\ claim[i].dept = Routing!Due(w)
      BY <1>2, <2>1 DEF ClaimFits
    <2>3. Routing!Due(w)' = Routing!Due(w)
      BY <2>2, DueStays
    <2>4. claim'[i].winner = w
      BY <2>1
    <2> QED
      BY <2>2, <2>3, <2>4 DEF ClaimFits
  <1> QED
    BY <1>1, <1>2

\* A step that neither accepts a mail nor claims a route.
LEMMA RowsMove ==
    ASSUME RoutesInv, UNCHANGED <<letter, claim, seen>>,
           config' \in [Mailbox -> Configs], people' \subseteq known', known \subseteq known',
           DOMAIN state' = Delivered,
           \A n \in Delivered :
              \/ state'[n] = state[n]
              \/ RowFits(n)' /\ DOMAIN state'[n] = RowFields /\ state'[n].pc # "absent"
    PROVE  RouteTypes' /\ (\A n \in Delivered : RowFits(n)') /\ (\A i \in Routing!Ids : ClaimFits(i)')
  <1>1. RouteTypes'
    BY DEF RoutesInv, RouteTypes, Routing!Ids
  <1>2. ASSUME NEW n \in Delivered PROVE RowFits(n)'
    BY <1>2, RowStays DEF RoutesInv
  <1>3. ASSUME NEW i \in Routing!Ids PROVE ClaimFits(i)'
    BY <1>3, ClaimStays DEF RoutesInv
  <1> QED
    BY <1>1, <1>2, <1>3

\* One row goes to another step of the same attempt, or back to the first.
LEMMA RowTurns ==
    ASSUME RoutesInv, UNCHANGED <<letter, claim, seen, config, people, known>>, NEW m \in Delivered, NEW pc,
           DOMAIN state' = Delivered, state'[m] = [state[m] EXCEPT !.pc = pc],
           state[m].pc \notin {"absent", "processed"}, pc \notin {"absent", "processed"},
           pc \in Own => state[m].pc \in Own, pc \in Routed => state[m].pc \in Routed,
           pc = "reply" => letter[m].from \in known
    PROVE  RowFits(m)' /\ DOMAIN state'[m] = RowFields /\ state'[m].pc # "absent"
  <1>1. RouteTypes /\ RowFits(m) /\ DOMAIN state[m] = RowFields
    BY DEF RoutesInv, RouteTypes
  <1>2. /\ state'[m].pc = pc /\ state'[m].snapshot = state[m].snapshot /\ state'[m].home = state[m].home
        /\ state'[m].dept = state[m].dept /\ state'[m].ticket = state[m].ticket /\ DOMAIN state'[m] = RowFields
    BY <1>1 DEF RowFields
  <1>3. Routing!Due(m)' = Routing!Due(m) /\ FrozenAt(m)' = FrozenAt(m)
    BY DueStays DEF FrozenAt
  <1> QED
    BY <1>1, <1>2, <1>3 DEF RowFits, Routing!OldTicket

LEMMA PermitsStay ==
    ASSUME Permits, UNCHANGED <<parsers, queued>>,
           \A n \in Delivered : \/ state'[n] = state[n]
                                \/ {state[n].pc, state'[n].pc} \cap {"parsing", "waiting"} = {}
    PROVE  Permits'
  <1>1. MailsAt(state', "parsing") = MailsAt(state, "parsing")
    BY DEF MailsAt
  <1>2. MailsAt(state', "waiting") = MailsAt(state, "waiting")
    BY DEF MailsAt
  <1> QED
    BY <1>1, <1>2 DEF Permits

LEMMA RoutesInit == Routing!Init => RoutesInv
  <1> SUFFICES ASSUME Routing!Init PROVE RoutesInv
    OBVIOUS
  <1>1. \A m \in Delivered : state[m] = Routing!Fresh
    BY DEF Routing!Init
  <1>2. RouteTypes
    <2>1. letter \in [Delivered -> Routing!Letters]
      BY DEF Routing!Init
    <2>2. \A m \in Delivered :
             letter[m].via \in Mailbox /\ letter[m].to \subseteq Mailbox /\ letter[m].id \in 0 .. 2
      BY <2>1 DEF Routing!Letters
    <2>3. DOMAIN letter = Delivered
      BY <2>1
    <2> QED
      BY <1>1, <2>2, <2>3 DEF Routing!Init, RouteTypes, Routing!Fresh, RowFields, Routing!Ids
  <1>3. \A m \in Delivered : RowFits(m)
    BY <1>1 DEF RowFits, Routing!Fresh, Own, Routed, Routing!OldTicket
  <1>4. \A i \in Routing!Ids : ClaimFits(i)
    BY DEF Routing!Init, ClaimFits
  <1>5. Permits
    <2>1. \A pc \in {"parsing", "waiting"} : MailsAt(state, pc) = {}
      BY <1>1 DEF MailsAt, Routing!Fresh
    <2>2. Cardinality({}) = 0
      BY FS_EmptySet
    <2> QED
      <3>1. parsers = 0 /\ queued = << >>
        BY DEF Routing!Init
      <3>2. MaxParsers \in Nat
        BY ServicesAssumption
      <3>3. queued \in Seq(Delivered) /\ 1 .. Len(queued) = {}
        BY <3>1
      <3>4. /\ {queued[i] : i \in 1 .. Len(queued)} = {}
            /\ \A i, j \in 1 .. Len(queued) : queued[i] = queued[j] => i = j
        BY <3>3
      <3>5. parsers = Cardinality(MailsAt(state, "parsing")) /\ parsers <= MaxParsers
        BY <2>1, <2>2, <3>1, <3>2
      <3>6. {queued[i] : i \in 1 .. Len(queued)} = MailsAt(state, "waiting")
        BY <2>1, <3>4
      <3> QED
        BY <3>1, <3>3, <3>4, <3>5, <3>6 DEF Permits
  <1> QED
    BY <1>2, <1>3, <1>4, <1>5 DEF RoutesInv

LEMMA RoutesPromise == RoutesInv => Routing!MailGoesHome
  <1> SUFFICES ASSUME RoutesInv PROVE Routing!MailGoesHome
    OBVIOUS
  <1>1. Routing!RoutesAreKept
    BY DEF RoutesInv, RowFits, Routing!RoutesAreKept, Routing!Winner, Routed, Own
  <1>2. Routing!StrangersStartAnew
    BY DEF RoutesInv, RowFits, Routing!StrangersStartAnew, Own
  <1>3. Routing!PermitsHold
    <2>1. {m \in Delivered : Routing!At(m, "parsing")} = MailsAt(state, "parsing")
      BY DEF MailsAt, Routing!At
    <2>2. {m \in Delivered : Routing!At(m, "waiting")} = MailsAt(state, "waiting")
      BY DEF MailsAt, Routing!At
    <2>3. Routing!ToSet(queued) = {queued[i] : i \in 1 .. Len(queued)}
      BY DEF RoutesInv, Permits, Routing!ToSet
    <2> QED
      BY <2>1, <2>2, <2>3, SameCountOfMails DEF RoutesInv, Permits, Routing!PermitsHold
  <1> QED
    BY <1>1, <1>2, <1>3 DEF Routing!MailGoesHome

\* A queue without repetitions loses its head, and gets a new last.
LEMMA HeadLeaves ==
    ASSUME NEW S, NEW q \in Seq(S), q # << >>, \A i, j \in 1 .. Len(q) : q[i] = q[j] => i = j
    PROVE  /\ Tail(q) \in Seq(S) /\ Head(q) \in {q[i] : i \in 1 .. Len(q)}
           /\ {Tail(q)[i] : i \in 1 .. Len(Tail(q))} = {q[i] : i \in 1 .. Len(q)} \ {Head(q)}
           /\ \A i, j \in 1 .. Len(Tail(q)) : Tail(q)[i] = Tail(q)[j] => i = j
  <1>1. /\ Tail(q) \in Seq(S) /\ Len(Tail(q)) = Len(q) - 1 /\ Len(q) \in Nat /\ Len(q) >= 1
        /\ Head(q) = q[1] /\ \A i \in 1 .. Len(Tail(q)) : Tail(q)[i] = q[i + 1]
    OBVIOUS
  <1>2. PICK t : t = Tail(q)
    OBVIOUS
  <1>3. ASSUME NEW i \in 1 .. Len(t) PROVE t[i] \in {q[k] : k \in 1 .. Len(q)} \ {q[1]}
    <2>1. i + 1 \in 1 .. Len(q) /\ 1 \in 1 .. Len(q) /\ t[i] = q[i + 1] /\ i + 1 # 1
      BY <1>1, <1>2
    <2> QED
      BY <2>1
  <1>4. ASSUME NEW i \in 1 .. Len(q), q[i] # q[1] PROVE q[i] \in {t[k] : k \in 1 .. Len(t)}
    <2>1. i - 1 \in 1 .. Len(t) /\ t[i - 1] = q[(i - 1) + 1]
      BY <1>1, <1>2, <1>4
    <2> QED
      BY <2>1
  <1>5. \A i, j \in 1 .. Len(t) : t[i] = t[j] => i = j
    BY <1>1, <1>2
  <1>6. q[1] \in {q[i] : i \in 1 .. Len(q)}
    BY <1>1
  <1> QED
    BY <1>1, <1>2, <1>3, <1>4, <1>5, <1>6

LEMMA LastComes ==
    ASSUME NEW S, NEW q \in Seq(S), NEW x \in S, x \notin {q[i] : i \in 1 .. Len(q)},
           \A i, j \in 1 .. Len(q) : q[i] = q[j] => i = j
    PROVE  /\ Append(q, x) \in Seq(S) /\ Append(q, x) # << >>
           /\ {Append(q, x)[i] : i \in 1 .. Len(Append(q, x))} = {q[i] : i \in 1 .. Len(q)} \cup {x}
           /\ \A i, j \in 1 .. Len(Append(q, x)) : Append(q, x)[i] = Append(q, x)[j] => i = j
  <1>1. PICK t : t = Append(q, x)
    OBVIOUS
  <1>2. /\ t \in Seq(S) /\ Len(t) = Len(q) + 1 /\ Len(q) \in Nat /\ t[Len(t)] = x
        /\ \A i \in 1 .. Len(q) : t[i] = q[i]
    BY <1>1
  <1>3. \A i \in 1 .. Len(t) : i = Len(t) \/ i \in 1 .. Len(q)
    BY <1>2
  <1>4. {t[i] : i \in 1 .. Len(t)} = {q[i] : i \in 1 .. Len(q)} \cup {x}
    BY <1>2, <1>3
  <1>5. \A i, j \in 1 .. Len(t) : t[i] = t[j] => i = j
    BY <1>2, <1>3
  <1> QED
    BY <1>1, <1>2, <1>4, <1>5

LEMMA MailsAreFinite ==
    ASSUME NEW f, NEW pc
    PROVE  IsFiniteSet(MailsAt(f, pc)) /\ Cardinality(MailsAt(f, pc)) \in Nat
  <1>1. MailsAt(f, pc) \in SUBSET Delivered
    BY DEF MailsAt
  <1> QED
    BY <1>1, ServicesAssumption, FS_Subset, FS_CardinalityType

\* A row takes a permit, or queues for one.
LEMMA PermitAcquired ==
    ASSUME Permits, NEW m \in Delivered, state[m].pc = "parse", \A n \in Delivered : n # m => state'[n] = state[n],
           \/ parsers < MaxParsers /\ parsers' = parsers + 1 /\ queued' = queued /\ state'[m].pc = "parsing"
           \/ /\ ~(parsers < MaxParsers) /\ parsers' = parsers /\ queued' = Append(queued, m)
              /\ state'[m].pc = "waiting"
    PROVE  Permits'
  <1>1. /\ parsers = Cardinality(MailsAt(state, "parsing")) /\ parsers <= MaxParsers /\ parsers \in Nat
        /\ queued \in Seq(Delivered) /\ (queued # << >> => parsers = MaxParsers)
        /\ {queued[i] : i \in 1 .. Len(queued)} = MailsAt(state, "waiting")
        /\ \A i, j \in 1 .. Len(queued) : queued[i] = queued[j] => i = j
    BY MailsAreFinite DEF Permits
  <1>2. MaxParsers \in Nat
    BY ServicesAssumption
  <1>3. m \notin MailsAt(state, "parsing") /\ m \notin MailsAt(state, "waiting")
    BY DEF MailsAt
  <1>4. CASE parsers < MaxParsers /\ parsers' = parsers + 1 /\ queued' = queued /\ state'[m].pc = "parsing"
    <2>1. MailsAt(state', "parsing") = MailsAt(state, "parsing") \cup {m}
      BY <1>4 DEF MailsAt
    <2>2. MailsAt(state', "waiting") = MailsAt(state, "waiting")
      BY <1>3, <1>4 DEF MailsAt
    <2>3. Cardinality(MailsAt(state', "parsing")) = parsers + 1
      BY <1>1, <1>3, <2>1, MailsAreFinite, FS_AddElement
    <2>4. queued = << >> /\ parsers' <= MaxParsers
      BY <1>1, <1>2, <1>4
    <2> QED
      BY <1>1, <1>4, <2>2, <2>3, <2>4 DEF Permits
  <1>5. CASE /\ ~(parsers < MaxParsers) /\ parsers' = parsers /\ queued' = Append(queued, m)
             /\ state'[m].pc = "waiting"
    <2>1. MailsAt(state', "parsing") = MailsAt(state, "parsing")
      BY <1>3, <1>5 DEF MailsAt
    <2>2. MailsAt(state', "waiting") = MailsAt(state, "waiting") \cup {m}
      BY <1>5 DEF MailsAt
    <2>3. parsers = MaxParsers
      BY <1>1, <1>2, <1>5
    <2>4. /\ queued' \in Seq(Delivered)
          /\ {queued'[i] : i \in 1 .. Len(queued')} = MailsAt(state, "waiting") \cup {m}
          /\ \A i, j \in 1 .. Len(queued') : queued'[i] = queued'[j] => i = j
      BY <1>1, <1>3, <1>5, LastComes
    <2> QED
      BY <1>1, <1>5, <2>1, <2>2, <2>3, <2>4 DEF Permits
  <1> QED
    BY <1>4, <1>5

\* A row gives its permit back, to the first that waits if there is one.
LEMMA PermitReleased ==
    ASSUME Permits, NEW m \in Delivered, state[m].pc = "parsing",
           state'[m].pc \notin {"parsing", "waiting"},
           \/ /\ queued = << >> /\ queued' = queued /\ parsers' = parsers - 1
              /\ \A n \in Delivered : n # m => state'[n] = state[n]
           \/ /\ queued # << >> /\ queued' = Tail(queued) /\ parsers' = parsers
              /\ state'[Head(queued)].pc = "parsing"
              /\ \A n \in Delivered : n \notin {m, Head(queued)} => state'[n] = state[n]
    PROVE  Permits'
  <1>1. /\ parsers = Cardinality(MailsAt(state, "parsing")) /\ parsers <= MaxParsers /\ parsers \in Nat
        /\ queued \in Seq(Delivered) /\ (queued # << >> => parsers = MaxParsers)
        /\ {queued[i] : i \in 1 .. Len(queued)} = MailsAt(state, "waiting")
        /\ \A i, j \in 1 .. Len(queued) : queued[i] = queued[j] => i = j
    BY MailsAreFinite DEF Permits
  <1>2. MaxParsers \in Nat
    BY ServicesAssumption
  <1>3. m \in MailsAt(state, "parsing") /\ IsFiniteSet(MailsAt(state, "parsing"))
    <2>1. m \in MailsAt(state, "parsing")
      BY DEF MailsAt
    <2> QED
      BY <2>1, MailsAreFinite
  <1>4. /\ Cardinality(MailsAt(state, "parsing") \ {m}) = parsers - 1
        /\ IsFiniteSet(MailsAt(state, "parsing") \ {m})
    BY <1>1, <1>3, FS_RemoveElement
  <1>5. CASE /\ queued = << >> /\ queued' = queued /\ parsers' = parsers - 1
             /\ \A n \in Delivered : n # m => state'[n] = state[n]
    <2>1. MailsAt(state', "parsing") = MailsAt(state, "parsing") \ {m}
      BY <1>5 DEF MailsAt
    <2>2. MailsAt(state', "waiting") = MailsAt(state, "waiting")
      BY <1>5 DEF MailsAt
    <2>3. parsers' <= MaxParsers
      BY <1>1, <1>2, <1>5
    <2>4. parsers' = Cardinality(MailsAt(state', "parsing"))
      BY <1>4, <1>5, <2>1
    <2> QED
      BY <1>1, <1>5, <2>2, <2>3, <2>4 DEF Permits
  <1>6. CASE /\ queued # << >> /\ queued' = Tail(queued) /\ parsers' = parsers
             /\ state'[Head(queued)].pc = "parsing"
             /\ \A n \in Delivered : n \notin {m, Head(queued)} => state'[n] = state[n]
    <2>1. PICK h : h = Head(queued)
      OBVIOUS
    <2>2. /\ queued' \in Seq(Delivered) /\ h \in MailsAt(state, "waiting")
          /\ {queued'[i] : i \in 1 .. Len(queued')} = MailsAt(state, "waiting") \ {h}
          /\ \A i, j \in 1 .. Len(queued') : queued'[i] = queued'[j] => i = j
      <3>1. /\ queued \in Seq(Delivered) /\ queued # << >>
            /\ \A i, j \in 1 .. Len(queued) : queued[i] = queued[j] => i = j
        BY <1>1, <1>6
      <3>2. PICK t : t = Tail(queued)
        OBVIOUS
      <3>3. /\ t \in Seq(Delivered) /\ h \in {queued[i] : i \in 1 .. Len(queued)}
            /\ {t[i] : i \in 1 .. Len(t)} = {queued[i] : i \in 1 .. Len(queued)} \ {h}
            /\ \A i, j \in 1 .. Len(t) : t[i] = t[j] => i = j
        <4>1. PICK q \in Seq(Delivered) : q = queued
          BY <3>1
        <4>2. q # << >> /\ \A i, j \in 1 .. Len(q) : q[i] = q[j] => i = j
          BY <3>1, <4>1
        <4>3. /\ Tail(q) \in Seq(Delivered) /\ Head(q) \in {q[i] : i \in 1 .. Len(q)}
              /\ {Tail(q)[i] : i \in 1 .. Len(Tail(q))} = {q[i] : i \in 1 .. Len(q)} \ {Head(q)}
              /\ \A i, j \in 1 .. Len(Tail(q)) : Tail(q)[i] = Tail(q)[j] => i = j
          BY <4>2, HeadLeaves
        <4>4. h = Head(q) /\ t = Tail(q)
          BY <2>1, <3>2, <4>1
        <4>5. {t[i] : i \in 1 .. Len(t)} = {Tail(q)[i] : i \in 1 .. Len(Tail(q))}
          BY <4>4
        <4>6. {queued[i] : i \in 1 .. Len(queued)} = {q[i] : i \in 1 .. Len(q)}
          BY <4>1
        <4>7. \A i, j \in 1 .. Len(t) : t[i] = t[j] => i = j
          BY <4>3, <4>4
        <4>8. QED
          BY <4>3, <4>4, <4>5, <4>6, <4>7
      <3>4. queued' = t /\ {queued[i] : i \in 1 .. Len(queued)} = MailsAt(state, "waiting")
        BY <1>1, <1>6, <3>2
      <3>5. {queued'[i] : i \in 1 .. Len(queued')} = {t[i] : i \in 1 .. Len(t)}
        BY <3>4
      <3>6. \A i, j \in 1 .. Len(queued') : queued'[i] = queued'[j] => i = j
        BY <3>3, <3>4
      <3>7. QED
        BY <3>3, <3>4, <3>5, <3>6
    <2>3. h \in Delivered /\ state[h].pc = "waiting" /\ state'[h].pc = "parsing" /\ h # m
      BY <1>6, <2>1, <2>2 DEF MailsAt
    <2>4. \A n \in Delivered : n \notin {m, h} => state'[n] = state[n]
      BY <1>6, <2>1
    <2>5. MailsAt(state', "parsing") = (MailsAt(state, "parsing") \ {m}) \cup {h}
      BY <2>3, <2>4 DEF MailsAt
    <2>6. MailsAt(state', "waiting") = MailsAt(state, "waiting") \ {h}
      BY <2>3, <2>4 DEF MailsAt
    <2>7. h \notin MailsAt(state, "parsing") \ {m}
      BY <2>3 DEF MailsAt
    <2>8. Cardinality(MailsAt(state', "parsing")) = parsers
      <3>1. Cardinality((MailsAt(state, "parsing") \ {m}) \cup {h}) =
              Cardinality(MailsAt(state, "parsing") \ {m}) + 1
        BY <1>4, <2>7, FS_AddElement
      <3>2. Cardinality(MailsAt(state', "parsing")) = (parsers - 1) + 1
        BY <1>4, <2>5, <3>1
      <3>3. parsers \in Nat
        BY <1>1
      <3>4. (parsers - 1) + 1 = parsers
        BY <3>3
      <3> QED
        BY <3>2, <3>4
    <2> QED
      BY <1>1, <1>6, <2>2, <2>6, <2>8 DEF Permits
  <1> QED
    BY <1>5, <1>6

LEMMA RouteStep ==
    ASSUME RoutesInv, [Routing!Next]_routeVars
    PROVE  RoutesInv'
  <1>t. RouteTypes /\ Permits
    BY DEF RoutesInv
  <1>c. ASSUME UNCHANGED <<letter, claim, seen, config, people, known>>, DOMAIN state' = Delivered, Permits',
               \A n \in Delivered :
                  \/ state'[n] = state[n]
                  \/ RowFits(n)' /\ DOMAIN state'[n] = RowFields /\ state'[n].pc # "absent"
        PROVE  RoutesInv'
    <2>1. config' \in [Mailbox -> Configs] /\ people' \subseteq known' /\ known \subseteq known'
      BY <1>t, <1>c DEF RouteTypes
    <2> QED
      BY <1>c, <2>1, RowsMove DEF RoutesInv
  \* A row that goes on, or back, by itself, without a permit.
  <1>g. ASSUME NEW m \in Delivered, NEW pc, Routing!To(m, pc),
               UNCHANGED <<letter, claim, seen, config, people, known, parsers, queued>>,
               {state[m].pc, pc} \cap {"absent", "processed", "parsing", "waiting"} = {},
               pc \in Own => state[m].pc \in Own, pc \in Routed => state[m].pc \in Routed,
               pc = "reply" => letter[m].from \in known
        PROVE  RoutesInv'
    <2>1. /\ DOMAIN state' = Delivered /\ state'[m] = [state[m] EXCEPT !.pc = pc]
          /\ \A n \in Delivered : n # m => state'[n] = state[n]
      BY <1>t, <1>g DEF RouteTypes, Routing!To
    <2>2. state'[m].pc = pc
      BY <1>t, <2>1 DEF RouteTypes, RowFields
    <2>3. RowFits(m)' /\ DOMAIN state'[m] = RowFields /\ state'[m].pc # "absent"
      BY <1>g, <2>1, RowTurns
    <2>4. Permits'
      BY <1>t, <1>g, <2>1, <2>2, PermitsStay
    <2> QED
      BY <1>c, <1>g, <2>1, <2>3, <2>4
  <1>1. ASSUME UNCHANGED <<letter, state, claim, seen, parsers, queued>>, config' \in [Mailbox -> Configs],
               people' \subseteq known', known \subseteq known'
        PROVE  RoutesInv'
    <2>1. DOMAIN state' = Delivered /\ \A n \in Delivered : state'[n] = state[n]
      BY <1>1, <1>t DEF RouteTypes
    <2>2. Permits'
      BY <1>1, <1>t, <2>1, PermitsStay
    <2> QED
      BY <1>1, <2>1, <2>2, RowsMove DEF RoutesInv
  <1>2. CASE Routing!EditQueue
    BY <1>1, <1>2, <1>t DEF Routing!EditQueue, Routing!Routing, Routing!Permits, RouteTypes
  <1>3. CASE Routing!RefreshOwnAddresses \/ Routing!SwitchRule
    BY <1>1, <1>3, <1>t
       DEF Routing!RefreshOwnAddresses, Routing!SwitchRule, Routing!Routing, Routing!Permits, RouteTypes
  <1>4. CASE Routing!EditPeople
    BY <1>1, <1>4, <1>t DEF Routing!EditPeople, Routing!Routing, Routing!Permits, RouteTypes
  <1>5. ASSUME NEW m \in Delivered, Routing!Accept(m) PROVE RoutesInv'
    <2>1. /\ state[m].pc = "absent" /\ config[letter[m].via].on
          /\ state' = [state EXCEPT ![m].pc = "parse", ![m].snapshot = Routing!Snapshot,
                                    ![m].home = config[letter[m].via].dept]
          /\ seen' = [seen EXCEPT ![m] = config]
          /\ UNCHANGED <<letter, claim, parsers, queued, config, people, known>>
      BY <1>5 DEF Routing!Accept, Routing!At, Routing!Permits, Routing!Edited
    <2>2. /\ DOMAIN state' = Delivered /\ \A n \in Delivered : n # m => state'[n] = state[n]
          /\ seen'[m] = config /\ \A n \in Delivered : n # m => seen'[n] = seen[n]
      BY <1>t, <2>1 DEF RouteTypes
    <2>3. /\ state'[m].pc = "parse" /\ state'[m].snapshot = Routing!Snapshot
          /\ state'[m].home = config[letter[m].via].dept /\ state'[m].ticket = state[m].ticket
          /\ DOMAIN state'[m] = RowFields
      BY <1>t, <2>1 DEF RouteTypes, RowFields
    <2>4. RouteTypes'
      BY <1>t, <2>1, <2>2, <2>3 DEF RouteTypes, Routing!Ids
    <2>5. RowFits(m)'
      <3>1. FrozenAt(m)' = Routing!Snapshot
        BY <2>2 DEF FrozenAt, Routing!Snapshot
      <3>2. RowFits(m)
        BY DEF RoutesInv
      <3> QED
        BY <2>1, <2>2, <2>3, <3>1, <3>2 DEF RowFits, Own, Routed, Routing!OldTicket
    <2>6. ASSUME NEW n \in Delivered PROVE RowFits(n)'
      BY <1>t, <2>1, <2>2, <2>5, RowStays DEF RoutesInv
    <2>7. ASSUME NEW i \in Routing!Ids PROVE ClaimFits(i)'
      BY <2>1, <2>2, <2>3, ClaimStays DEF RoutesInv
    <2>8. Permits'
      BY <1>t, <2>1, <2>2, <2>3, PermitsStay
    <2> QED
      BY <2>4, <2>6, <2>7, <2>8 DEF RoutesInv
  <1>6. ASSUME NEW m \in Delivered, Routing!AcquireParserSlot(m) PROVE RoutesInv'
    <2>1. state[m].pc = "parse" /\ UNCHANGED <<letter, claim, seen, config, people, known>>
      BY <1>6 DEF Routing!AcquireParserSlot, Routing!At, Routing!Routing, Routing!Edited
    <2>2. CASE UNCHANGED <<parsers, queued, state>>
      BY <1>1, <1>t, <2>1, <2>2 DEF RouteTypes
    <2>3. ASSUME NEW pc \in {"parsing", "waiting"}, Routing!To(m, pc),
                 \/ parsers < MaxParsers /\ parsers' = parsers + 1 /\ queued' = queued /\ pc = "parsing"
                 \/ ~(parsers < MaxParsers) /\ parsers' = parsers /\ queued' = Append(queued, m) /\ pc = "waiting"
          PROVE  RoutesInv'
      <3>1. /\ DOMAIN state' = Delivered /\ state'[m] = [state[m] EXCEPT !.pc = pc]
            /\ \A n \in Delivered : n # m => state'[n] = state[n]
        BY <1>t, <2>3 DEF RouteTypes, Routing!To
      <3>2. state'[m].pc = pc
        BY <1>t, <3>1 DEF RouteTypes, RowFields
      <3>3. RowFits(m)' /\ DOMAIN state'[m] = RowFields /\ state'[m].pc # "absent"
        BY <2>1, <2>3, <3>1, RowTurns DEF Own, Routed
      <3>4. Permits'
        BY <1>t, <2>1, <2>3, <3>1, <3>2, PermitAcquired
      <3> QED
        BY <1>c, <2>1, <3>1, <3>3, <3>4
    <2> QED
      BY <1>6, <2>2, <2>3 DEF Routing!AcquireParserSlot
  <1>7. ASSUME NEW m \in Delivered, Routing!Parse(m) PROVE RoutesInv'
    <2>1. state[m].pc = "parsing" /\ UNCHANGED <<letter, claim, seen, config, people, known>>
      BY <1>7 DEF Routing!Parse, Routing!At, Routing!Routing, Routing!Edited
    <2>2. PICK pc \in {"route", "quarantined"} :
             IF queued = << >>
             THEN parsers' = parsers - 1 /\ Routing!To(m, pc) /\ UNCHANGED queued
             ELSE /\ queued' = Tail(queued) /\ UNCHANGED parsers
                  /\ state' = [state EXCEPT ![m].pc = pc, ![Head(queued)].pc = "parsing"]
      BY <1>7 DEF Routing!Parse
    <2>3. CASE queued = << >>
      <3>1. /\ DOMAIN state' = Delivered /\ state'[m] = [state[m] EXCEPT !.pc = pc]
            /\ \A n \in Delivered : n # m => state'[n] = state[n]
        BY <1>t, <2>2, <2>3 DEF RouteTypes, Routing!To
      <3>2. state'[m].pc = pc
        BY <1>t, <3>1 DEF RouteTypes, RowFields
      <3>3. RowFits(m)' /\ DOMAIN state'[m] = RowFields /\ state'[m].pc # "absent"
        BY <2>1, <3>1, RowTurns DEF Own, Routed
      <3>4. Permits'
        BY <1>t, <2>1, <2>2, <2>3, <3>1, <3>2, PermitReleased
      <3> QED
        BY <1>c, <2>1, <3>1, <3>3, <3>4
    <2>4. CASE queued # << >>
      <3>1. PICK h : h = Head(queued)
        OBVIOUS
      <3>2. h \in Delivered /\ state[h].pc = "waiting" /\ h # m
        <4>1. h \in MailsAt(state, "waiting")
          BY <1>t, <2>4, <3>1, HeadLeaves DEF Permits
        <4> QED
          BY <2>1, <4>1 DEF MailsAt
      <3>3. /\ DOMAIN state' = Delivered /\ state'[m] = [state[m] EXCEPT !.pc = pc]
            /\ state'[h] = [state[h] EXCEPT !.pc = "parsing"]
            /\ \A n \in Delivered : n \notin {m, h} => state'[n] = state[n]
        BY <1>t, <2>2, <2>4, <3>1, <3>2 DEF RouteTypes
      <3>4. state'[m].pc = pc /\ state'[h].pc = "parsing"
        BY <1>t, <3>2, <3>3 DEF RouteTypes, RowFields
      <3>5. RowFits(m)' /\ DOMAIN state'[m] = RowFields /\ state'[m].pc # "absent"
        BY <2>1, <3>3, RowTurns DEF Own, Routed
      <3>6. RowFits(h)' /\ DOMAIN state'[h] = RowFields /\ state'[h].pc # "absent"
        BY <2>1, <3>2, <3>3, RowTurns DEF Own, Routed
      <3>7. Permits'
        BY <1>t, <2>1, <2>2, <2>4, <3>1, <3>3, <3>4, PermitReleased
      <3>8. \A n \in Delivered :
               \/ state'[n] = state[n]
               \/ RowFits(n)' /\ DOMAIN state'[n] = RowFields /\ state'[n].pc # "absent"
        BY <3>3, <3>5, <3>6
      <3> QED
        BY <1>c, <2>1, <3>3, <3>7, <3>8
    <2> QED
      BY <2>3, <2>4
  <1>8. ASSUME NEW m \in Delivered, Routing!Identify(m) PROVE RoutesInv'
    <2>1. PICK i : i = letter[m].id
      OBVIOUS
    <2>2. PICK c : c = IF i = 0 THEN [winner |-> m, text |-> letter[m].text, dept |-> Routing!Route(m)]
                       ELSE Routing!Claimed(m)
      OBVIOUS
    <2>3. PICK pc : pc = CASE c.text # letter[m].text -> "quarantined"
                           [] c.winner # m -> "skipped"
                           [] OTHER -> "owner"
      OBVIOUS
    <2>4. /\ state[m].pc = "route" /\ UNCHANGED <<letter, seen, parsers, queued, config, people, known>>
          /\ claim' = IF i = 0 THEN claim ELSE [claim EXCEPT ![i] = c]
          /\ state' = [state EXCEPT ![m].dept = c.dept, ![m].pc = pc]
      BY <1>8, <2>1, <2>2, <2>3 DEF Routing!Identify, Routing!At, Routing!Permits, Routing!Edited
    <2>5. /\ DOMAIN state' = Delivered /\ \A n \in Delivered : n # m => state'[n] = state[n]
          /\ DOMAIN state'[m] = RowFields /\ state'[m].pc = pc /\ state'[m].dept = c.dept
          /\ state'[m].snapshot = state[m].snapshot /\ state'[m].home = state[m].home
          /\ state'[m].ticket = state[m].ticket
      BY <1>t, <2>4 DEF RouteTypes, RowFields
    <2>6. /\ i # 0 => i \in Routing!Ids
          /\ DOMAIN claim' = Routing!Ids /\ (i # 0 => claim'[i] = c)
          /\ \A j \in Routing!Ids : j # i => claim'[j] = claim[j]
      BY <1>t, <2>1, <2>4 DEF RouteTypes, Routing!Ids
    <2>7. Routing!Route(m) = Routing!Due(m)
      BY <1>t, <2>4, RouteIsDue DEF RoutesInv
    <2>8. /\ Routing!Due(m)' = Routing!Due(m) /\ FrozenAt(m)' = FrozenAt(m)
      BY <2>4, DueStays DEF FrozenAt
    <2>9. pc \in {"quarantined", "skipped", "owner"} /\ (pc = "owner" => c.winner = m)
      BY <2>3
    <2>10. CASE i = 0 \/ claim[i].winner = -1
      <3>1. c = [winner |-> m, text |-> letter[m].text, dept |-> Routing!Due(m)]
        BY <2>1, <2>2, <2>7, <2>10 DEF Routing!Claimed
      <3>2. c.winner = m /\ c.dept = Routing!Due(m)
        BY <3>1
      <3>3. RowFits(m)'
        BY <2>1, <2>4, <2>5, <2>6, <2>8, <2>9, <3>2 DEF RoutesInv, RowFits, Own, Routed, Routing!OldTicket
      <3>4. \A j \in Routing!Ids : claim[j].winner # -1 => claim'[j] = claim[j]
        BY <2>4, <2>6, <2>10
      <3>5. ASSUME NEW n \in Delivered PROVE RowFits(n)'
        BY <1>t, <2>4, <2>5, <3>3, <3>4, RowStays DEF RoutesInv
      <3>6. ASSUME NEW j \in Routing!Ids PROVE ClaimFits(j)'
        <4>1. CASE j = i
          <5>1. i # 0 /\ claim'[i] = c
            BY <2>6, <4>1 DEF Routing!Ids
          <5> QED
            BY <2>5, <2>8, <2>9, <3>2, <4>1, <5>1 DEF ClaimFits
        <4>2. CASE j # i
          BY <2>4, <2>5, <2>6, <2>9, <4>2, ClaimStays DEF RoutesInv
        <4> QED
          BY <4>1, <4>2
      <3>7. RouteTypes'
        BY <1>t, <2>4, <2>5, <2>6 DEF RouteTypes, Routing!Ids
      <3>8. Permits'
        BY <1>t, <2>4, <2>5, <2>9, PermitsStay
      <3> QED
        BY <3>5, <3>6, <3>7, <3>8 DEF RoutesInv
    <2>11. CASE i # 0 /\ claim[i].winner # -1
      <3>1. c = claim[i]
        BY <2>1, <2>2, <2>11 DEF Routing!Claimed
      <3>2. c.dept = Routing!Due(c.winner)
        BY <2>6, <2>11, <3>1 DEF RoutesInv, ClaimFits
      <3>3. \A j \in Routing!Ids : claim'[j] = claim[j]
        BY <2>6, <3>1, <2>11
      <3>4. RowFits(m)'
        BY <2>1, <2>4, <2>5, <2>6, <2>8, <2>9, <2>11, <3>2
           DEF RoutesInv, RowFits, Own, Routed, Routing!OldTicket
      <3>5. ASSUME NEW n \in Delivered PROVE RowFits(n)'
        BY <1>t, <2>4, <2>5, <3>3, <3>4, RowStays DEF RoutesInv
      <3>6. ASSUME NEW j \in Routing!Ids PROVE ClaimFits(j)'
        BY <2>4, <2>5, <2>9, <3>3, ClaimStays DEF RoutesInv
      <3>7. RouteTypes'
        BY <1>t, <2>4, <2>5, <2>6 DEF RouteTypes, Routing!Ids
      <3>8. Permits'
        BY <1>t, <2>4, <2>5, <2>9, PermitsStay
      <3> QED
        BY <3>5, <3>6, <3>7, <3>8 DEF RoutesInv
    <2> QED
      BY <2>10, <2>11
  <1>9. ASSUME NEW m \in Delivered, Routing!Owner(m) PROVE RoutesInv'
    <2>1. PICK pc \in {"parse", "filter"} : Routing!To(m, pc)
      BY <1>9 DEF Routing!Owner
    <2> QED
      BY <1>9, <1>g, <2>1
         DEF Routing!Owner, Routing!At, Routing!Routing, Routing!Permits, Routing!Edited, Own, Routed
  <1>10. ASSUME NEW m \in Delivered, Routing!Filter(m) PROVE RoutesInv'
    <2>1. PICK pc \in {"skipped", "thread"} : Routing!To(m, pc)
      BY <1>10 DEF Routing!Filter
    <2> QED
      BY <1>10, <1>g, <2>1
         DEF Routing!Filter, Routing!At, Routing!Routing, Routing!Permits, Routing!Edited, Own, Routed
  <1>11. ASSUME NEW m \in Delivered, Routing!Thread(m) PROVE RoutesInv'
    <2>1. PICK pc \in {"reply", "rules"} : Routing!To(m, pc) /\ (pc = "reply" => letter[m].from \in people)
      BY <1>11 DEF Routing!Thread
    <2>2. people \subseteq known
      BY <1>t DEF RouteTypes
    <2> QED
      BY <1>11, <1>g, <2>1, <2>2
         DEF Routing!Thread, Routing!At, Routing!Routing, Routing!Permits, Routing!Edited, Own, Routed
  \* A row that the last two transactions move: what was frozen in it stays.
  <1>o. ASSUME NEW m \in Delivered, state[m].pc \in Routed \cup {"create"},
               DOMAIN state' = Delivered, \A n \in Delivered : n # m => state'[n] = state[n],
               DOMAIN state'[m] = RowFields, state'[m].pc \in {"create", "processed"},
               UNCHANGED <<letter, claim, seen, config, people, known, parsers, queued>>,
               state'[m].snapshot = state[m].snapshot, state'[m].home = state[m].home,
               state'[m].ticket = -1 \/ state'[m].pc = "processed",
               state'[m].ticket = Routing!OldTicket => state[m].pc = "reply"
        PROVE  RoutesInv'
    <2>2. FrozenAt(m)' = FrozenAt(m)
      BY <1>o DEF FrozenAt
    <2>3. RowFits(m)'
      BY <1>o, <2>2 DEF RoutesInv, RowFits, Own, Routed, Routing!OldTicket
    <2>4. Permits'
      BY <1>t, <1>o, PermitsStay DEF Routed
    <2> QED
      BY <1>c, <1>o, <2>3, <2>4
  <1>12. ASSUME NEW m \in Delivered, Routing!Reply(m) PROVE RoutesInv'
    <2>1. /\ state[m].pc = "reply" /\ UNCHANGED <<letter, claim, seen, config, people, known, parsers, queued>>
          /\ state' = [state EXCEPT ![m].pc = "processed", ![m].ticket = Routing!OldTicket]
      BY <1>12 DEF Routing!Reply, Routing!At, Routing!Routing, Routing!Permits, Routing!Edited
    <2>2. /\ DOMAIN state' = Delivered /\ \A n \in Delivered : n # m => state'[n] = state[n]
          /\ state'[m].pc = "processed" /\ state'[m].snapshot = state[m].snapshot
          /\ state'[m].home = state[m].home /\ DOMAIN state'[m] = RowFields
      BY <1>t, <2>1 DEF RouteTypes, RowFields
    <2> QED
      BY <1>o, <2>1, <2>2 DEF Routed
  <1>13. ASSUME NEW m \in Delivered, Routing!ApplyParserRules(m) PROVE RoutesInv'
    <2>1. state[m].pc = "rules" /\ UNCHANGED <<letter, claim, seen, config, people, known, parsers, queued>>
      BY <1>13 DEF Routing!ApplyParserRules, Routing!At, Routing!Routing, Routing!Permits, Routing!Edited
    <2>2. CASE Routing!To(m, "skipped")
      BY <1>g, <2>1, <2>2 DEF Own, Routed
    <2>3. ASSUME NEW dept, state' = [state EXCEPT ![m].pc = "create", ![m].dept = dept] PROVE RoutesInv'
      <3>1. /\ DOMAIN state' = Delivered /\ \A n \in Delivered : n # m => state'[n] = state[n]
            /\ state'[m].pc = "create" /\ state'[m].snapshot = state[m].snapshot
            /\ state'[m].home = state[m].home /\ state'[m].ticket = state[m].ticket
            /\ DOMAIN state'[m] = RowFields
        BY <1>t, <2>3 DEF RouteTypes, RowFields
      <3>2. state'[m].ticket = -1 /\ -1 # Routing!OldTicket
        BY <2>1, <3>1 DEF RoutesInv, RowFits, Routing!OldTicket
      <3> QED
        BY <1>o, <2>1, <3>1, <3>2 DEF Routed
    <2> QED
      BY <1>13, <2>2, <2>3 DEF Routing!ApplyParserRules
  <1>14. ASSUME NEW m \in Delivered, Routing!Create(m) PROVE RoutesInv'
    <2>1. /\ state[m].pc = "create" /\ UNCHANGED <<letter, claim, seen, config, people, known, parsers, queued>>
          /\ state' = [state EXCEPT ![m].pc = "processed", ![m].ticket = m]
      BY <1>14 DEF Routing!Create, Routing!At, Routing!Routing, Routing!Permits, Routing!Edited
    <2>2. /\ DOMAIN state' = Delivered /\ \A n \in Delivered : n # m => state'[n] = state[n]
          /\ state'[m].pc = "processed" /\ state'[m].snapshot = state[m].snapshot
          /\ state'[m].home = state[m].home /\ DOMAIN state'[m] = RowFields /\ state'[m].ticket = m
      BY <1>t, <2>1 DEF RouteTypes, RowFields
    <2>3. m # Routing!OldTicket
      BY ServicesAssumption DEF Routing!OldTicket
    <2> QED
      BY <1>o, <2>1, <2>2, <2>3 DEF Routed
  <1>15. ASSUME NEW m \in Delivered, Routing!Retry(m) PROVE RoutesInv'
    BY <1>15, <1>g DEF Routing!Retry, Routing!Routing, Routing!Permits, Routing!Edited, Own, Routed
  <1>16. CASE UNCHANGED routeVars
    BY <1>1, <1>16, <1>t DEF routeVars, RouteTypes
  <1> QED
    BY <1>2, <1>3, <1>4, <1>5, <1>6, <1>7, <1>8, <1>9, <1>10, <1>11, <1>12, <1>13, <1>14, <1>15, <1>16
       DEF Routing!Next

--------------------------------------------------------------------------------
(* Side by side.                                                           *)

DoorsInv == LinksInv /\ AdminsInv /\ UploadsInv /\ LimitsInv

LEMMA DoorsInitially == Init => DoorsInv
  BY LinksInit, AdminsInit, UploadsInit, LimitsInit DEF Init, DoorsInv

LEMMA DoorsStep ==
    ASSUME DoorsInv, [Next]_vars
    PROVE  DoorsInv'
  <1>0. LinksInv /\ AdminsInv /\ UploadsInv /\ LimitsInv
    BY DEF DoorsInv
  <1>1. ASSUME UNCHANGED loginVars PROVE LinksInv'
    BY <1>0, <1>1 DEF loginVars, LinksInv, AskerTypes
  <1>2. ASSUME UNCHANGED adminVars PROVE AdminsInv'
    <2>1. UNCHANGED <<staff, group, lock, request, late>>
      BY <1>2 DEF adminVars
    <2>2. AdminTypes'
      BY <1>0, <2>1 DEF AdminsInv, AdminTypes
    <2>3. Admins!AnAdminRemains'
      BY <1>0, <2>1 DEF AdminsInv, Admins!AnAdminRemains, Admins!Active
    <2>4. \A r \in Request : AdminKnows(r) => AdminKnows(r)'
      BY <2>1 DEF AdminKnows, Admins!Allowed, Admins!RemovesAdmin, Admins!EnabledAdmins, Admins!Active
    <2>5. QED
      BY <1>0, <2>1, <2>2, <2>3, <2>4 DEF AdminsInv
  <1>3. ASSUME UNCHANGED uploadVars PROVE UploadsInv'
    BY <1>0, <1>3 DEF uploadVars, UploadsInv, UploadRows, QuotasKept, OrphansFew, ScanSlots
  <1>4. ASSUME UNCHANGED limitVars PROVE LimitsInv'
    BY <1>0, <1>4 DEF limitVars, LimitsInv
  <1>5. CASE LoginStory
    <2>1. LinksInv' /\ UNCHANGED <<adminVars, uploadVars, limitVars>>
      BY <1>0, <1>5, LinksStep DEF LoginStory, gateVars
    <2>2. QED
      BY <2>1, <1>2, <1>3, <1>4 DEF DoorsInv
  <1>6. CASE AdminStory
    <2>1. AdminsInv' /\ UNCHANGED <<loginVars, uploadVars, limitVars>>
      BY <1>0, <1>6, AdminsStep DEF AdminStory, gateVars
    <2>2. QED
      BY <2>1, <1>1, <1>3, <1>4 DEF DoorsInv
  <1>7. CASE UploadStory
    <2>1. UploadsInv' /\ UNCHANGED <<loginVars, adminVars, limitVars>>
      BY <1>0, <1>7, RowsStep, QuotasStep, OrphansStep, SlotsStep DEF UploadStory, serviceVars, UploadsInv
    <2>2. QED
      BY <2>1, <1>1, <1>2, <1>4 DEF DoorsInv
  <1>8. CASE LimitStory
    <2>1. LimitsInv' /\ UNCHANGED <<loginVars, adminVars, uploadVars>>
      BY <1>0, <1>8, LimitsStep DEF LimitStory, serviceVars
    <2>2. QED
      BY <2>1, <1>1, <1>2, <1>3 DEF DoorsInv
  <1>9. CASE ReportStory \/ CaptureStory \/ DueStory \/ DeployStory \/ RouteStory \/ UNCHANGED vars
    <2>1. UNCHANGED <<loginVars, adminVars, uploadVars, limitVars>>
      BY <1>9 DEF ReportStory, CaptureStory, DueStory, DeployStory, RouteStory, vars, serviceVars, gateVars
    <2>2. QED
      BY <2>1, <1>1, <1>2, <1>3, <1>4 DEF DoorsInv
  <1>10. QED
    BY <1>5, <1>6, <1>7, <1>8, <1>9 DEF Next

\* THEOREM: who may come in, what they may do and how much. A live sign-in link of a
\* customer belongs to the owner of its address (client-auth.service.ts), an active
\* administrator remains whoever is edited at once (staff.service.ts), uploads keep
\* within their quotas and scan slots (attachments/), wrong guesses stay below the
\* threshold plus the logins in flight (login-throttle.service.ts) and resets within
\* their limits (password-reset-throttle.service.ts): for any number of requests,
\* addresses, uploads and logins.
THEOREM DoorsAreHeld == Spec => []DoorsHold
  <1>1. DoorsInv => DoorsHold
    BY LinksPromise, UploadsPromise, LimitsPromise DEF DoorsInv, AdminsInv, DoorsHold
  <1>2. QED
    BY <1>1, DoorsInitially, DoorsStep, PTL DEF Spec

\* THEOREM: a capture test gathers evidence and nothing else: what a
\* capture received stays inert and promoted at most once, and its retired queue is
\* kept as evidence (email-queue.service.ts, inbound.service.ts), for any number of
\* queues, pods and deliveries.
THEOREM CaptureIsOnlyEvidence == Spec => []CaptureIsEvidence
  <1>1. Init => CaptureInv
    BY CaptureInit DEF Init
  <1>2. CaptureInv /\ [Next]_vars => CaptureInv'
    <2> SUFFICES ASSUME CaptureInv, [Next]_vars PROVE CaptureInv'
      OBVIOUS
    <2>1. CASE CaptureStory
      BY <2>1, CaptureStep DEF CaptureStory
    <2>2. ASSUME UNCHANGED captureVars PROVE CaptureInv'
      BY <2>2 DEF captureVars, CaptureInv, CaptureTypes, DeliveryFits, QueueFits, Inert, Ordinary
    <2>3. CASE ReportStory \/ LoginStory \/ AdminStory \/ DueStory \/ DeployStory \/ UploadStory
               \/ LimitStory \/ RouteStory \/ UNCHANGED vars
      <3>1. UNCHANGED captureVars
        BY <2>3 DEF ReportStory, LoginStory, AdminStory, DueStory, DeployStory, UploadStory,
             LimitStory, RouteStory, vars, serviceVars
      <3>2. QED
        BY <3>1, <2>2
    <2>4. QED
      BY <2>1, <2>3 DEF Next
  <1>3. QED
    BY <1>1, <1>2, CapturePromise, PTL DEF Spec

\* THEOREM: one run for a fire, and mail only for what is configured at that moment,
\* with rights and departments the owner holds (report-schedule.processor.ts), for any
\* number of pods.
THEOREM ReportsFireOnce == Spec => FiresOnceAsConfigured
  <1> DEFINE A == /\ \A r \in runs' \ runs : \A q \in runs : q.fire # r.fire
                  /\ \A m \in mail' \ mail :
                       /\ m.config = <<schedule.gen, report>> /\ schedule.on
                       /\ owner.able /\ m.rights = owner
                       /\ m.scope = owner.scope \/ m.moved
  <1>1. Init => ReportsInv
    BY ReportsInit DEF Init
  <1>2. ReportsInv /\ [Next]_vars => ReportsInv' /\ [A]_Reports!vars
    <2> SUFFICES ASSUME ReportsInv, [Next]_vars PROVE ReportsInv' /\ [A]_Reports!vars
      OBVIOUS
    <2>1. CASE ReportStory
      BY <2>1, ReportsStep, ReportFires DEF ReportStory
    <2>2. ASSUME UNCHANGED reportVars PROVE ReportsInv' /\ A
      BY <2>2 DEF reportVars, ReportsInv, ScanFits, Fresh
    <2>3. CASE LoginStory \/ AdminStory \/ CaptureStory \/ DueStory \/ DeployStory \/ UploadStory
               \/ LimitStory \/ RouteStory \/ UNCHANGED vars
      <3>1. UNCHANGED reportVars
        BY <2>3 DEF LoginStory, AdminStory, CaptureStory, DueStory, DeployStory, UploadStory,
             LimitStory, RouteStory, vars, serviceVars
      <3>2. QED
        BY <3>1, <2>2
    <2>4. QED
      BY <2>1, <2>3 DEF Next
  <1>3. QED
    BY <1>1, <1>2, PTL DEF Spec, FiresOnceAsConfigured, Reports!FiresOnceAsConfigured

\* THEOREM: the old release never runs on what the new one has migrated, the copies that
\* are kept behind the boundary are of one moment, no job is cut, and a failure ends where
\* deploy-prod.sh says it does: for any number of writes, failures and repetitions.
THEOREM DeploymentIsSafe == Spec => []DeploymentInv
  <1>1. Init => ScriptInv
    BY ScriptInitially DEF Init
  <1>2. ScriptInv /\ [Next]_vars => ScriptInv'
    <2> SUFFICES ASSUME ScriptInv, [Next]_vars PROVE ScriptInv'
      OBVIOUS
    <2>1. CASE DeployStory
      BY <2>1, ScriptStep DEF DeployStory
    <2>2. CASE UNCHANGED deployVars
      BY <2>2, ScriptStep
    <2>3. CASE ReportStory \/ LoginStory \/ AdminStory \/ CaptureStory \/ DueStory \/ UploadStory
               \/ LimitStory \/ RouteStory \/ UNCHANGED vars
      <3>1. UNCHANGED deployVars
        BY <2>3 DEF ReportStory, LoginStory, AdminStory, CaptureStory, DueStory, UploadStory,
                    LimitStory, RouteStory, vars, serviceVars
      <3>2. QED
        BY <3>1, <2>2
    <2>4. QED
      BY <2>1, <2>3 DEF Next
  <1>3. ScriptInv => DeploymentInv
    BY ScriptPromise DEF DeploymentInv
  <1>4. QED
    BY <1>1, <1>2, <1>3, PTL DEF Spec

\* THEOREM: a mail goes by the queues as they stood when it was accepted, whatever is
\* edited before it is routed and whichever copy or retry routes it; a stranger never
\* writes into a ticket, and no permit is lost (inbound.service.ts): for any set of mails,
\* mailboxes and permits.
THEOREM MailIsRoutedHome == Spec => []MailGoesHome
  <1>1. Init => RoutesInv
    BY RoutesInit DEF Init
  <1>2. RoutesInv /\ [Next]_vars => RoutesInv'
    <2> SUFFICES ASSUME RoutesInv, [Next]_vars PROVE RoutesInv'
      OBVIOUS
    <2>1. CASE RouteStory
      BY <2>1, RouteStep DEF RouteStory
    <2>2. CASE UNCHANGED routeVars
      BY <2>2, RouteStep
    <2>3. CASE ReportStory \/ LoginStory \/ AdminStory \/ CaptureStory \/ DueStory \/ UploadStory
               \/ LimitStory \/ DeployStory \/ UNCHANGED vars
      <3>1. UNCHANGED routeVars
        BY <2>3 DEF ReportStory, LoginStory, AdminStory, CaptureStory, DueStory, UploadStory,
                    LimitStory, DeployStory, vars, gateVars
      <3>2. QED
        BY <3>1, <2>2
    <2>4. QED
      BY <2>1, <2>3 DEF Next
  <1>3. RoutesInv => MailGoesHome
    BY RoutesPromise DEF MailGoesHome
  <1>4. QED
    BY <1>1, <1>2, <1>3, PTL DEF Spec
================================================================================
